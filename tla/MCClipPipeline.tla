--------------------------- MODULE MCClipPipeline ---------------------------
(* Instances of ClipPipeline for TLC. *)
EXTENDS ClipPipeline, TLC

CONSTANTS f1, f2, c1, c2, w1, w2

(* Every recording has its own content. *)
MCDistinct == [f \in Files |-> IF f = f1 THEN c1 ELSE c2]

(* Workers are interchangeable: no property names one. *)
WorkerSymmetry == Permutations(Workers)
=============================================================================
