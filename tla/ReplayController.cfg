SPECIFICATION Spec
CONSTANTS
    MaxPlays = 3
    MaxFiles = 3
INVARIANTS
    OnePlayer
    IdleIsClean
    BlackScreenReturns
PROPERTIES
    ImplementsSurface
    SlateLeadsOn
