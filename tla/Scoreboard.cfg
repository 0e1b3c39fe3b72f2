SPECIFICATION BoardSpec
CONSTANT MaxQueue = 2
INVARIANTS
    NoGhost
    SaverYields
    StripYields
    TimerFollowsEncoder
    GraphicsAreServed
PROPERTY TimerEnds
