SPECIFICATION Spec
CONSTANTS
    Rooms = {"general", "lobby"}
    General = "general"
    Second = 2
    MaxCount = 3
    Typed <- MCTyped
    Start = 2
    Before = 4
    MaxClock = 7
    MaxSent = 7
    MaxTyped = 2
CHECK_DEADLOCK FALSE
INVARIANTS
    TypeOK
    SlidingBound
PROPERTIES
    SlowSpacing
    RefusedOnlyWhenBusy
