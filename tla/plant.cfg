SPECIFICATION PlantFairSpec
CONSTANTS
    Markers = {2, 3}
    Ids = {i1, i2}
    Held = {2}
    MaxMail = 2
    None = None
INVARIANTS
    Exclusive
    IdleIsAtRest
    AnsweredOnce
PROPERTIES
    ImplementsMagnet
    CommandsAreServed
CHECK_DEADLOCK FALSE
