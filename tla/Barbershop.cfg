SPECIFICATION FairSpec
CONSTANTS
    visitors = 3
    barbers = 2
    chairs = 2
    NULL = NULL
INVARIANTS
    TypeOK
    OneHaircut
    SemaphoresAccount
    RingIsSound
    NothingToComplain
    CustomerStays
    NoUseAfterFree
PROPERTIES
    ImplementsWaitingRoom
    SeatedAreServed
    DayEnds
