CONSTANTS
    Channels = {c1, c2}
    MaxMessages = 2
SPECIFICATION FairSpec
INVARIANTS
    TypeOK
    WorkCounted
    ErrorExitJoins
    NoMissedEvent
PROPERTIES
    GrantedServed
    MainReturns
