SPECIFICATION FairSpec
CONSTANTS
    Api = {"a", "b"}
    CommandSize = 1
    SubscriberSize = 1
    Client = {"c"}
    UnreachableMarks = 1
    StopCalls = 2
INVARIANTS
    TypeOK
    ListFollows
    AnswersListed
PROPERTIES
    LockReleased
    StopHeard
    EveryPeerServed
CHECK_DEADLOCK FALSE
