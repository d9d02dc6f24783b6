SPECIFICATION FairSpec
CONSTANTS
    Host = {"h1", "h2"}
    Name = {"n"}
    HostsOf <- Lookups
    RequestSize = 1
    ResponseSize = 1
    LookupMaxRetries = 1
    Api = {"a1", "a2"}
    Answers <- OneAnswer
    Requests <- FromStranger
    Mentioned = {"h2"}
    Seeds = {"n"}
    LocalHosts = {}
    AllowLocalIP = FALSE
    PeerMaxRetries = 1
    CommandSize = 1
    SubscriberSize = 1
    StatusSize = 1
    Tickers = {"status"}
    MayStop = TRUE
    AskLimit = 1
PROPERTIES
    CommandsTaken
    ShutdownEnds
    DeadPeerLeaves
CHECK_DEADLOCK FALSE
