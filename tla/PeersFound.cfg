SPECIFICATION Spec
CONSTANTS
    Host = {"h1", "h2"}
    Name = {}
    HostsOf <- NoLookups
    RequestSize = 1
    ResponseSize = 1
    LookupMaxRetries = 1
    Api = {"a1", "a2", "a3"}
    Answers <- StableAnswers
    Requests <- OneRequest
    Mentioned = {"h1"}
    Seeds = {"h2"}
    LocalHosts = {}
    AllowLocalIP = FALSE
    PeerMaxRetries = 1
    CommandSize = 1
    SubscriberSize = 1
    StatusSize = 1
    Tickers = {"status", "list", "announce"}
    MayStop = FALSE
    AskLimit = 1
INVARIANTS
    TypeOK
PROPERTIES
    ImplementsFeed
CHECK_DEADLOCK FALSE
