SPECIFICATION Spec
CONSTANTS
    Host = {"h1"}
    Name = {}
    HostsOf <- NoLookups
    RequestSize = 1
    ResponseSize = 1
    LookupMaxRetries = 1
    Api = {"a1"}
    Answers <- SwitchingAnswers
    Requests <- OneRequest
    Mentioned = {"h1"}
    Seeds = {}
    LocalHosts = {}
    AllowLocalIP = FALSE
    PeerMaxRetries = 1
    CommandSize = 1
    SubscriberSize = 1
    StatusSize = 1
    Tickers = {"status", "list", "announce"}
    MayStop = FALSE
    AskLimit = 1
PROPERTIES
    UpdatesTellAvailable
CHECK_DEADLOCK FALSE
