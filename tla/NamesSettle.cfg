SPECIFICATION FairSpec
CONSTANTS
    Host = {"h1"}
    Name = {"n", "m"}
    HostsOf <- TwoLookups
    RequestSize = 1
    ResponseSize = 1
    LookupMaxRetries = 1
    Api = {"a1"}
    Answers <- FullAnswer
    Requests = {}
    Mentioned = {"h1", "m"}
    Seeds = {"n"}
    LocalHosts = {}
    AllowLocalIP = FALSE
    PeerMaxRetries = 1
    CommandSize = 1
    SubscriberSize = 1
    StatusSize = 1
    Tickers = {"status", "list"}
    MayStop = TRUE
    AskLimit = 1
PROPERTIES
    NamesSettled
CHECK_DEADLOCK FALSE
