SPECIFICATION Spec
CONSTANTS
    Event <- MCEvent
    Feed <- MCFeed
    Chains <- MCChains
    NoTx = "none"
    MAX_NODES = 3
    CAUSAL_WINDOW = 2
    SLOW = 1
    CRITICAL = 5
    MaxFetches = 1
    Timeouts = {750, 2000}
    Latencies = {0, 200}
    Throttles = {0, 90}
    Values = {"default", "a", "bad"}
    DEFAULTS = "default"
    Refused = {"bad"}
    MaxRequests = 2
    MaxRestarts = 1
    fallbackPages <- MCFallback
    Docs <- MCDocs
    Home <- MCHome
    About <- MCAbout
    Compare <- MCCompare
    Queries = {"", "re", "replay", "zzz"}
    NoQuery = ""
    Match <- MCMatch
    Listed = 3
    Sessions <- MCSessions
INVARIANTS GraphConsistent RequestedIsLive ReplayConsistent CopiesAgree
PROPERTIES ChainLoads SearchReady
