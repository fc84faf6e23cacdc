\* Requests through the relayer, with losses, node failures and restarts.
SPECIFICATION Spec
CONSTANTS
    Phone = Phone
    Laptop = Laptop
    Cafe = Cafe
    Bakery = Bakery
    Till = Till
    NoTx = NoTx
    Junk = Junk
    NoKey = NoKey
    Unreadable = Unreadable
    Ip <- MCIp
    Request <- MCRequest
    Mint <- MCMint
    Bond <- MCBond
    PCT = 10
    U64Max = 127
    Scenario <- MCScenario
    RATE_LIMIT_WINDOW = 2
    RATE_LIMIT_MAX = 2
    MaxTime = 3
    SESSION_DURATION = 1
    MaxKeys = 2
    CLOSE_WINDOW = 1
    HealthTimeout = 1
INVARIANTS
    RelayTypeOK
    LimitHolds
    MemoryMatchesStorage
    SuccessWasBroadcast
    RevertedOnlyIfOvertaken
    BondsHoldUntilAClose
PROPERTIES
    SlidesTheWindow
    EveryRequestResolves
    HealthDecides
CHECK_DEADLOCK FALSE
