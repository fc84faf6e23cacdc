\* One tab, every hook kind, with failures, late answers and another tab.
SPECIFICATION Spec
CONSTANTS
    Ann = Ann
    Bob = Bob
    Shop = Shop
    NoAddr = NoAddr
    NoSession = NoSession
    Garbled = Garbled
    Loading = Loading
    Missing = Missing
    Errored = Errored
    Waiting = Waiting
    Account <- MCAccount
    Addr <- MCAddr
    Envs <- MCEnvs
    Publishing <- MCPublishing
    MaxVersion = 2
    MaxInFlight = 2
    MaxTimers = 2
INVARIANTS
    ClientTypeOK
    DecodersMatchStructs
    ReloadRestoresSession
    SignedInLeavesLogin
    NobodyElsesData
    ScanNeverStuck
PROPERTIES
    LateAnswersDropped
    EventuallyCurrent
CHECK_DEADLOCK FALSE
