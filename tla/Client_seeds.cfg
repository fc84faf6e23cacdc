\* Does the app find a configuration that is on chain?
SPECIFICATION Spec
CONSTANTS
    Ann = Ann
    Bob = Bob
    Shop = Shop
    NoAddr = NoAddr
    NoSession = NoSession
    Garbled = Garbled
    Loading = Loading
    Missing = Missing
    Errored = Errored
    Waiting = Waiting
    Account <- MCAccount
    Addr <- MCAddr
    Envs <- MCEnvs
    Publishing <- MCPublishing
    MaxVersion = 2
    MaxInFlight = 2
    MaxTimers = 2
PROPERTY
    ConfigurationFound
CHECK_DEADLOCK FALSE
