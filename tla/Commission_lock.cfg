SPECIFICATION FairCommissionSpec
CONSTANTS
    merchant = merchant
    alice = alice
    bob = bob
    carol = carol
    vault = vault
    treasury = treasury
    pool = pool
    none = none
    NoOwner = none
    Merchant = merchant
    Pools = {pool}
    Vaults = {vault}
    Day = 2
    Genesis = 4
    MaxU64 = 15
    BufferSize = 1
    Owner <- TradingOwner
    Wallet <- SlotsWallet
    Treasury = none
    Minted <- TradingMinted
    Configs <- LoopConfigs
    ReferrerSlots = 2
    Amounts = {1, 2}
    MaxTime = 4
    Bps = {7500}
    Lifetimes = {0}
    Contested = {}
    DisputeWindow = 1
    Suspicions = {}
CONSTRAINTS OneWay OpenedFirst
PROPERTIES
    ImplementsLock
    LockFreezesRedemption
    RedemptionReopens
INVARIANTS
    RedemptionGoesThrough
    ChargedWithinAttribution
