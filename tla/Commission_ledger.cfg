SPECIFICATION CommissionSpec
CONSTANTS
    merchant = merchant
    alice = alice
    bob = bob
    carol = carol
    vault = vault
    treasury = treasury
    pool = pool
    none = none
    NoOwner = none
    Merchant = merchant
    Pools = {}
    Vaults = {vault}
    Day = 2
    Genesis = 4
    MaxU64 = 15
    BufferSize = 1
    Owner <- LoopOwner
    Wallet <- LoopWallet
    Treasury = treasury
    Minted <- LoopMinted
    Configs <- FeeConfigs
    ReferrerSlots = 1
    Amounts = {1, 2, 3, 4}
    MaxTime = 6
    Bps = {5000, 10000}
    Lifetimes = {1}
    Contested = {1}
    DisputeWindow = 1
    Suspicions = {1000}
CONSTRAINTS OneWay OpenedFirst RateByFee IssuedFirst
ACTION_CONSTRAINT NoBurns

INVARIANTS
    CommissionTypeOK
    LedgerBalanced
    NoFractionLost
    RecordsWithinLedger
    TimeoutsCostReputation
PROPERTIES
    ClaimsPayAsEarned
