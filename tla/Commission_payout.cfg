SPECIFICATION CommissionSpec
CONSTANTS
    merchant = merchant
    alice = alice
    bob = bob
    carol = carol
    vault = vault
    treasury = treasury
    pool = pool
    none = none
    NoOwner = none
    Merchant = merchant
    Pools = {}
    Vaults = {vault}
    Day = 2
    Genesis = 4
    MaxU64 = 15
    BufferSize = 1
    Owner <- LoopOwner
    Wallet <- LoopWallet
    Treasury = treasury
    Minted <- LoopMinted
    Configs <- DearConfigs
    ReferrerSlots = 1
    Amounts = {1, 2, 3, 4}
    MaxTime = 4
    Bps = {10000}
    Lifetimes = {0}
    Contested = {}
    DisputeWindow = 1
    Suspicions = {}
CONSTRAINTS OneWay OpenedFirst
ACTION_CONSTRAINT NoBurns
PROPERTIES
    ClaimsPayExactly
