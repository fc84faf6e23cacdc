SPECIFICATION CommissionSpec
CONSTANTS
    merchant = merchant
    alice = alice
    bob = bob
    carol = carol
    vault = vault
    treasury = treasury
    pool = pool
    none = none
    NoOwner = none
    Merchant = merchant
    Pools = {}
    Vaults = {vault}
    Day = 2
    Genesis = 4
    MaxU64 = 15
    BufferSize = 1
    Owner <- SlotsOwner
    Wallet <- SlotsWallet
    Treasury = none
    Minted <- ContestedMinted
    Configs <- LoopConfigs
    ReferrerSlots = 1
    Amounts = {1}
    MaxTime = 7
    Bps = {5000}
    Lifetimes = {0}
    Contested = {1}
    DisputeWindow = 1
    Suspicions = {}
CONSTRAINT OneSource
INVARIANTS
    PendingDisputeFreezes
