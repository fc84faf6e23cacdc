SPECIFICATION CommissionSpec
CONSTANTS
    merchant = merchant
    alice = alice
    bob = bob
    carol = carol
    vault = vault
    treasury = treasury
    pool = pool
    none = none
    NoOwner = none
    Merchant = merchant
    Pools = {}
    Vaults = {vault}
    Day = 2
    Genesis = 4
    MaxU64 = 15
    BufferSize = 1
    Owner <- SmallOwner
    Wallet <- LoopWallet
    Treasury = none
    Minted <- SmallMinted
    Configs <- LoopConfigs
    ReferrerSlots = 1
    Amounts = {1, 2}
    MaxTime = 6
    Bps = {5000}
    Lifetimes = {1}
    Contested = {1}
    DisputeWindow = 1
    Suspicions = {}
INVARIANTS
    OwedRecordStaysOpen
