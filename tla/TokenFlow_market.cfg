SPECIFICATION Spec
CONSTANTS
    merchant = merchant
    alice = alice
    bob = bob
    vault = vault
    pool = pool
    treasury = treasury
    none = none
    NoOwner = none
    Merchant = merchant
    ReferrerSlots = 1
    Owner <- MarketOwner
    Wallet <- Customers
    Treasury = treasury
    Pools = {pool}
    Vaults = {vault}
    Minted <- MarketMinted
    Configs <- OnceConfigs
    BufferSize = 1
    Amounts = {1, 2}
    Genesis = 5
    MaxTime = 5
    MaxU64 = 7
    Day = 2
CONSTRAINTS NoReturns OpenedFirst Matched
SYMMETRY Symmetry
INVARIANTS
    TrackedCoversBalance
PROPERTIES
    SpendingOrder
    LockFreezesRedemption
