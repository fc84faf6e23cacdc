SPECIFICATION Spec
CONSTANTS
    merchant = merchant
    alice = alice
    bob = bob
    vault = vault
    pool = pool
    treasury = treasury
    none = none
    NoOwner = none
    Merchant = merchant
    ReferrerSlots = 1
    Owner <- SharingOwner
    Wallet <- Customers
    Treasury = none
    Pools = {}
    Vaults = {}
    Minted <- SharingMinted
    Configs <- AllConfigs
    BufferSize = 2
    Amounts = {1, 2}
    Genesis = 4
    MaxTime = 6
    MaxU64 = 7
    Day = 2
CONSTRAINT NoReturns
SYMMETRY Symmetry
INVARIANTS
    DailyShareLimit
    TypeOK
    TrackedCoversBalance
    BufferWindow
    RecipientNeverBlocks
PROPERTIES
    NoAttributionLost
