SPECIFICATION Spec
CONSTANTS
    merchant = merchant
    alice = alice
    bob = bob
    vault = vault
    pool = pool
    treasury = treasury
    none = none
    NoOwner = none
    Merchant = merchant
    ReferrerSlots = 1
    Owner <- SharingOwner
    Wallet <- Customers
    Treasury = none
    Pools = {}
    Vaults = {}
    Minted <- DepthMinted
    Configs <- DepthConfigs
    BufferSize = 1
    Amounts = {1, 2}
    Genesis = 4
    MaxTime = 4
    MaxU64 = 7
    Day = 2
PROPERTIES
    NoGen2Passed
