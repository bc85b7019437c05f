SPECIFICATION MCSpec
CONSTANTS
    alice = alice
    bob = bob
    vault = vault
    s1 = s1
    s2 = s2
    Accounts = {alice, bob, vault}
    ESDTSC = ESDTSC
    Shards = {s1, s2}
    ShardOf <- MCShardOf
    Contracts = {vault}
    NonPayable = {vault}
    Slots = {1, 2}
    NoMessage = NoMessage
    Values = {1, 2}
    MaxSupply = 2
    MaxRoleCopies = 2
    MaxTransferAddresses = 1
    InitRoles <- AllRoles
    InitSettings = {}
    Toggled = {"Paused", "LimitedTransfer", "BurnRoleForAll"}
    Managed = {bob, vault}
    Screened = {alice, vault}
    DRWAEnforcement = TRUE
    GlobalMintBurn = TRUE
INVARIANTS AmountsHold
PROPERTIES LockedHoldingsKept BookSpec LimitedMovesAuthorised DeniedReceiverOnlyMints RefundsRefusedOnlyByGate
