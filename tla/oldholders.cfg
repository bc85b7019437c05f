SPECIFICATION PlainSpec
CONSTANTS
    alice = alice
    bob = bob
    carol = carol
    s1 = s1
    s2 = s2
    Accounts = {alice, bob, carol}
    Shards = {s1, s2}
    ShardOf <- MCShardOf
    Creator = alice
    Updaters = {}
    Dynamic = FALSE
    OldQuantity <- OldUnits
    Slots = {1, 2}
    NoMessage = NoMessage
    NoEntry = NoEntry
    Values = {1, 2}
    MaxSupply = 3
    Managed = {}
PROPERTIES OldUnitsNotCounted
CHECK_DEADLOCK FALSE
