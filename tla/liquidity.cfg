SPECIFICATION MCSpec
CONSTANTS
    alice = alice
    bob = bob
    carol = carol
    s1 = s1
    s2 = s2
    Accounts = {alice, bob, carol}
    Shards = {s1, s2}
    ShardOf <- MCShardOf
    Creator = alice
    Updaters = {alice}
    Dynamic = FALSE
    OldQuantity <- NothingOld
    Slots = {1, 2}
    NoMessage = NoMessage
    NoEntry = NoEntry
    Values = {0, 1, 2}
    MaxSupply = 3
    Managed = {alice, carol}
INVARIANTS LiquidityMatches HeldTokensHaveMetaData QuantitiesHold
PROPERTIES UpdatesSurvive BookSpec
