SPECIFICATION FairSpec
CONSTANTS
    alice = alice
    bob = bob
    carol = carol
    dan = dan
    s1 = s1
    s2 = s2
    Accounts = {alice, bob, carol, dan}
    Shards = {s1, s2}
    ShardOf <- MCShardOf
    LastByte <- MCLastByte
    MultiShard = FALSE
    FirstOwner = alice
    Block = 4
    MaxNonce = 18
    MaxCreates = 4
    NoCommand = NoCommand
    NoMessage = NoMessage
PROPERTIES BookSpec NamedCreatorGetsRole
CHECK_DEADLOCK FALSE
