SPECIFICATION MCSpec
CONSTANTS
    Leaves = {a, b, c}
    NoLeaf = NoLeaf
    Modulus = 32
    TrieLoadPerNode = 2
    TrieStorePerNode = 5
    GasLimits <- Affordable
    Users = {"alice", "bob"}
    Contracts = {"cNear", "cFar"}
    MaxCalls = 2
    Keys = {"k1", "k2", "kProtocol"}
    KeyLength <- KeyLengths
    Protected = {"kProtocol"}
    Lengths = {0, 1, 3}
    Marks = {0, 1}
    SaveKeyValue = 2
    PersistPerByte = 1
    StorePerByte = 2
    StorageGasLimits = {5, 10, 16}
    MaxItems = 2
    MaxPaid = 24
    FixGasRemaining = TRUE
    Names = {"n1", "n2"}
    NoName = "NoName"
    OldDns = {"oldA", "bothB"}
    NewDns = {"newA", "bothB"}
    Shards = {"east", "west"}
    Home <- Homes
    NameCost = 3
    NameGasLimits = {2, 3, 5}
    Near = {"alice", "cNear"}
    Nobody = "Nobody"
    OwnerCost = 2
    OwnerGasLimits = {1, 3, 5}
    ThroughSC = TRUE
    MaxRewards = 2
    Self = "alice"
    OtherBits = {"reserved"}
    NoGuardian = "NoGuardian"
    MaxOutput = 3
    MaxIndex = 7
INVARIANTS GasHolds StorageIsPaid ChargedOnce RewardsConserved GuardingHolds CarriedInOrder
PROPERTIES AmpleGasMoves ClaimsArePaid
CHECK_DEADLOCK FALSE
