--------------------------- MODULE Functions_proofs ---------------------------
(***************************************************************************)
(* What is proved of the functions that share no state with one another:   *)
(* first the account functions (AccountFunctions), for any accounts,       *)
(* contracts, leaves, keys, shards, costs and gas, and for any number of   *)
(* calls, then the token functions (TokenFunctions), for any accounts,     *)
(* tokens, amounts, length of a batch, lists and nonces.  Each function is *)
(* proved where it runs among the others of its kind (AccountSpec,         *)
(* TokenSpec).                                                             *)
(***************************************************************************)
EXTENDS AccountFunctions, TokenFunctions, Amounts_proofs, FiniteSetTheorems, FunctionTheorems,
        SequenceTheorems, TLAPS

USE MigrationAssumption

-----------------------------------------------------------------------------
(* The migration of a trie *)

(* A subtraction of what is there does not wrap.                              *)
LEMMA MinusPlain ==
  ASSUME NEW x \in 0..(Modulus - 1), NEW y \in Nat, y <= x
  PROVE  Minus(x, y) = x - y /\ Minus(x, y) \in 0..(Modulus - 1)
  <1>1. x - y \in 0..(Modulus - 1) OBVIOUS
  <1> QED BY <1>1 DEF Minus

(* The types, with the leaves of the call counted.                            *)
THEOREM TypeCorrect == Spec => []TypeOK
  <1>1. ASSUME Init PROVE TypeOK
    <2>1. walking \in BOOLEAN /\ goOn \in BOOLEAN BY <1>1, Zenon DEF Init
    <2>2. version \in [Leaves -> Versions] BY <1>1 DEF Init
    <2>3. provided \in 0..(Modulus - 1) /\ gasRemaining \in 0..(Modulus - 1) /\ loads \in Nat
      BY <1>1 DEF Init
    <2>4. queued \in SUBSET visited /\ visited \in SUBSET Leaves
          /\ leaf \in visited \cup {NoLeaf} /\ leaf \notin queued
      BY <1>1 DEF Init
    <2> QED BY <2>1, <2>2, <2>3, <2>4 DEF TypeOK
  <1>2. TypeOK /\ [Next]_vars => TypeOK'
    <2> SUFFICES ASSUME TypeOK, [Next]_vars PROVE TypeOK' OBVIOUS
    <2> USE DEF TypeOK
    <2>1. ASSUME NEW g \in GasLimits, Call(g) PROVE TypeOK'
      BY <2>1 DEF Call
    <2>2. ASSUME NEW l \in Leaves, ConsumeStorageLoadGas(l) PROVE TypeOK'
      <3>1. gasRemaining' \in 0..(Modulus - 1) /\ loads' \in Nat
        <4>1. CASE gasRemaining < TrieLoadPerNode BY <2>2, <4>1 DEF ConsumeStorageLoadGas
        <4>2. CASE ~(gasRemaining < TrieLoadPerNode)
          <5>1. Minus(gasRemaining, TrieLoadPerNode) \in 0..(Modulus - 1)
            BY <4>2, MinusPlain
          <5> QED BY <2>2, <4>2, <5>1 DEF ConsumeStorageLoadGas
        <4> QED BY <4>1, <4>2
      <3>2. goOn' \in BOOLEAN
        <4>1. (gasRemaining' > TrieLoadPerNode) \in BOOLEAN BY <3>1
        <4> QED BY <2>2, <4>1, Zenon DEF ConsumeStorageLoadGas
      <3>3. leaf' \in visited' \cup {NoLeaf} /\ leaf' \notin queued'
        BY <2>2 DEF ConsumeStorageLoadGas
      <3> QED BY <2>2, <3>1, <3>2, <3>3 DEF ConsumeStorageLoadGas
    <2>3. CASE AddLeafToMigrationQueue
      <3>1. gasRemaining' \in 0..(Modulus - 1)
        BY <2>3, MinusPlain DEF AddLeafToMigrationQueue
      <3>2. queued' \in SUBSET visited' /\ leaf' \notin queued'
        BY <2>3 DEF AddLeafToMigrationQueue
      <3>3. goOn' \in BOOLEAN
        <4>1. (gasRemaining' > TrieStorePerNode) \in BOOLEAN BY <3>1
        <4> QED BY <2>3, <4>1, Zenon DEF AddLeafToMigrationQueue
      <3> QED BY <2>3, <3>1, <3>2, <3>3 DEF AddLeafToMigrationQueue
    <2>4. CASE Return BY <2>4 DEF Return, Versions
    <2>5. CASE UNCHANGED vars BY <2>5 DEF vars
    <2> QED BY <2>1, <2>2, <2>3, <2>4, <2>5 DEF Next
  <1> QED BY <1>1, <1>2, PTL DEF Spec

-----------------------------------------------------------------------------
(* Gas of one more load or store.                                             *)
LEMMA OneMore ==
  ASSUME NEW cost \in Nat, NEW n \in Nat
  PROVE  cost * (n + 1) = cost * n + cost /\ cost * n \in Nat
  BY SMT

LEMMA QueueFinite ==
  ASSUME TypeOK
  PROVE  IsFiniteSet(queued) /\ IsFiniteSet(visited)
         /\ Cardinality(queued) \in Nat /\ Cardinality(visited) \in Nat
  BY FS_Subset, FS_CardinalityType DEF TypeOK

LEMMA GasStep ==
  ASSUME TypeOK, GasIsPaid, [Next]_vars
  PROVE  GasIsPaid'
  <1> USE QueueFinite
  <1>1. ASSUME NEW g \in GasLimits, Call(g) PROVE GasIsPaid'
    <2>1. Cardinality(queued') = 0 BY <1>1, FS_EmptySet DEF Call
    <2> QED BY <1>1, <2>1 DEF Call, GasIsPaid
  <1>2. ASSUME NEW l \in Leaves, ConsumeStorageLoadGas(l) PROVE GasIsPaid'
    <2>1. CASE gasRemaining < TrieLoadPerNode
      BY <1>2, <2>1 DEF ConsumeStorageLoadGas, GasIsPaid
    <2>2. CASE ~(gasRemaining < TrieLoadPerNode)
      <3>1. gasRemaining' = gasRemaining - TrieLoadPerNode /\ loads' = loads + 1
        BY <1>2, <2>2, MinusPlain DEF ConsumeStorageLoadGas, TypeOK
      <3>2. TrieLoadPerNode * (loads + 1) = TrieLoadPerNode * loads + TrieLoadPerNode
            /\ TrieLoadPerNode * loads \in Nat
        BY OneMore DEF TypeOK
      <3>3. TrieStorePerNode * Cardinality(queued) \in Nat BY OneMore
      <3>4. queued' = queued /\ provided' = provided BY <1>2 DEF ConsumeStorageLoadGas
      <3> QED BY <3>1, <3>2, <3>3, <3>4 DEF GasIsPaid, TypeOK
    <2> QED BY <2>1, <2>2
  <1>3. CASE AddLeafToMigrationQueue
    <2>1. CASE gasRemaining < TrieStorePerNode \/ version[leaf] # "NotSpecified"
      BY <1>3, <2>1 DEF AddLeafToMigrationQueue, GasIsPaid
    <2>2. CASE ~(gasRemaining < TrieStorePerNode) /\ version[leaf] = "NotSpecified"
      <3>1. gasRemaining' = gasRemaining - TrieStorePerNode /\ queued' = queued \cup {leaf}
        BY <1>3, <2>2, MinusPlain DEF AddLeafToMigrationQueue, TypeOK
      <3>2. Cardinality(queued') = Cardinality(queued) + 1
        BY <3>1, FS_AddElement DEF TypeOK
      <3>3. TrieStorePerNode * (Cardinality(queued) + 1)
              = TrieStorePerNode * Cardinality(queued) + TrieStorePerNode
            /\ TrieStorePerNode * Cardinality(queued) \in Nat
        BY OneMore
      <3>4. TrieLoadPerNode * loads \in Nat BY OneMore DEF TypeOK
      <3>5. loads' = loads /\ provided' = provided BY <1>3 DEF AddLeafToMigrationQueue
      <3> QED BY <3>1, <3>2, <3>3, <3>4, <3>5 DEF GasIsPaid, TypeOK
    <2> QED BY <2>1, <2>2
  <1>4. CASE Return BY <1>4 DEF Return, GasIsPaid
  <1>5. CASE UNCHANGED vars BY <1>5 DEF vars, GasIsPaid
  <1> QED BY <1>1, <1>2, <1>3, <1>4, <1>5 DEF Next

(* Loads and moved leaves are paid once each, and nothing wraps.              *)
THEOREM GasIsPaidAlways == Spec => []GasIsPaid
  <1>1. Init => GasIsPaid BY FS_EmptySet DEF Init, GasIsPaid
  <1>2. TypeOK /\ GasIsPaid /\ [Next]_vars => GasIsPaid' BY GasStep
  <1> QED BY <1>1, <1>2, TypeCorrect, PTL DEF Spec

(* Only leaves of the old version are queued, and so paid for.                *)
THEOREM PaidOnceAlways == Spec => PaidOnce
  <1>1. TypeOK /\ [Next]_vars
          => [\A l \in queued' \ queued : version[l] = "NotSpecified"]_vars
    BY DEF Next, Call, ConsumeStorageLoadGas, AddLeafToMigrationQueue, Return
  <1> QED BY <1>1, TypeCorrect, PTL DEF Spec, PaidOnce

-----------------------------------------------------------------------------
(* What is queued is old until the call returns.                              *)
QueueIsOld == walking => \A l \in queued : version[l] = "NotSpecified"

LEMMA QueueIsOldStep ==
  ASSUME QueueIsOld, [Next]_vars
  PROVE  QueueIsOld'
  BY DEF QueueIsOld, Next, Call, ConsumeStorageLoadGas, AddLeafToMigrationQueue, Return, vars

(* A call with ample gas that has queued nothing goes on to the last leaf, has*)
(* paid one load for each leaf it came to, and met moved leaves only.         *)
StillSearching ==
  walking /\ Ample /\ queued = {} =>
    /\ goOn \/ visited = Leaves
    /\ loads = Cardinality(visited)
    /\ \A l \in visited \ {leaf} : version[l] # "NotSpecified"

(* What ample gas leaves after any number of loads up to that of the leaves.  *)
LEMMA RestIsThere ==
  ASSUME Ample, provided \in Nat, NEW n \in Nat, n <= Cardinality(Leaves)
  PROVE  /\ provided - TrieLoadPerNode * n > TrieLoadPerNode
         /\ provided - TrieLoadPerNode * n >= TrieStorePerNode
  <1> DEFINE c == Cardinality(Leaves)
  <1>1. c \in Nat BY FS_CardinalityType
  <1>2. c - n \in Nat BY <1>1
  <1>3. TrieLoadPerNode * c = TrieLoadPerNode * n + TrieLoadPerNode * (c - n)
    <2> HIDE DEF c
    <2> QED BY <1>1, <1>2, SMT
  <1>4. TrieLoadPerNode * (c - n) \in Nat /\ TrieLoadPerNode * n \in Nat /\ TrieLoadPerNode * c \in Nat
    <2> HIDE DEF c
    <2> QED BY <1>1, <1>2, OneMore
  <1>5. provided - TrieLoadPerNode * c > TrieLoadPerNode /\ provided - TrieLoadPerNode * c >= TrieStorePerNode
    BY DEF Ample
  <1> HIDE DEF c
  <1> QED BY <1>3, <1>4, <1>5

LEMMA SearchStep ==
  ASSUME TypeOK, GasIsPaid, GasIsPaid', StillSearching, [Next]_vars
  PROVE  StillSearching'
  <1> USE QueueFinite
  <1>0. Cardinality(Leaves) \in Nat BY FS_CardinalityType
  <1>1. ASSUME NEW g \in GasLimits, Call(g) PROVE StillSearching'
    BY <1>1, FS_EmptySet DEF Call, StillSearching
  <1>2. ASSUME NEW l \in Leaves, ConsumeStorageLoadGas(l) PROVE StillSearching'
    <2> SUFFICES ASSUME Ample, queued = {}
                 PROVE  /\ goOn' \/ visited' = Leaves
                        /\ loads' = Cardinality(visited')
                        /\ \A k \in visited' \ {leaf'} : version'[k] # "NotSpecified"
      BY <1>2 DEF ConsumeStorageLoadGas, StillSearching, Ample
    <2>1. loads = Cardinality(visited)
      BY <1>2 DEF ConsumeStorageLoadGas, StillSearching
    <2>2. Cardinality(visited') = Cardinality(visited) + 1
      BY <1>2, FS_AddElement DEF ConsumeStorageLoadGas
    <2>3. IsFiniteSet(visited') /\ Cardinality(visited') <= Cardinality(Leaves)
      BY <1>2, FS_Subset DEF ConsumeStorageLoadGas, TypeOK
    <2>4. Cardinality(queued) = 0 BY FS_EmptySet
    <2>5. gasRemaining = provided - TrieLoadPerNode * loads
      <3>1. TrieLoadPerNode * loads \in Nat BY OneMore DEF TypeOK
      <3>2. TrieStorePerNode * Cardinality(queued) = 0 BY <2>4
      <3> QED BY <3>1, <3>2 DEF GasIsPaid, TypeOK
    <2>6. /\ provided - TrieLoadPerNode * loads > TrieLoadPerNode
          /\ provided - TrieLoadPerNode * (loads + 1) > TrieLoadPerNode
      BY <1>0, <2>1, <2>2, <2>3, RestIsThere DEF TypeOK
    <2>7. gasRemaining' = gasRemaining - TrieLoadPerNode /\ loads' = loads + 1
          /\ goOn' = (gasRemaining' > TrieLoadPerNode)
      <3>1. ~(gasRemaining < TrieLoadPerNode) BY <2>5, <2>6 DEF TypeOK
      <3> QED BY <1>2, <3>1, MinusPlain DEF ConsumeStorageLoadGas, TypeOK
    <2>8. gasRemaining' = provided - TrieLoadPerNode * (loads + 1)
      <3>1. TrieLoadPerNode * (loads + 1) = TrieLoadPerNode * loads + TrieLoadPerNode
            /\ TrieLoadPerNode * loads \in Nat
        BY OneMore DEF TypeOK
      <3> QED BY <3>1, <2>5, <2>7 DEF TypeOK
    <2>9. goOn' BY <2>6, <2>7, <2>8
    <2>10. \A k \in visited' \ {leaf'} : version'[k] # "NotSpecified"
      <3>1. leaf = NoLeaf /\ leaf' = l /\ visited' = visited \cup {l} /\ version' = version /\ walking
        BY <1>2, <2>9 DEF ConsumeStorageLoadGas
      <3>2. \A k \in visited \ {leaf} : version[k] # "NotSpecified"
        BY <3>1 DEF StillSearching
      <3>3. NoLeaf \notin visited BY DEF TypeOK
      <3> QED BY <3>1, <3>2, <3>3
    <2> QED BY <2>1, <2>2, <2>7, <2>9, <2>10
  <1>3. CASE AddLeafToMigrationQueue
    <2> SUFFICES ASSUME walking, Ample, queued' = {}
                 PROVE  /\ goOn' \/ visited' = Leaves
                        /\ loads' = Cardinality(visited')
                        /\ \A k \in visited' \ {leaf'} : version'[k] # "NotSpecified"
      BY <1>3 DEF AddLeafToMigrationQueue, StillSearching, Ample
    <2>1. queued = {} /\ (gasRemaining < TrieStorePerNode \/ version[leaf] # "NotSpecified")
      BY <1>3 DEF AddLeafToMigrationQueue
    <2>2. loads = Cardinality(visited) /\ \A k \in visited \ {leaf} : version[k] # "NotSpecified"
      BY <2>1 DEF StillSearching
    <2>3. Cardinality(queued) = 0 BY <2>1, FS_EmptySet
    <2>4. gasRemaining = provided - TrieLoadPerNode * loads
      <3>1. TrieLoadPerNode * loads \in Nat BY OneMore DEF TypeOK
      <3>2. TrieStorePerNode * Cardinality(queued) = 0 BY <2>3
      <3> QED BY <3>1, <3>2 DEF GasIsPaid, TypeOK
    <2>5. Cardinality(visited) <= Cardinality(Leaves)
      BY FS_Subset DEF TypeOK
    <2>6. gasRemaining >= TrieStorePerNode
      BY <1>0, <2>2, <2>4, <2>5, RestIsThere DEF TypeOK
    <2>7. version[leaf] # "NotSpecified" BY <2>1, <2>6 DEF TypeOK
    <2>9. goOn' \/ visited = Leaves
      <3> SUFFICES ASSUME visited # Leaves PROVE goOn' OBVIOUS
      <3>1. Cardinality(visited) < Cardinality(Leaves)
        BY <1>0, <2>5, FS_Subset DEF TypeOK
      <3>2. provided - TrieLoadPerNode * (loads + 1) >= TrieStorePerNode
        BY <1>0, <2>2, <3>1, RestIsThere DEF TypeOK
      <3>3. TrieLoadPerNode * (loads + 1) = TrieLoadPerNode * loads + TrieLoadPerNode
            /\ TrieLoadPerNode * loads \in Nat
        BY OneMore DEF TypeOK
      <3>4. gasRemaining > TrieStorePerNode BY <2>4, <3>2, <3>3 DEF TypeOK
      <3>5. ~(gasRemaining < TrieStorePerNode) BY <2>6 DEF TypeOK
      <3>6. gasRemaining' = gasRemaining
        BY <1>3, <2>7, <3>5 DEF AddLeafToMigrationQueue
      <3>7. goOn' = (gasRemaining' > TrieStorePerNode)
        BY <1>3, <3>5, Zenon DEF AddLeafToMigrationQueue
      <3> QED BY <3>4, <3>6, <3>7
    <2>8. visited' = visited /\ loads' = loads /\ version' = version
      BY <1>3 DEF AddLeafToMigrationQueue
    <2> QED BY <2>2, <2>7, <2>8, <2>9
  <1>4. CASE Return BY <1>4 DEF Return, StillSearching
  <1>5. CASE UNCHANGED vars BY <1>5 DEF vars, StillSearching, Ample
  <1> QED BY <1>1, <1>2, <1>3, <1>4, <1>5 DEF Next

(* Ample gas moves a leaf, whatever the trie looks like and in whatever order *)
(* it is walked.                                                              *)
THEOREM AmpleGasMovesAlways == Spec => AmpleGasMoves
  <1>1. Init => StillSearching /\ QueueIsOld BY DEF Init, StillSearching, QueueIsOld
  <1>2. TypeOK /\ GasIsPaid /\ GasIsPaid' /\ StillSearching /\ [Next]_vars => StillSearching'
    BY SearchStep
  <1>3. QueueIsOld /\ [Next]_vars => QueueIsOld' BY QueueIsOldStep
  <1>4. TypeOK /\ StillSearching /\ QueueIsOld /\ [Next]_vars
          => [walking /\ ~walking' /\ Ample /\ OldLeaves # {} => OldLeaves' # OldLeaves]_vars
    <2> SUFFICES ASSUME TypeOK, StillSearching, QueueIsOld, Next, walking, ~walking', Ample,
                        OldLeaves # {},
                        OldLeaves' = OldLeaves
                 PROVE  FALSE
      OBVIOUS
    <2>1. Return
      BY DEF Next, Call, ConsumeStorageLoadGas, AddLeafToMigrationQueue
    <2>2. queued = {}
      <3>1. ASSUME NEW l \in queued PROVE FALSE
        <4>1. l \in Leaves /\ version'[l] = "AutoBalanceEnabled" BY <2>1 DEF Return, TypeOK
        <4>2. l \in OldLeaves BY <4>1 DEF QueueIsOld, OldLeaves
        <4> QED BY <4>1, <4>2 DEF OldLeaves
      <3> QED BY <3>1
    <2> QED BY <2>1, <2>2 DEF Return, StillSearching, OldLeaves, TypeOK
  <1> QED BY <1>1, <1>2, <1>3, <1>4, TypeCorrect, GasIsPaidAlways, PTL DEF Spec, AmpleGasMoves

(* The gas of a migration is in its range and accounted for, in every reachable state. *)
THEOREM GasAlwaysHolds == Spec => []GasHolds
<1>1. TypeOK /\ GasIsPaid => GasHolds
  BY DEF GasHolds
<1> QED BY <1>1, TypeCorrect, GasIsPaidAlways, PTL

(* Among the other functions the trie is migrated as it is by itself, so that all that
   is proved of its own behaviours holds of those of the accounts. *)
LEMMA TrieMigratesAlone == AccountSpec => Spec
<1>1. AccountInit => Init
  BY DEF AccountInit
<1>2. [AccountNext]_accountVars => [Next]_vars
  BY DEF AccountNext, accountVars, MigrationStep, StorageStep, NamingStep, OwnershipStep,
         GuardingStep, OutputStep, trie
<1> QED BY <1>1, <1>2, PTL DEF AccountSpec, Spec

HIDE MigrationAssumption
USE FunctionAssumptions

-----------------------------------------------------------------------------
(* The composition *)

(* What one function does leaves the others alone: a step is, for each of them, one of
   its own or none. *)
LEMMA StepsOfEach ==
  ASSUME [AccountNext]_accountVars
  PROVE  /\ [Storage!Next]_stored /\ [Naming!Next]_named /\ [Ownership!Next]_owned
         /\ [Guarding!Next]_guarded /\ [Outputs!Next]_outputs
BY DEF AccountNext, accountVars, MigrationStep, StorageStep, NamingStep, OwnershipStep,
       GuardingStep, OutputStep

-----------------------------------------------------------------------------
(* Guardians *)

LEMMA GuardingInit == Guarding!Init => GuardingHolds
BY DEF Guarding!Init, GuardingHolds, Guarding!TypeOK, Guarding!GuardedHasGuardian,
       Guarding!OtherMetadataKept, Guarding!KnownBits, Guarding!GuardianAssumption

LEMMA GuardingKept == GuardingHolds /\ [Guarding!Next]_guarded => GuardingHolds'
<1> SUFFICES ASSUME GuardingHolds, [Guarding!Next]_guarded PROVE GuardingHolds'
  OBVIOUS
<1> USE DEF GuardingHolds, Guarding!TypeOK, Guarding!GuardedHasGuardian,
            Guarding!OtherMetadataKept, Guarding!GuardianAssumption
<1>1. ASSUME NEW g \in Users \cup Contracts, NEW signed \in BOOLEAN, Guarding!SetGuardian(g, signed)
      PROVE  GuardingHolds'
  BY <1>1 DEF Guarding!SetGuardian, Guarding!MayBeGuardian
<1>2. CASE Guarding!Activate
  BY <1>2 DEF Guarding!Activate
<1>3. CASE Guarding!GuardAccount
  BY <1>3 DEF Guarding!GuardAccount, Guarding!HasActiveGuardian, Guarding!Bits, Guarding!KnownBits
<1>4. CASE Guarding!UnGuardAccount
  BY <1>4 DEF Guarding!UnGuardAccount, Guarding!Bits
<1>5. CASE UNCHANGED guarded
  BY <1>5 DEF guarded
<1> QED BY <1>1, <1>2, <1>3, <1>4, <1>5 DEF Guarding!Next

(* A guarded account has an active guardian, whatever guardians are set, activated and
   used, and no other bit of the code metadata is changed. *)
THEOREM GuardingAlwaysHolds == AccountSpec => []GuardingHolds
<1>1. AccountInit => GuardingHolds
  BY GuardingInit DEF AccountInit
<1>2. GuardingHolds /\ [AccountNext]_accountVars => GuardingHolds'
  BY GuardingKept, StepsOfEach
<1> QED BY <1>1, <1>2, PTL DEF AccountSpec

-----------------------------------------------------------------------------
(* Names *)

(* A call on its way was let through by the shard of its DNS contract: an old contract
   has left its charge to the other shard, a new one has paid. *)
NamingInv ==
  /\ Naming!TypeOK /\ Naming!ChargedOnce
  /\ \A c \in nameCalls : c.provided >= NameCost
  /\ \A c \in nameCalls : c.dns \in OldDns \ NewDns => c.gas = c.provided
  /\ \A c \in nameCalls : c.dns \in NewDns \ OldDns => c.gas = c.provided - NameCost

LEMMA ExactCharge ==
  ASSUME NEW x \in 0..(Modulus - 1), x >= NameCost
  PROVE  Naming!Minus(x, NameCost) = x - NameCost /\ x - NameCost \in 0..(Modulus - 1)
<1>1. Modulus \in Nat /\ NameCost \in 1..(Modulus - 1)
  BY DEF Naming!UserNameAssumption
<1>2. x - NameCost \in 0..(Modulus - 1)
  BY <1>1
<1> QED BY <1>1, <1>2 DEF Naming!Minus

LEMMA ChargeWraps == ASSUME NEW x \in 0..(Modulus - 1) PROVE Naming!Minus(x, NameCost) \in 0..(Modulus - 1)
<1>1. Modulus \in Nat \ {0} /\ NameCost \in 1..(Modulus - 1)
  BY DEF Naming!UserNameAssumption
<1>2. x - NameCost \in Int
  BY <1>1
<1> DEFINE d == x - NameCost
<1>3. d % Modulus \in 0..(Modulus - 1)
  <2> HIDE DEF d
  <2> QED BY <1>1, <1>2 DEF d
<1> QED BY <1>3 DEF Naming!Minus

LEMMA NamingInit == Naming!Init => NamingInv
<1> SUFFICES ASSUME Naming!Init PROVE NamingInv
  OBVIOUS
<1>1. Modulus \in Nat /\ NameCost \in 1..(Modulus - 1)
  BY DEF Naming!UserNameAssumption
<1> QED BY <1>1 DEF Naming!Init, NamingInv, Naming!TypeOK, Naming!ChargedOnce

LEMMA NamingExecuted ==
  ASSUME NamingInv, NEW c \in Naming!Call, Naming!Execute(c),
         c.provided >= NameCost,
         \/ Home[c.dns] = Home[c.user] /\ c.gas = c.provided
         \/ Home[c.dns] # Home[c.user] /\ c \in nameCalls
  PROVE  /\ name' \in [Users -> Names \cup {NoName}]
         /\ lastNaming' \in [dns : Naming!Dns, provided : 0..(Modulus - 1), returned : 0..(Modulus - 1)]
         /\ Naming!ChargedOnce'
<1> DEFINE s == Home[c.user]
           taken == Home[c.dns] = s \/ s \notin changed
<1>1. name' \in [Users -> Names \cup {NoName}]
  BY DEF Naming!Execute, Naming!Call, NamingInv, Naming!TypeOK
<1>2. c.gas \in 0..(Modulus - 1) /\ c.provided \in 0..(Modulus - 1) /\ c.dns \in Naming!Dns
      /\ Modulus \in Nat /\ NameCost \in 1..(Modulus - 1)
  BY DEF Naming!Call, Naming!UserNameAssumption
<1>3. c.dns \in IF s \in changed THEN NewDns ELSE OldDns
  BY DEF Naming!Execute, Naming!InputCheck
<1>4. CASE taken
  <2>1. c.dns \notin OldDns \cap NewDns => c.gas = c.provided
    BY <1>3, <1>4 DEF NamingInv
  <2>2. lastNaming' = [dns |-> c.dns, provided |-> c.provided, returned |-> Naming!Minus(c.gas, NameCost)]
    BY <1>4 DEF Naming!Execute
  <2>3. c.dns \notin OldDns \cap NewDns => Naming!Minus(c.gas, NameCost) = c.provided - NameCost
    BY <1>2, <2>1, ExactCharge
  <2> QED BY <1>1, <1>2, <2>2, <2>3, ChargeWraps DEF Naming!ChargedOnce
<1>5. CASE ~taken
  <2>1. c.dns \notin OldDns \cap NewDns => c.gas = c.provided - NameCost
    BY <1>3, <1>5 DEF NamingInv
  <2>2. lastNaming' = [dns |-> c.dns, provided |-> c.provided, returned |-> c.gas]
    BY <1>5 DEF Naming!Execute
  <2> QED BY <1>1, <1>2, <2>1, <2>2 DEF Naming!ChargedOnce
<1> QED BY <1>4, <1>5

LEMMA NamingKept == NamingInv /\ [Naming!Next]_named => NamingInv'
<1> SUFFICES ASSUME NamingInv, [Naming!Next]_named PROVE NamingInv'
  OBVIOUS
<1>a. Modulus \in Nat /\ NameCost \in 1..(Modulus - 1) /\ NameGasLimits \subseteq 0..(Modulus - 1)
  BY DEF Naming!UserNameAssumption
<1>b. Naming!Asked \subseteq Naming!Call /\ \A c \in Naming!Asked : c.gas = c.provided
  BY <1>a DEF Naming!Asked, Naming!Call
<1>1. ASSUME NEW s \in Shards, Naming!EnableChangeUsername(s) PROVE NamingInv'
  BY <1>1 DEF Naming!EnableChangeUsername, NamingInv, Naming!TypeOK, Naming!ChargedOnce
<1>2. ASSUME NEW c \in Naming!Asked, Naming!Send(c) PROVE NamingInv'
  <2> DEFINE s == Home[c.dns]
             sent == [c EXCEPT !.gas = IF s \in changed THEN Naming!Minus(c.gas, NameCost) ELSE c.gas]
  <2>1. c \in Naming!Call /\ c.gas = c.provided /\ c.gas \in 0..(Modulus - 1)
    BY <1>b DEF Naming!Call
  <2>2. c.gas >= NameCost /\ c.dns \in (IF s \in changed THEN NewDns ELSE OldDns)
        /\ s # Home[c.user]
    BY <1>2 DEF Naming!Send, Naming!InputCheck
  <2>3. /\ Naming!Minus(c.gas, NameCost) = c.provided - NameCost
        /\ c.provided - NameCost \in 0..(Modulus - 1)
    BY <2>1, <2>2, ExactCharge
  <2>4. /\ sent \in Naming!Call /\ sent.dns = c.dns /\ sent.user = c.user
        /\ sent.provided = c.provided
        /\ sent.gas = IF s \in changed THEN c.provided - NameCost ELSE c.provided
    BY <2>1, <2>3 DEF Naming!Call
  <2>5. nameCalls' = nameCalls \cup {sent} /\ UNCHANGED <<name, changed, lastNaming>>
    BY <1>2 DEF Naming!Send
  <2> HIDE DEF sent
  <2>6. Naming!TypeOK' /\ Naming!ChargedOnce'
    BY <2>2, <2>4, <2>5 DEF NamingInv, Naming!TypeOK, Naming!ChargedOnce
  <2> QED BY <1>a, <2>1, <2>2, <2>4, <2>5, <2>6 DEF NamingInv
<1>3. ASSUME NEW c \in Naming!Asked, Naming!CallHere(c) PROVE NamingInv'
  <2>1. /\ c \in Naming!Call /\ c.gas = c.provided /\ Home[c.dns] = Home[c.user]
        /\ c.gas >= NameCost
    BY <1>3, <1>b DEF Naming!CallHere, Naming!Execute, Naming!InputCheck
  <2>2. Naming!Execute(c) /\ UNCHANGED <<changed, nameCalls>>
    BY <1>3 DEF Naming!CallHere, Naming!Execute
  <2> QED BY <2>1, <2>2, NamingExecuted DEF NamingInv, Naming!TypeOK
<1>4. ASSUME NEW c \in nameCalls, Naming!Arrive(c) PROVE NamingInv'
  <2>1. c \in Naming!Call /\ Home[c.dns] # Home[c.user] /\ c.provided >= NameCost
    BY DEF NamingInv, Naming!TypeOK
  <2>2. Naming!Execute(c) /\ nameCalls' = nameCalls \ {c} /\ UNCHANGED changed
    BY <1>4 DEF Naming!Arrive, Naming!Execute
  <2> QED BY <2>1, <2>2, NamingExecuted DEF NamingInv, Naming!TypeOK
<1>5. ASSUME NEW c \in nameCalls, Naming!Refuse(c) PROVE NamingInv'
  BY <1>5 DEF Naming!Refuse, NamingInv, Naming!TypeOK, Naming!ChargedOnce
<1>6. CASE UNCHANGED named
  BY <1>6 DEF named, NamingInv, Naming!TypeOK, Naming!ChargedOnce
<1> QED BY <1>1, <1>2, <1>3, <1>4, <1>5, <1>6 DEF Naming!Next

-----------------------------------------------------------------------------
(* Owners *)

LEMMA OwnersTotal == ASSUME NEW f PROVE Ownership!Total(f) = Total(f)
BY DEF Ownership!Total, Total, Ownership!Units, Units, Ownership!Cardinality, Cardinality

LEMMA OwnersConstants ==
  /\ IsFiniteSet(Users \cup Contracts) /\ Users \cap Contracts = {}
  /\ Near \subseteq Users \cup Contracts /\ Nobody \notin Users \cup Contracts
  /\ OwnerCost \in Nat \ {0} /\ OwnerGasLimits \subseteq Nat
  /\ MaxRewards \in Nat /\ MaxCalls \in Nat
BY DEF Ownership!OwnerAssumption, Ownership!Owners, Ownership!IsFiniteSet, IsFiniteSet

(* The types, without the bounds that conservation gives. *)
OwnersType ==
  /\ owner \in Users \cup Contracts
  /\ developerReward \in Nat /\ earned \in 0..MaxRewards
  /\ balance \in [Users \cup Contracts -> Nat] /\ payments \in [Users \cup Contracts -> Nat]
  /\ ownerCalls \subseteq Ownership!Call
  /\ lastCall \in [caller : Users \cup Contracts, async : BOOLEAN, provided : Nat, returned : Nat]

RewardsHeld == earned = developerReward + Total(balance) + Total(payments)

(* The first half of a call of a user has given back all but the cost, if the call
   brought that much, and the call itself still has all its gas. *)
CallsCharged ==
  \A c \in ownerCalls :
    /\ c.caller \notin Near
    /\ c.caller \in Users => c.gas = c.provided /\ ~c.async
    /\ c.caller \in Users => c.returned = IF c.gas >= OwnerCost THEN c.gas - OwnerCost ELSE 0

OwnershipInv == OwnersType /\ RewardsHeld /\ CallsCharged /\ Ownership!ChargedOnce

LEMMA OwnershipInit == Ownership!Init => OwnershipInv
<1> SUFFICES ASSUME Ownership!Init PROVE OwnershipInv
  OBVIOUS
<1>1. OwnersType /\ CallsCharged /\ Ownership!ChargedOnce
  BY OwnersConstants DEF Ownership!Init, Ownership!Owners, OwnersType, CallsCharged, Ownership!ChargedOnce
<1>2. balance = [o \in Users \cup Contracts |-> 0] /\ payments = [o \in Users \cup Contracts |-> 0]
  BY DEF Ownership!Init, Ownership!Owners
<1>3. Total(balance) = 0 /\ Total(payments) = 0
  BY <1>2, TotalZero
<1>4. RewardsHeld
  BY <1>3 DEF Ownership!Init, RewardsHeld
<1> QED BY <1>1, <1>4 DEF OwnershipInv

(* A reward that moves, from the contract or on its way, is counted once before and after. *)
LEMMA TotalsType ==
  ASSUME OwnersType
  PROVE  Total(balance) \in Nat /\ Total(payments) \in Nat
BY OwnersConstants, TotalType DEF OwnersType

LEMMA Credited ==
  ASSUME NEW f \in [Users \cup Contracts -> Nat], NEW o \in Users \cup Contracts, NEW v \in Nat
  PROVE  /\ [f EXCEPT ![o] = @ + v] \in [Users \cup Contracts -> Nat]
         /\ Total([f EXCEPT ![o] = @ + v]) = Total(f) + v
<1> DEFINE g == [f EXCEPT ![o] = @ + v]
<1>1. g \in [Users \cup Contracts -> Nat] /\ g[o] = f[o] + v /\ f[o] \in Nat
  OBVIOUS
<1>2. \A y \in Users \cup Contracts : y # o => g[y] = f[y]
  OBVIOUS
<1> HIDE DEF g
<1>3. Total(g) = Total(f) - f[o] + g[o]
  BY <1>1, <1>2, OwnersConstants, TotalChange
<1>4. Total(f) \in Nat /\ Total(g) \in Nat
  BY <1>1, OwnersConstants, TotalType
<1>5. Total(g) = Total(f) + v
  BY <1>1, <1>3, <1>4
<1> QED BY <1>1, <1>5 DEF g

LEMMA Emptied ==
  ASSUME NEW f \in [Users \cup Contracts -> Nat], NEW o \in Users \cup Contracts
  PROVE  /\ [f EXCEPT ![o] = 0] \in [Users \cup Contracts -> Nat]
         /\ Total([f EXCEPT ![o] = 0]) = Total(f) - f[o]
<1> DEFINE g == [f EXCEPT ![o] = 0]
<1>1. g \in [Users \cup Contracts -> Nat] /\ g[o] = 0 /\ f[o] \in Nat
  OBVIOUS
<1>2. Total(f) = Total(g) + f[o] /\ Total(f) \in Nat /\ Total(g) \in Nat
  BY <1>1, OwnersConstants, TotalSplit, TotalType
<1> QED BY <1>1, <1>2

(* A call that acts, near the caller or with the first half behind it. *)
LEMMA ActKeeps ==
  ASSUME OwnershipInv, NEW c \in Ownership!Call, NEW here \in BOOLEAN, Ownership!Act(c, here),
         here => c.caller \in Near /\ c.returned = 0 /\ c.gas = c.provided,
         ~here => c \in ownerCalls, ownerCalls' \subseteq ownerCalls
  PROVE  OwnershipInv'
<1>o. OwnersType /\ RewardsHeld /\ CallsCharged
  BY DEF OwnershipInv
<1>c. /\ c.caller \in Users \cup Contracts /\ c.newOwner \in Users \cup Contracts \cup {Nobody}
      /\ c.gas \in Nat /\ c.provided \in Nat /\ c.returned \in Nat /\ c.async \in BOOLEAN
      /\ OwnerCost \in Nat
  BY OwnersConstants DEF Ownership!Call, Ownership!Owners
<1>a. Ownership!MayAct(c) /\ Ownership!Answered(c, here)
  BY DEF Ownership!Act, Ownership!ChangeOwnerAddress, Ownership!ClaimDeveloperRewards
<1>b. c.gas >= OwnerCost /\ c.caller = owner
  BY <1>a DEF Ownership!MayAct
<1>1. lastCall' \in [caller : Users \cup Contracts, async : BOOLEAN, provided : Nat, returned : Nat]
      /\ Ownership!ChargedOnce'
  <2> DEFINE back == Ownership!GasRemaining(here /\ ~c.async, c.gas)
  <2>1. lastCall' = [caller |-> c.caller, async |-> c.async, provided |-> c.provided,
                     returned |-> c.returned + back]
    BY <1>a DEF Ownership!Answered
  <2>2. back = (IF here /\ ~c.async THEN c.gas - OwnerCost ELSE 0) /\ back \in Nat
    BY <1>b, <1>c DEF Ownership!GasRemaining
  <2> HIDE DEF back
  <2>3. lastCall' \in [caller : Users \cup Contracts, async : BOOLEAN, provided : Nat, returned : Nat]
    BY <1>c, <2>1, <2>2
  <2>4. /\ lastCall'.caller = c.caller /\ lastCall'.async = c.async
        /\ lastCall'.provided = c.provided /\ lastCall'.returned = c.returned + back
    BY <2>1
  <2>5. ASSUME c.caller \in Users \cup Near
        PROVE  c.returned + back = IF c.async THEN 0 ELSE c.provided - OwnerCost
    <3>1. CASE here
      BY <1>c, <2>2, <3>1
    <3>2. CASE ~here
      <4>1. c.caller \in Users /\ c.returned = c.provided - OwnerCost /\ ~c.async
        BY <1>b, <1>o, <2>5, <3>2 DEF CallsCharged
      <4> QED BY <1>c, <2>2, <3>2, <4>1
    <3> QED BY <3>1, <3>2
  <2> QED BY <2>3, <2>4, <2>5 DEF Ownership!ChargedOnce
<1>2. CallsCharged' /\ ownerCalls' \subseteq Ownership!Call
  BY <1>o DEF CallsCharged, OwnersType
<1>3. CASE Ownership!ChangeOwnerAddress(c, here)
  <2>1. /\ owner' \in Users \cup Contracts
        /\ UNCHANGED <<developerReward, earned, balance, payments>>
    BY <1>3, <1>c DEF Ownership!ChangeOwnerAddress
  <2>2. OwnersType'
    BY <1>o, <1>1, <1>2, <2>1 DEF OwnersType
  <2>3. RewardsHeld'
    BY <1>o, <2>1 DEF RewardsHeld
  <2> QED BY <1>1, <1>2, <2>2, <2>3 DEF OwnershipInv
<1>4. CASE Ownership!ClaimDeveloperRewards(c, here)
  <2>1. developerReward' = 0 /\ UNCHANGED <<owner, earned>> /\ developerReward \in Nat
    BY <1>4, <1>o DEF Ownership!ClaimDeveloperRewards, OwnersType
  <2>2. \/ /\ balance' = [balance EXCEPT ![c.caller] = @ + developerReward]
           /\ payments' = payments
        \/ /\ payments' = [payments EXCEPT ![c.caller] = @ + developerReward]
           /\ balance' = balance
    BY <1>4 DEF Ownership!ClaimDeveloperRewards
  <2>3. balance \in [Users \cup Contracts -> Nat] /\ payments \in [Users \cup Contracts -> Nat]
    BY <1>o DEF OwnersType
  <2>4. /\ balance' \in [Users \cup Contracts -> Nat] /\ payments' \in [Users \cup Contracts -> Nat]
        /\ Total(balance') + Total(payments') = Total(balance) + Total(payments) + developerReward
    <3>1. CASE balance' = [balance EXCEPT ![c.caller] = @ + developerReward] /\ payments' = payments
      <4>1. balance' \in [Users \cup Contracts -> Nat]
            /\ Total(balance') = Total(balance) + developerReward
        BY <1>c, <2>1, <2>3, <3>1, Credited
      <4> QED BY <1>o, <2>1, <2>3, <3>1, <4>1, TotalsType
    <3>2. CASE payments' = [payments EXCEPT ![c.caller] = @ + developerReward] /\ balance' = balance
      <4>1. payments' \in [Users \cup Contracts -> Nat]
            /\ Total(payments') = Total(payments) + developerReward
        BY <1>c, <2>1, <2>3, <3>2, Credited
      <4> QED BY <1>o, <2>1, <2>3, <3>2, <4>1, TotalsType
    <3> QED BY <2>2, <3>1, <3>2
  <2>5. OwnersType'
    BY <1>o, <1>1, <1>2, <2>1, <2>4 DEF OwnersType
  <2>6. RewardsHeld'
    <3>1. Total(balance') \in Nat /\ Total(payments') \in Nat
          /\ Total(balance) \in Nat /\ Total(payments) \in Nat
      BY <2>3, <2>4, OwnersConstants, TotalType
    <3> QED BY <1>o, <2>1, <2>4, <3>1 DEF RewardsHeld
  <2> QED BY <1>1, <1>2, <2>5, <2>6 DEF OwnershipInv
<1> QED BY <1>3, <1>4 DEF Ownership!Act

LEMMA OwnershipKept == OwnershipInv /\ [Ownership!Next]_owned => OwnershipInv'
<1> SUFFICES ASSUME OwnershipInv, [Ownership!Next]_owned PROVE OwnershipInv'
  OBVIOUS
<1>o. OwnersType /\ RewardsHeld /\ CallsCharged /\ Ownership!ChargedOnce
  BY DEF OwnershipInv
<1>t. Total(balance) \in Nat /\ Total(payments) \in Nat
  BY <1>o, TotalsType
<1>1. CASE Ownership!AddToDeveloperReward
  <2>1. /\ developerReward' = developerReward + 1 /\ earned' = earned + 1 /\ earned < MaxRewards
        /\ UNCHANGED <<owner, balance, payments, ownerCalls, lastCall>>
    BY <1>1 DEF Ownership!AddToDeveloperReward
  <2>2. OwnersType' /\ RewardsHeld'
    BY <1>o, <1>t, <2>1, OwnersConstants DEF OwnersType, RewardsHeld
  <2> QED BY <1>o, <2>1, <2>2 DEF OwnershipInv, CallsCharged, Ownership!ChargedOnce
<1>2. ASSUME NEW c \in Ownership!Asked
      PROVE  /\ c \in Ownership!Call /\ c.gas = c.provided /\ c.returned = 0
             /\ c.caller \in Users => ~c.async
  <2>1. /\ c \in [caller : Ownership!Owners, newOwner : Ownership!Owners \cup {Nobody},
                 async : BOOLEAN, gas : OwnerGasLimits, provided : OwnerGasLimits, returned : {0}]
        /\ c.gas = c.provided /\ (c.async => c.caller \in Contracts)
    BY DEF Ownership!Asked
  <2>2. /\ c.caller \in Ownership!Owners /\ c.newOwner \in Ownership!Owners \cup {Nobody}
        /\ c.gas \in Nat /\ c.provided \in Nat /\ c.returned = 0 /\ c.async \in BOOLEAN
        /\ c.caller \in Users => ~c.async
    BY <2>1, OwnersConstants
  <2>3. c = [caller |-> c.caller, newOwner |-> c.newOwner, async |-> c.async, gas |-> c.gas,
             provided |-> c.provided, returned |-> c.returned]
    BY <2>1
  <2> QED BY <2>1, <2>2, <2>3 DEF Ownership!Call
<1>3. ASSUME NEW c \in Ownership!Asked, Ownership!Send(c) PROVE OwnershipInv'
  <2>1. /\ c \in Ownership!Call /\ c.gas = c.provided /\ c.gas \in Nat /\ c.caller \notin Near
        /\ c.caller \in Users => ~c.async
    BY <1>2, <1>3 DEF Ownership!Call, Ownership!Send
  <2> DEFINE rest == Ownership!GasRemaining(TRUE, c.gas)
  <2>2. rest = (IF c.gas >= OwnerCost THEN c.gas - OwnerCost ELSE 0) /\ rest \in Nat
    BY <2>1, OwnersConstants DEF Ownership!GasRemaining
  <2>3. PICK sent \in Ownership!Call :
          /\ ownerCalls' = ownerCalls \cup {sent} /\ sent.caller \notin Near
          /\ sent.caller \in Users =>
               /\ sent.gas = sent.provided /\ sent.returned = rest /\ sent.gas = c.gas
               /\ ~sent.async
    <3>1. CASE Ownership!SendAsUser(c)
      <4> DEFINE sent == [c EXCEPT !.returned = rest]
      <4>1. ownerCalls' = ownerCalls \cup {sent}
        BY <3>1 DEF Ownership!SendAsUser
      <4>2. sent \in Ownership!Call /\ sent.caller = c.caller /\ sent.gas = c.gas
            /\ sent.provided = c.provided /\ sent.returned = rest /\ sent.async = c.async
        BY <2>1, <2>2 DEF Ownership!Call
      <4> HIDE DEF sent, rest
      <4> QED BY <2>1, <4>1, <4>2
    <3>2. CASE Ownership!SendAsContract(c)
      <4> DEFINE sent == [c EXCEPT !.gas = rest]
      <4>1. ownerCalls' = ownerCalls \cup {sent} /\ c.caller \notin Users
        BY <3>2, OwnersConstants DEF Ownership!SendAsContract
      <4>2. sent \in Ownership!Call /\ sent.caller = c.caller
        BY <2>1, <2>2 DEF Ownership!Call
      <4> HIDE DEF sent, rest
      <4> QED BY <2>1, <4>1, <4>2
    <3> QED BY <1>3, <3>1, <3>2 DEF Ownership!Send
  <2>4. UNCHANGED <<owner, developerReward, earned, balance, payments, lastCall>>
    BY <1>3 DEF Ownership!Send
  <2> HIDE DEF rest
  <2>5. OwnersType' /\ RewardsHeld'
    BY <1>o, <2>3, <2>4 DEF OwnersType, RewardsHeld
  <2>6. CallsCharged'
    BY <1>o, <2>2, <2>3 DEF CallsCharged
  <2> QED BY <1>o, <2>4, <2>5, <2>6 DEF OwnershipInv, Ownership!ChargedOnce
<1>4. ASSUME NEW c \in Ownership!Asked, Ownership!CallHere(c) PROVE OwnershipInv'
  <2>1. Ownership!Act(c, TRUE) /\ c.caller \in Near /\ ownerCalls' = ownerCalls
    BY <1>4 DEF Ownership!CallHere
  <2> QED BY <1>2, <2>1, ActKeeps
<1>5. ASSUME NEW c \in ownerCalls, Ownership!Arrive(c) PROVE OwnershipInv'
  <2>1. c \in Ownership!Call /\ ownerCalls' = ownerCalls \ {c}
    BY <1>5, <1>o DEF Ownership!Arrive, OwnersType
  <2>2. CASE Ownership!Act(c, FALSE)
    BY <2>1, <2>2, ActKeeps
  <2>3. CASE UNCHANGED <<owner, developerReward, earned, balance, payments, lastCall>>
    BY <1>o, <2>1, <2>3 DEF OwnershipInv, OwnersType, RewardsHeld, CallsCharged, Ownership!ChargedOnce
  <2> QED BY <1>5, <2>2, <2>3 DEF Ownership!Arrive
<1>6. ASSUME NEW o \in Users \cup Contracts, Ownership!PaymentArrives(o) PROVE OwnershipInv'
  <2>1. /\ balance' = [balance EXCEPT ![o] = @ + payments[o]] /\ payments' = [payments EXCEPT ![o] = 0]
        /\ UNCHANGED <<owner, developerReward, earned, ownerCalls, lastCall>>
    BY <1>6 DEF Ownership!PaymentArrives
  <2>2. balance \in [Users \cup Contracts -> Nat] /\ payments \in [Users \cup Contracts -> Nat]
        /\ payments[o] \in Nat
    BY <1>o DEF OwnersType
  <2>3. /\ balance' \in [Users \cup Contracts -> Nat] /\ payments' \in [Users \cup Contracts -> Nat]
        /\ Total(balance') = Total(balance) + payments[o] /\ Total(payments') = Total(payments) - payments[o]
    <3>1. balance' \in [Users \cup Contracts -> Nat] /\ Total(balance') = Total(balance) + payments[o]
      BY <2>1, <2>2, Credited
    <3>2. payments' \in [Users \cup Contracts -> Nat] /\ Total(payments') = Total(payments) - payments[o]
      BY <2>1, <2>2, Emptied
    <3> QED BY <3>1, <3>2
  <2>4. OwnersType' /\ RewardsHeld'
    BY <1>o, <1>t, <2>1, <2>2, <2>3 DEF OwnersType, RewardsHeld
  <2> QED BY <1>o, <2>1, <2>4 DEF OwnershipInv, CallsCharged, Ownership!ChargedOnce
<1>7. CASE UNCHANGED owned
  BY <1>o, <1>7 DEF owned, OwnershipInv, OwnersType, RewardsHeld, CallsCharged, Ownership!ChargedOnce
<1> QED BY <1>1, <1>3, <1>4, <1>5, <1>6, <1>7 DEF Ownership!Next, Ownership!Owners

(* Conservation keeps every amount within what was earned. *)
LEMMA OwnershipHolds ==
  ASSUME OwnershipInv
  PROVE  Ownership!TypeOK /\ Ownership!ChargedOnce /\ Ownership!RewardsConserved
<1>1. OwnersType /\ RewardsHeld /\ CallsCharged /\ Ownership!ChargedOnce
  BY DEF OwnershipInv
<1>2. Total(balance) \in Nat /\ Total(payments) \in Nat /\ MaxRewards \in Nat
  BY <1>1, TotalsType, OwnersConstants
<1>3. developerReward \in 0..MaxRewards
  BY <1>1, <1>2 DEF OwnersType, RewardsHeld
<1>4. ASSUME NEW o \in Users \cup Contracts
      PROVE  balance[o] \in 0..MaxRewards /\ payments[o] \in 0..MaxRewards
  <2>1. balance[o] <= Total(balance) /\ payments[o] <= Total(payments)
    BY <1>1, OwnersConstants, TotalBounds DEF OwnersType
  <2> QED BY <1>1, <1>2, <2>1 DEF OwnersType, RewardsHeld
<1>5. Ownership!TypeOK
  BY <1>1, <1>3, <1>4 DEF OwnersType, CallsCharged, Ownership!TypeOK, Ownership!Owners
<1>6. Ownership!RewardsConserved
  BY <1>1, OwnersTotal DEF RewardsHeld, Ownership!RewardsConserved
<1> QED BY <1>1, <1>5, <1>6

(* What a contract earned is with it, with an owner it had or on its way to one, once,
   though claims cross changes of the owner. *)
THEOREM RewardsAreConserved == AccountSpec => []RewardsConserved
<1>1. AccountInit => OwnershipInv
  BY OwnershipInit DEF AccountInit
<1>2. OwnershipInv /\ [AccountNext]_accountVars => OwnershipInv'
  BY OwnershipKept, StepsOfEach
<1>3. OwnershipInv => RewardsConserved
  BY OwnershipHolds DEF RewardsConserved
<1> QED BY <1>1, <1>2, <1>3, PTL DEF AccountSpec

(* A call that is executed has paid its cost once, in one of its two shards: a naming,
   whenever the shards turn their flag on, unless its DNS contract is in the map of either
   version; and a change of owner or a claim of a user or of a contract near by, unless it
   is an asynchronous claim, of which nothing comes back. *)
THEOREM AlwaysChargedOnce == AccountSpec => []ChargedOnce
<1>1. AccountInit => NamingInv /\ OwnershipInv
  BY NamingInit, OwnershipInit DEF AccountInit
<1>2. NamingInv /\ OwnershipInv /\ [AccountNext]_accountVars => NamingInv' /\ OwnershipInv'
  BY NamingKept, OwnershipKept, StepsOfEach
<1>3. NamingInv /\ OwnershipInv => ChargedOnce
  BY OwnershipHolds DEF NamingInv, ChargedOnce
<1> QED BY <1>1, <1>2, <1>3, PTL DEF AccountSpec

-----------------------------------------------------------------------------
(* Output transfers *)

(* The index of a transfer is the place in the order of those made. *)
OutputInv ==
  /\ IsFiniteSet(transfers) /\ Cardinality(transfers) <= MaxIndex
  /\ crtIndex = Cardinality(transfers) + 1
  /\ transfers \subseteq [to : Users, index : Nat \ {0}, order : Nat \ {0}]
  /\ \A t \in transfers : t.index = t.order /\ t.order <= Cardinality(transfers)

(* n transfers that follow one another are n transfers. *)
LEMMA InARow ==
  ASSUME NEW n \in Nat, NEW k \in Nat, NEW R, NEW e \in [1..n -> R],
         \A x \in R : \E i \in 1..n : x = e[i],
         \A i \in 1..n : e[i].order = k + i
  PROVE  IsFiniteSet(R) /\ Cardinality(R) = n
<1>1. IsFiniteSet(1..n) /\ Cardinality(1..n) = n
  BY FS_Interval, SMT
<1>2. e \in Surjection(1..n, R)
  BY DEF Surjection
<1>3. ASSUME NEW i \in 1..n, NEW j \in 1..n, e[i] = e[j] PROVE i = j
  <2>1. k + i = k + j
    BY <1>3
  <2> QED BY <2>1
<1>4. e \in Injection(1..n, R)
  <2>1. \A i, j \in 1..n : e[i] = e[j] => i = j
    BY <1>3
  <2> QED BY <2>1, Zenon DEF Injection, IsInjective
<1> QED BY <1>1, <1>2, <1>4, FS_Surjection

LEMMA OutputInit == Outputs!Init => OutputInv
BY FS_EmptySet DEF Outputs!Init, OutputInv, Outputs!IndexAssumption

LEMMA OutputKept == OutputInv /\ [Outputs!Next]_outputs => OutputInv'
<1> SUFFICES ASSUME OutputInv, [Outputs!Next]_outputs PROVE OutputInv'
  OBVIOUS
<1> DEFINE k == Cardinality(transfers)
<1>a. /\ IsFiniteSet(transfers) /\ k \in Nat /\ k <= MaxIndex /\ crtIndex = k + 1
      /\ MaxIndex \in Nat /\ MaxOutput \in Nat
  BY FS_CardinalityType DEF OutputInv, Outputs!IndexAssumption
<1>m. Outputs!Made = k /\ (\A S : Outputs!Cardinality(S) = Cardinality(S))
  BY DEF Outputs!Made, Outputs!Cardinality, Cardinality
<1>1. ASSUME NEW a \in Users, Outputs!OwnTransfer(a) PROVE OutputInv'
  <2> DEFINE t == [to |-> a, index |-> k + 1, order |-> k + 1]
  <2>1. transfers' = transfers \cup {t} /\ crtIndex' = crtIndex + 1 /\ k < MaxIndex
    BY <1>1, <1>a, <1>m DEF Outputs!OwnTransfer
  <2>2. t \in [to : Users, index : Nat \ {0}, order : Nat \ {0}]
        /\ t.index = k + 1 /\ t.order = k + 1
    BY <1>a
  <2> HIDE DEF t
  <2>3. t \notin transfers
    BY <1>a, <2>2 DEF OutputInv
  <2>4. IsFiniteSet(transfers') /\ Cardinality(transfers') = k + 1
    BY <1>a, <2>1, <2>3, FS_AddElement
  <2> HIDE DEF k
  <2>5. \A u \in transfers' : u.index = u.order /\ u.order <= k + 1
    BY <1>a, <2>1, <2>2 DEF OutputInv, k
  <2> QED BY <1>a, <2>1, <2>2, <2>4, <2>5 DEF OutputInv
<1>2. ASSUME NEW n \in 0..MaxOutput, NEW f \in [1..n -> Users],
             Outputs!ReindexTransfers(Outputs!Output(f))
      PROVE  OutputInv'
  <2> DEFINE O == Outputs!Output(f)
             R == {[to |-> f[i], index |-> i + k, order |-> k + i] : i \in 1..n}
  <2>n. n \in Nat
    BY <1>a
  <2>1. O = {[to |-> f[i], index |-> i, order |-> k + i] : i \in 1..n}
    BY <1>m DEF Outputs!Output
  <2>2. Outputs!Reindexed(O) = R
    <3> DEFINE made(i) == [to |-> f[i], index |-> i, order |-> k + i]
               moved(i) == [to |-> f[i], index |-> i + k, order |-> k + i]
               Moved(t) == [t EXCEPT !.index = @ + (crtIndex - 1)]
    <3>1. Outputs!Reindexed(O) = {Moved(t) : t \in O}
      BY DEF Outputs!Reindexed
    <3>2. ASSUME NEW i \in 1..n PROVE Moved(made(i)) = moved(i)
      <4>1. i + (crtIndex - 1) = i + k
        BY <1>a
      <4> QED BY <4>1
    <3>3. O = {made(i) : i \in 1..n} /\ R = {moved(i) : i \in 1..n}
      BY <2>1
    <3> HIDE DEF O, R, made, moved, Moved
    <3> QED BY <3>1, <3>2, <3>3
  <2>3. IsFiniteSet(R) /\ Cardinality(R) = n
    <3> DEFINE e == [i \in 1..n |-> [to |-> f[i], index |-> i + k, order |-> k + i]]
    <3>1. /\ e \in [1..n -> R] /\ \A x \in R : \E i \in 1..n : x = e[i]
          /\ \A i \in 1..n : e[i].order = k + i
      OBVIOUS
    <3> HIDE DEF e, R, k
    <3> QED BY <1>a, <2>n, <3>1, InARow
  <2>4. transfers \cap R = {}
    BY <1>a DEF OutputInv
  <2>5. IsFiniteSet(transfers') /\ Cardinality(transfers') = k + n /\ transfers' = transfers \cup R
    <3>1. transfers' = transfers \cup R
      BY <1>2, <2>2 DEF Outputs!ReindexTransfers
    <3>2. Cardinality(transfers \cap R) = 0
      BY <2>4, FS_EmptySet
    <3> HIDE DEF R, k
    <3>3. k = Cardinality(transfers)
      BY DEF k
    <3>4. IsFiniteSet(transfers \cup R)
          /\ Cardinality(transfers \cup R) = Cardinality(transfers) + Cardinality(R) - Cardinality(transfers \cap R)
      BY <1>a, <2>3, FS_Union
    <3> QED BY <1>a, <2>n, <2>3, <3>1, <3>2, <3>3, <3>4
  <2>6. Outputs!Cardinality(O) = n /\ (O = {} <=> n = 0)
    <3> DEFINE e == [i \in 1..n |-> [to |-> f[i], index |-> i, order |-> k + i]]
    <3>1. /\ e \in [1..n -> O] /\ \A x \in O : \E i \in 1..n : x = e[i]
          /\ \A i \in 1..n : e[i].order = k + i
      BY <2>1
    <3> HIDE DEF e, O, k
    <3>4. IsFiniteSet(O) /\ Cardinality(O) = n
      BY <1>a, <2>n, <3>1, InARow
    <3> QED BY <1>m, <3>4, FS_EmptySet
  <2>7. k + n <= MaxIndex
    BY <1>2, <1>m, <2>6 DEF Outputs!ReindexTransfers
  <2>8. crtIndex' = k + n + 1
    <3>1. CASE n = 0
      BY <1>2, <1>a, <2>6, <3>1 DEF Outputs!ReindexTransfers
    <3>2. CASE n > 0
      <4> DEFINE I == {0} \cup {t.index : t \in R}
      <4>1. \A t \in R : t.index \in Int /\ t.index <= k + n
        BY <1>a, <2>n
      <4>2. I \subseteq Int /\ \A y \in I : k + n >= y
        BY <1>a, <2>n, <4>1
      <4>3. k + n \in I
        <5> DEFINE t == [to |-> f[n], index |-> n + k, order |-> k + n]
        <5>1. t \in R /\ t.index = n + k
          BY <2>n, <3>2
        <5> HIDE DEF t, R
        <5>2. n + k \in I
          BY <5>1
        <5> QED BY <1>a, <2>n, <5>2
      <4>4. Outputs!NextAvailable(R) = 1 + Outputs!Max(I)
        BY DEF Outputs!NextAvailable
      <4> HIDE DEF I, k
      <4>5. \A x \in I : (\A y \in I : x >= y) <=> x = k + n
        BY <1>a, <2>n, <4>2, <4>3
      <4>6. Outputs!Max(I) = k + n
        BY <4>3, <4>5 DEF Outputs!Max
      <4>7. crtIndex' = Outputs!NextAvailable(R)
        <5> HIDE DEF R, O
        <5>1. O # {} /\ Outputs!Reindexed(O) = R /\ Outputs!ReindexTransfers(O)
          BY <1>2, <2>2, <2>6, <3>2 DEF O
        <5> QED BY <5>1 DEF Outputs!ReindexTransfers
      <4> QED BY <1>a, <2>n, <4>4, <4>6, <4>7
    <3> QED BY <2>n, <3>1, <3>2
  <2>9. ASSUME NEW u \in R
        PROVE  /\ u \in [to : Users, index : Nat \ {0}, order : Nat \ {0}]
               /\ u.index = u.order /\ u.order <= k + n
    BY <1>a, <2>n
  <2> HIDE DEF R, O, k
  <2>10. k = Cardinality(transfers)
    BY DEF k
  <2> QED BY <1>a, <2>n, <2>5, <2>7, <2>8, <2>9, <2>10 DEF OutputInv
<1>3. CASE UNCHANGED outputs
  BY <1>3 DEF outputs, OutputInv
<1> QED BY <1>1, <1>2, <1>3 DEF Outputs!Next

(* Transfers are carried out in the order in which they were made, however many come
   from the contract and from the functions it calls. *)
THEOREM AlwaysCarriedInOrder == AccountSpec => []CarriedInOrder
<1>1. AccountInit => OutputInv
  BY OutputInit DEF AccountInit
<1>2. OutputInv /\ [AccountNext]_accountVars => OutputInv'
  BY OutputKept, StepsOfEach
<1>3. OutputInv => CarriedInOrder
  <2> SUFFICES ASSUME OutputInv PROVE CarriedInOrder
    OBVIOUS
  <2>1. Cardinality(transfers) \in Nat /\ MaxIndex \in Nat
    BY FS_CardinalityType DEF OutputInv, Outputs!IndexAssumption
  <2>2. ASSUME NEW t \in transfers
        PROVE  /\ t \in [to : Users, index : 1..MaxIndex, order : 1..MaxIndex]
               /\ t.index = t.order
    BY <2>1 DEF OutputInv
  <2> QED BY <2>1, <2>2 DEF OutputInv, CarriedInOrder, Outputs!TypeOK, Outputs!CarriedInOrder
<1> QED BY <1>1, <1>2, <1>3, PTL DEF AccountSpec

-----------------------------------------------------------------------------
(* Storage *)

(* No call has so many bytes that the sum of its gas reaches 2^64: with what a byte
   costs today it would take more of them than any block can hold. *)
CallsFit ==
  \E bytes \in Nat :
    /\ \A k \in Keys, v \in Storage!Values : v.length + KeyLength[k] <= bytes
    /\ SaveKeyValue + MaxItems * (bytes * (PersistPerByte + StorePerByte)) < Modulus

LEMMA StorageConstants ==
  /\ IsFiniteSet(Keys) /\ KeyLength \in [Keys -> Nat] /\ Protected \subseteq Keys
  /\ Storage!Nothing \in Storage!Values /\ Storage!Nothing.length = 0
  /\ \A v \in Storage!Values : v.length \in Nat
  /\ Modulus \in Nat /\ StorageGasLimits \subseteq 0..(Modulus - 1)
  /\ SaveKeyValue \in Nat /\ PersistPerByte \in Nat /\ StorePerByte \in Nat
  /\ SaveKeyValue < Modulus /\ 0 < Modulus
  /\ MaxItems \in Nat /\ MaxPaid \in Nat /\ FixGasRemaining \in BOOLEAN
<1> USE DEF Storage!KeyValueAssumption
<1>1. IsFiniteSet(Keys)
  BY DEF Storage!IsFiniteSet, IsFiniteSet
<1>2. Storage!Nothing \in Storage!Values /\ Storage!Nothing.length = 0
  BY DEF Storage!Nothing, Storage!Values
<1>3. \A v \in Storage!Values : v.length \in Nat
  BY DEF Storage!Values
<1>4. Modulus \in Nat /\ SaveKeyValue \in 1..(Modulus - 1)
      /\ PersistPerByte \in 1..(Modulus - 1) /\ StorePerByte \in 1..(Modulus - 1)
  OBVIOUS
<1>5. FixGasRemaining \in BOOLEAN
  BY Zenon
<1>6. KeyLength \in [Keys -> Nat] /\ Protected \subseteq Keys
      /\ StorageGasLimits \subseteq 0..(Modulus - 1) /\ MaxItems \in Nat /\ MaxPaid \in Nat
  OBVIOUS
<1> QED BY <1>1, <1>2, <1>3, <1>4, <1>5, <1>6

BytesOf(store) == Total([k \in Keys |-> store[k].length])

LEMMA BytesAre == ASSUME NEW store PROVE Storage!Bytes(store) = BytesOf(store)
BY DEF Storage!Bytes, BytesOf, Storage!Total, Total, Storage!Units, Units,
       Storage!Cardinality, Cardinality

LEMMA BytesType ==
  ASSUME NEW store \in [Keys -> Storage!Values]
  PROVE  BytesOf(store) \in Nat
<1>1. [k \in Keys |-> store[k].length] \in [Keys -> Nat]
  BY StorageConstants
<1> QED BY <1>1, StorageConstants, TotalType DEF BytesOf

LEMMA BytesWritten ==
  ASSUME NEW store \in [Keys -> Storage!Values], NEW k \in Keys, NEW v \in Storage!Values
  PROVE  BytesOf([store EXCEPT ![k] = v]) = BytesOf(store) - store[k].length + v.length
<1> DEFINE f == [j \in Keys |-> store[j].length]
           h == [j \in Keys |-> [store EXCEPT ![k] = v][j].length]
<1>1. f \in [Keys -> Nat] /\ f[k] = store[k].length
  BY StorageConstants
<1>2. h \in [Keys -> Nat] /\ h[k] = v.length /\ \A j \in Keys : j # k => h[j] = f[j]
  BY StorageConstants
<1>3. BytesOf(store) = Total(f) /\ BytesOf([store EXCEPT ![k] = v]) = Total(h)
  BY DEF BytesOf
<1> HIDE DEF f, h
<1> QED BY <1>1, <1>2, <1>3, StorageConstants, TotalChange

(* The gas of a call covers the bytes by which it has grown the storage so far. *)
StorageType ==
  /\ storage \in [Keys -> Storage!Values] /\ working \in [Keys -> Storage!Values]
  /\ \A k \in Protected : storage[k] = Storage!Nothing /\ working[k] = Storage!Nothing
  /\ paid \in 0..MaxPaid /\ items \in 0..MaxItems /\ running \in BOOLEAN
  /\ gas \in 0..(Modulus - 1) /\ limit \in 0..(Modulus - 1) /\ gasBack \in 0..(Modulus - 1)

GrowthPaid ==
  /\ StorePerByte * BytesOf(storage) <= paid
  /\ running => StorePerByte * BytesOf(working) <= paid + gas

LEMMA StorageInit == Storage!Init => StorageType /\ GrowthPaid /\ gasBack <= limit
<1> SUFFICES ASSUME Storage!Init PROVE StorageType /\ GrowthPaid /\ gasBack <= limit
  OBVIOUS
<1>1. storage = [k \in Keys |-> Storage!Nothing] /\ working = storage
      /\ paid = 0 /\ items = 0 /\ gas = 0 /\ limit = 0 /\ gasBack = 0 /\ running = FALSE
  BY DEF Storage!Init
<1>2. [k \in Keys |-> storage[k].length] = [k \in Keys |-> 0]
  BY <1>1, StorageConstants
<1>3. BytesOf(storage) = 0
  BY <1>2, TotalZero DEF BytesOf
<1>4. StorageType
  <2>1. storage \in [Keys -> Storage!Values] /\ working \in [Keys -> Storage!Values]
    BY <1>1, StorageConstants
  <2>2. \A k \in Protected : storage[k] = Storage!Nothing /\ working[k] = Storage!Nothing
    BY <1>1, StorageConstants
  <2>3. running \in BOOLEAN
    BY <1>1
  <2> QED BY <1>1, <2>1, <2>2, <2>3, StorageConstants DEF StorageType
<1>5. StorePerByte * BytesOf(storage) <= paid
  BY <1>1, <1>3, StorageConstants
<1> QED BY <1>1, <1>4, <1>5 DEF GrowthPaid

(* With bytes as bound, the gas of a call grows with its pairs and does not wrap. *)
Fits(bytes) ==
  /\ \A k \in Keys, v \in Storage!Values : v.length + KeyLength[k] <= bytes
  /\ SaveKeyValue + MaxItems * (bytes * (PersistPerByte + StorePerByte)) < Modulus

InStep(bytes) ==
  gas <= SaveKeyValue + items * (bytes * (PersistPerByte + StorePerByte))

LEMMA ItemsMonotone ==
  ASSUME NEW i \in Nat, NEW m \in Nat, NEW x \in Nat, i <= m
  PROVE  i * x <= m * x /\ (i + 1) * x = i * x + x /\ i * x \in Nat /\ m * x \in Nat
OBVIOUS

LEMMA Scaled ==
  ASSUME NEW x \in Nat, NEW y \in Nat, NEW z \in Nat, x <= y
  PROVE  x * z <= y * z /\ x * z \in Nat /\ y * z \in Nat /\ z * x = x * z /\ z * y = y * z
OBVIOUS

(* What one pair adds. *)
LEMMA PairCharged ==
  ASSUME NEW bytes \in Nat, Fits(bytes), StorageType, InStep(bytes), items < MaxItems,
         NEW item \in Storage!Items
  PROVE  LET old == working[item.key]
             long == item.value.length + KeyLength[item.key]
             grown == Storage!Growth(old, item.value)
         IN  /\ Storage!Persisted(item) = gas + long * PersistPerByte
             /\ Storage!Stored(item) = gas + long * PersistPerByte + StorePerByte * grown
             /\ gas + long * PersistPerByte + StorePerByte * grown
                  <= SaveKeyValue + (items + 1) * (bytes * (PersistPerByte + StorePerByte))
             /\ gas + long * PersistPerByte + StorePerByte * grown < Modulus
             /\ long * PersistPerByte \in Nat /\ StorePerByte * grown \in Nat
<1> DEFINE old == working[item.key]
           long == item.value.length + KeyLength[item.key]
           grown == Storage!Growth(old, item.value)
           unit == bytes * (PersistPerByte + StorePerByte)
<1>1. /\ long \in Nat /\ grown \in Nat /\ grown <= long /\ long <= bytes /\ grown <= bytes
  <2>1. item.key \in Keys /\ item.value \in Storage!Values /\ old \in Storage!Values
    BY DEF Storage!Items, StorageType
  <2>2. old.length \in Nat /\ item.value.length \in Nat /\ KeyLength[item.key] \in Nat
    BY <2>1, StorageConstants
  <2>3. item.value.length + KeyLength[item.key] <= bytes
    BY <2>1 DEF Fits
  <2> HIDE DEF old
  <2> QED BY <2>2, <2>3 DEF Storage!Growth
<1>c. /\ PersistPerByte \in Nat /\ StorePerByte \in Nat /\ SaveKeyValue \in Nat /\ Modulus \in Nat
      /\ gas \in Nat /\ items \in Nat /\ MaxItems \in Nat
  BY StorageConstants DEF StorageType
<1> HIDE DEF old, long, grown
<1>2. /\ long * PersistPerByte <= bytes * PersistPerByte
      /\ long * PersistPerByte \in Nat /\ bytes * PersistPerByte \in Nat
  BY <1>1, <1>c, Scaled
<1>3. /\ StorePerByte * grown <= bytes * StorePerByte
      /\ StorePerByte * grown \in Nat /\ bytes * StorePerByte \in Nat
  BY <1>1, <1>c, Scaled
<1>4. unit = bytes * PersistPerByte + bytes * StorePerByte /\ unit \in Nat
  BY <1>c, <1>2, <1>3
<1> HIDE DEF unit
<1>5. /\ items * unit \in Nat /\ (items + 1) * unit = items * unit + unit
      /\ (items + 1) * unit <= MaxItems * unit /\ MaxItems * unit \in Nat
  <2>1. items + 1 <= MaxItems /\ items + 1 \in Nat
    BY <1>c
  <2> QED BY <1>c, <1>4, <2>1, ItemsMonotone
<1>6. gas <= SaveKeyValue + items * unit /\ SaveKeyValue + MaxItems * unit < Modulus
  BY DEF InStep, Fits, unit
<1>7. /\ gas + long * PersistPerByte + StorePerByte * grown <= SaveKeyValue + (items + 1) * unit
      /\ gas + long * PersistPerByte + StorePerByte * grown < Modulus
      /\ gas + long * PersistPerByte + StorePerByte * grown \in Nat
      /\ gas + long * PersistPerByte \in 0..(Modulus - 1)
  BY <1>2, <1>3, <1>4, <1>5, <1>6, <1>c
<1>8. Storage!Persisted(item) = gas + long * PersistPerByte
  BY <1>7, <1>c DEF Storage!Persisted, long
<1>9. Storage!Stored(item) = gas + long * PersistPerByte + StorePerByte * grown
  BY <1>7, <1>8, <1>c DEF Storage!Stored, grown, old
<1> QED BY <1>2, <1>3, <1>7, <1>8, <1>9 DEF unit, old, long, grown

(* What StorageIsPaid rests on, for a bound on the bytes of a pair. *)
StorageInv(bytes) ==
  StorageType /\ GrowthPaid /\ gasBack <= limit /\ InStep(bytes)

LEMMA Distributed ==
  ASSUME NEW p \in Nat, NEW x \in Nat, NEW y \in Nat, NEW z \in Nat, z <= x + y
  PROVE  p * z <= p * x + p * y /\ p * z \in Nat /\ p * x \in Nat /\ p * y \in Nat
<1>1. z * p <= (x + y) * p /\ z * p = p * z /\ z * p \in Nat
  BY Scaled
<1>2. (x + y) * p = p * x + p * y
  OBVIOUS
<1>3. p * z \in Nat /\ p * x \in Nat /\ p * y \in Nat
  OBVIOUS
<1> QED BY <1>1, <1>2, <1>3

LEMMA CallKept ==
  ASSUME NEW bytes \in Nat, StorageInv(bytes), NEW l \in StorageGasLimits, Storage!Call(l)
  PROVE  StorageInv(bytes)'
<1>1. /\ running' = TRUE /\ working' = storage /\ items' = 0
      /\ gas' = SaveKeyValue /\ limit' = l /\ gasBack' = 0
      /\ storage' = storage /\ paid' = paid
  BY DEF Storage!Call
<1>2. l \in 0..(Modulus - 1) /\ SaveKeyValue \in 0..(Modulus - 1) /\ 0 \in 0..(Modulus - 1)
      /\ 0 \in 0..MaxItems
  BY StorageConstants
<1>3. StorageType'
  <2>1. storage' \in [Keys -> Storage!Values] /\ working' \in [Keys -> Storage!Values]
    BY <1>1 DEF StorageInv, StorageType
  <2>2. \A k \in Protected : storage'[k] = Storage!Nothing /\ working'[k] = Storage!Nothing
    BY <1>1 DEF StorageInv, StorageType
  <2>3. running' \in BOOLEAN
    BY <1>1
  <2>4. paid' \in 0..MaxPaid
    BY <1>1 DEF StorageInv, StorageType
  <2> QED BY <1>1, <1>2, <2>1, <2>2, <2>3, <2>4 DEF StorageType
<1>4. GrowthPaid'
  <2>1. StorePerByte * BytesOf(storage) <= paid
    BY DEF StorageInv, GrowthPaid
  <2>2. BytesOf(storage') = BytesOf(storage) /\ BytesOf(working') = BytesOf(storage)
    BY <1>1
  <2>3. BytesOf(storage) \in Nat /\ paid \in Nat /\ SaveKeyValue \in Nat /\ StorePerByte \in Nat
    BY BytesType, StorageConstants DEF StorageInv, StorageType
  <2>4. StorePerByte * BytesOf(storage') <= paid'
    BY <1>1, <2>1, <2>2
  <2>5. StorePerByte * BytesOf(working') <= paid' + gas'
    <3>1. StorePerByte * BytesOf(storage) \in Nat
      BY <2>3
    <3> QED BY <1>1, <2>1, <2>2, <2>3, <3>1
  <2> QED BY <2>4, <2>5 DEF GrowthPaid, BytesOf
<1>5. InStep(bytes)'
  <2>1. bytes * (PersistPerByte + StorePerByte) \in Nat
    BY StorageConstants
  <2> QED BY <1>1, <2>1, StorageConstants DEF InStep
<1>6. gasBack' <= limit'
  BY <1>1, <1>2, StorageConstants
<1> QED BY <1>3, <1>4, <1>5, <1>6 DEF StorageInv

LEMMA SaveKept ==
  ASSUME NEW bytes \in Nat, Fits(bytes), StorageInv(bytes), NEW item \in Storage!Items,
         Storage!Save(item)
  PROVE  StorageInv(bytes)'
<1> DEFINE old == working[item.key]
           long == item.value.length + KeyLength[item.key]
           grown == Storage!Growth(old, item.value)
           persisted == long * PersistPerByte
           stores == StorePerByte * grown
           unit == bytes * (PersistPerByte + StorePerByte)
<1>1. /\ running = TRUE /\ running' = TRUE /\ items < MaxItems /\ items' = items + 1
      /\ item.key \notin Protected
      /\ storage' = storage /\ paid' = paid /\ limit' = limit /\ gasBack' = gasBack
  BY DEF Storage!Save, Storage!MaySave, StorageInv, StorageType
<1>2. \/ gas' = Storage!Persisted(item) /\ working' = working
      \/ gas' = Storage!Stored(item) /\ working' = [working EXCEPT ![item.key] = item.value]
  BY DEF Storage!Save
<1>3. /\ Storage!Persisted(item) = gas + persisted
      /\ Storage!Stored(item) = gas + persisted + stores
      /\ gas + persisted + stores <= SaveKeyValue + (items + 1) * unit
      /\ gas + persisted + stores < Modulus
      /\ persisted \in Nat /\ stores \in Nat
  <2>1. StorageType /\ InStep(bytes)
    BY DEF StorageInv
  <2> QED BY <1>1, <2>1, PairCharged
<1>c. /\ StorePerByte \in Nat /\ SaveKeyValue \in Nat /\ Modulus \in Nat /\ MaxItems \in Nat
      /\ gas \in Nat /\ items \in Nat /\ paid \in Nat
      /\ storage \in [Keys -> Storage!Values] /\ working \in [Keys -> Storage!Values]
      /\ item.key \in Keys /\ item.value \in Storage!Values
  BY StorageConstants DEF StorageInv, StorageType, Storage!Items
<1>d. /\ old.length \in Nat /\ item.value.length \in Nat
      /\ grown \in Nat /\ item.value.length - old.length <= grown
  <2>1. old \in Storage!Values
    BY <1>c
  <2>2. old.length \in Nat /\ item.value.length \in Nat
    BY <1>c, <2>1, StorageConstants
  <2> HIDE DEF old
  <2> QED BY <2>2 DEF Storage!Growth
<1>4. StorePerByte * BytesOf(working) <= paid + gas /\ BytesOf(working) \in Nat
  BY <1>1, <1>c, BytesType DEF StorageInv, GrowthPaid
<1>5. working' \in [Keys -> Storage!Values] /\ BytesOf(working') \in Nat
      /\ \A k \in Protected : working'[k] = Storage!Nothing
  <2>1. \A k \in Protected : working[k] = Storage!Nothing
    BY DEF StorageInv, StorageType
  <2>2. working' \in [Keys -> Storage!Values]
    BY <1>2, <1>c
  <2>3. \A k \in Protected : working'[k] = Storage!Nothing
    BY <1>1, <1>2, <1>c, <2>1, StorageConstants
  <2> QED BY <2>2, <2>3, BytesType
<1> HIDE DEF persisted, stores, unit, long
<1>6. gas' \in 0..(Modulus - 1) /\ gas' <= SaveKeyValue + (items + 1) * unit
  <2> DEFINE bound == SaveKeyValue + (items + 1) * unit
  <2>1. gas + persisted + stores <= bound
    BY <1>3
  <2>2. gas' = gas + persisted \/ gas' = gas + persisted + stores
    BY <1>2, <1>3
  <2>3. bound \in Nat
    <3>1. unit \in Nat
      BY StorageConstants DEF unit
    <3>2. (items + 1) * unit \in Nat
      BY <1>c, <3>1
    <3> QED BY <1>c, <3>2
  <2> HIDE DEF bound
  <2>4. gas' \in 0..(Modulus - 1) /\ gas' <= bound
    BY <1>3, <1>c, <2>1, <2>2, <2>3
  <2> QED BY <2>4 DEF bound
<1>7. StorePerByte * BytesOf(working') <= paid' + gas'
  <2>1. CASE gas' = Storage!Persisted(item) /\ working' = working
    <3>1. gas' = gas + persisted /\ BytesOf(working') = BytesOf(working)
      BY <1>3, <2>1
    <3>2. StorePerByte * BytesOf(working) \in Nat
      BY <1>4, <1>c
    <3> QED BY <1>1, <1>3, <1>4, <1>c, <3>1, <3>2
  <2>2. CASE gas' = Storage!Stored(item) /\ working' = [working EXCEPT ![item.key] = item.value]
    <3>1. gas' = gas + persisted + stores
      BY <1>3, <2>2
    <3>2. BytesOf(working') = BytesOf(working) - old.length + item.value.length
      BY <1>c, <2>2, BytesWritten
    <3> HIDE DEF old, grown
    <3>3. BytesOf(working') <= BytesOf(working) + grown
      BY <1>4, <1>5, <1>d, <3>2
    <3>4. /\ StorePerByte * BytesOf(working')
               <= StorePerByte * BytesOf(working) + StorePerByte * grown
          /\ StorePerByte * BytesOf(working) \in Nat /\ StorePerByte * BytesOf(working') \in Nat
      BY <1>4, <1>5, <1>c, <1>d, <3>3, Distributed
    <3>5. StorePerByte * grown = stores
      BY DEF stores
    <3> QED BY <1>1, <1>3, <1>4, <1>c, <3>1, <3>4, <3>5
  <2> QED BY <1>2, <2>1, <2>2
<1>8. StorageType'
  <2>1. storage' \in [Keys -> Storage!Values] /\ running' \in BOOLEAN
    BY <1>1, <1>c
  <2>2. \A k \in Protected : storage'[k] = Storage!Nothing
    BY <1>1 DEF StorageInv, StorageType
  <2>3. items' \in 0..MaxItems
    BY <1>1, <1>c
  <2>4. paid' \in 0..MaxPaid /\ limit' \in 0..(Modulus - 1) /\ gasBack' \in 0..(Modulus - 1)
    BY <1>1 DEF StorageInv, StorageType
  <2> QED BY <1>5, <1>6, <2>1, <2>2, <2>3, <2>4 DEF StorageType
<1>9. GrowthPaid'
  <2>1. StorePerByte * BytesOf(storage') <= paid'
    BY <1>1 DEF StorageInv, GrowthPaid
  <2> QED BY <1>7, <2>1 DEF GrowthPaid, BytesOf
<1>10. InStep(bytes)'
  BY <1>1, <1>6 DEF InStep, unit
<1>11. gasBack' <= limit'
  BY <1>1 DEF StorageInv
<1> QED BY <1>8, <1>9, <1>10, <1>11 DEF StorageInv

LEMMA ReturnKept ==
  ASSUME NEW bytes \in Nat, StorageInv(bytes), FixGasRemaining, Storage!Return
  PROVE  StorageInv(bytes)'
<1>1. /\ running = TRUE /\ running' = FALSE /\ gas <= limit /\ paid + gas <= MaxPaid
      /\ storage' = working /\ paid' = paid + gas
      /\ gasBack' = (limit - gas) % Modulus
      /\ working' = working /\ items' = items /\ gas' = gas /\ limit' = limit
  BY DEF Storage!Return, Storage!MayPay, StorageInv, StorageType
<1>2. /\ gas \in 0..(Modulus - 1) /\ limit \in 0..(Modulus - 1) /\ paid \in Nat
      /\ Modulus \in Nat /\ MaxPaid \in Nat
  BY StorageConstants DEF StorageInv, StorageType
<1>3. gasBack' = limit - gas
  BY <1>1, <1>2
<1>4. StorageType'
  <2>1. /\ storage' \in [Keys -> Storage!Values] /\ working' \in [Keys -> Storage!Values]
        /\ items' \in 0..MaxItems
        /\ \A k \in Protected : storage'[k] = Storage!Nothing /\ working'[k] = Storage!Nothing
    BY <1>1 DEF StorageInv, StorageType
  <2>2. running' \in BOOLEAN
    BY <1>1
  <2>3. paid' \in 0..MaxPaid /\ gas' \in 0..(Modulus - 1) /\ limit' \in 0..(Modulus - 1)
        /\ gasBack' \in 0..(Modulus - 1)
    BY <1>1, <1>2, <1>3
  <2> QED BY <2>1, <2>2, <2>3 DEF StorageType
<1>5. GrowthPaid'
  <2>1. StorePerByte * BytesOf(working) <= paid + gas
    BY <1>1 DEF StorageInv, GrowthPaid
  <2> QED BY <1>1, <2>1 DEF GrowthPaid, BytesOf
<1>6. InStep(bytes)'
  BY <1>1 DEF StorageInv, InStep
<1>7. gasBack' <= limit'
  BY <1>1, <1>2, <1>3
<1> QED BY <1>4, <1>5, <1>6, <1>7 DEF StorageInv

LEMMA FailKept ==
  ASSUME NEW bytes \in Nat, StorageInv(bytes), Storage!Fail
  PROVE  StorageInv(bytes)'
<1>1. /\ running' = FALSE /\ gasBack' = 0
      /\ storage' = storage /\ paid' = paid /\ working' = working /\ items' = items
      /\ gas' = gas /\ limit' = limit
  BY DEF Storage!Fail
<1>2. limit \in 0..(Modulus - 1)
  BY DEF StorageInv, StorageType
<1>3. StorageType'
  <2>1. running' \in BOOLEAN
    BY <1>1
  <2>2. gasBack' \in 0..(Modulus - 1)
    BY <1>1, StorageConstants
  <2> QED BY <1>1, <2>1, <2>2 DEF StorageInv, StorageType
<1>4. GrowthPaid'
  BY <1>1 DEF StorageInv, GrowthPaid, BytesOf
<1>5. InStep(bytes)'
  BY <1>1 DEF StorageInv, InStep
<1>6. gasBack' <= limit'
  BY <1>1, <1>2, StorageConstants
<1> QED BY <1>3, <1>4, <1>5, <1>6 DEF StorageInv

LEMMA StorageKept ==
  ASSUME NEW bytes \in Nat, Fits(bytes), FixGasRemaining, StorageInv(bytes),
         Storage!Next \/ UNCHANGED stored
  PROVE  StorageInv(bytes)'
<1>1. CASE UNCHANGED stored
  BY <1>1 DEF stored, StorageInv, StorageType, GrowthPaid, InStep, BytesOf
<1>2. CASE \E l \in StorageGasLimits : Storage!Call(l)
  BY <1>2, CallKept
<1>3. CASE \E item \in Storage!Items : Storage!Save(item)
  BY <1>3, SaveKept
<1>4. CASE Storage!Return
  BY <1>4, ReturnKept
<1>5. CASE Storage!Fail
  BY <1>5, FailKept
<1> QED BY <1>1, <1>2, <1>3, <1>4, <1>5 DEF Storage!Next

LEMMA StorageInvPays ==
  ASSUME NEW bytes \in Nat, StorageInv(bytes)
  PROVE  StorageIsPaid
<1>1. Storage!TypeOK
  BY DEF StorageInv, StorageType, Storage!TypeOK
<1>2. Storage!NoGasFromNowhere
  BY DEF StorageInv, Storage!NoGasFromNowhere
<1>3. Storage!StorageIsPaid
  <2>1. StorePerByte * BytesOf(storage) <= paid
    BY DEF StorageInv, GrowthPaid
  <2> QED BY <2>1, BytesAre DEF Storage!StorageIsPaid
<1> QED BY <1>1, <1>2, <1>3 DEF StorageIsPaid

(* However values are grown, cut and grown again, by however many pairs and calls, what is
   stored has been paid for and a call returns no more gas than it was given. Both fail
   where the sum of a call wraps, and the second before the flag. *)
THEOREM StorageAlwaysPaid ==
  ASSUME CallsFit, FixGasRemaining
  PROVE  AccountSpec => []StorageIsPaid
<1>1. PICK bytes \in Nat : Fits(bytes)
  BY DEF CallsFit, Fits
<1>2. AccountInit => StorageInv(bytes)
  <2> SUFFICES ASSUME AccountInit PROVE StorageInv(bytes)
    OBVIOUS
  <2>1. Storage!Init
    BY DEF AccountInit
  <2>2. StorageType /\ GrowthPaid /\ gasBack <= limit
    BY <2>1, StorageInit
  <2>3. gas = 0 /\ items = 0
    BY <2>1 DEF Storage!Init
  <2>4. bytes * (PersistPerByte + StorePerByte) \in Nat
    BY StorageConstants
  <2>5. InStep(bytes)
    BY <2>3, <2>4, StorageConstants DEF InStep
  <2> QED BY <2>2, <2>5 DEF StorageInv
<1>3. StorageInv(bytes) /\ [AccountNext]_accountVars => StorageInv(bytes)'
  BY <1>1, StepsOfEach, StorageKept
<1>4. StorageInv(bytes) => StorageIsPaid
  BY StorageInvPays
<1> QED BY <1>2, <1>3, <1>4, PTL DEF AccountSpec

-----------------------------------------------------------------------------
(***************************************************************************)
(* The token functions                                                     *)
(***************************************************************************)
HIDE FunctionAssumptions
USE TokenAssumptions

(* What the constants are, in terms of this module. *)
LEMMA BatchConstants ==
  /\ IsFiniteSet(Holders) /\ ShardOf \in [Holders -> HolderShards]
  /\ Native \in BatchTokens /\ Nonced \subseteq BatchTokens \ {Native}
  /\ Freezable \subseteq Holders \X (BatchTokens \ {Native})
  /\ Start \in [Holders -> [BatchTokens -> Nat]]
  /\ Values \subseteq Nat /\ MaxBatch \in Nat
  /\ NoMessage \notin Batch!Messages /\ NoMessage \notin Batch!Amounted /\ NoSlot \notin Slots
  /\ \A a, b \in Holders : Batch!Local(a, b) <=> ShardOf[a] = ShardOf[b]
<1>1. IsFiniteSet(Holders)
  BY DEF Batch!BatchAssumption, Batch!IsFiniteSet, IsFiniteSet
<1> QED BY <1>1 DEF Batch!BatchAssumption, Batch!Local

(* A batch is a short sequence of items, also with one item more. *)
LEMMA BatchesAre ==
  ASSUME NEW s \in Batch!Batches
  PROVE  Len(s) \in 0..MaxBatch /\ s \in [1..Len(s) -> Batch!Items] /\ s \in Seq(Batch!Items)
<1>1. PICK m \in 0..MaxBatch : s \in [1..m -> Batch!Items]
  BY DEF Batch!Batches, Batch!BoundedSeq, Batch!SeqOf
<1>2. m \in Nat
  BY BatchConstants
<1> DEFINE I == Batch!Items
<1> HIDE DEF I
<1>3. s \in Seq(I) /\ Len(s) = m
  BY <1>1, <1>2 DEF I
<1> QED BY <1>1, <1>3 DEF I

LEMMA BatchGrows ==
  ASSUME NEW s \in Batch!Batches, Len(s) < MaxBatch, NEW e \in Batch!Items
  PROVE  /\ Append(s, e) \in Batch!Batches /\ Len(Append(s, e)) = Len(s) + 1
         /\ Append(s, e)[Len(s) + 1] = e /\ \A k \in 1..Len(s) : Append(s, e)[k] = s[k]
<1>1. Len(s) \in 0..MaxBatch /\ s \in Seq(Batch!Items)
  BY BatchesAre
<1>2. /\ Append(s, e) \in Seq(Batch!Items) /\ Len(Append(s, e)) = Len(s) + 1
      /\ Append(s, e)[Len(s) + 1] = e /\ \A k \in 1..Len(s) : Append(s, e)[k] = s[k]
  BY <1>1, AppendProperties
<1>3. Append(s, e) \in [1..(Len(s) + 1) -> Batch!Items]
  <2> DEFINE r == Append(s, e)  I == Batch!Items
  <2>1. r \in Seq(I) /\ Len(r) = Len(s) + 1
    BY <1>2
  <2> HIDE DEF r, I
  <2>2. r \in [1..Len(r) -> I]
    BY <2>1
  <2> QED BY <2>1, <2>2 DEF r, I
<1>4. Len(s) + 1 \in 0..MaxBatch
  BY <1>1, BatchConstants
<1> QED BY <1>2, <1>3, <1>4 DEF Batch!Batches, Batch!BoundedSeq, Batch!SeqOf

-----------------------------------------------------------------------------
(* How much of a token is in a batch *)

Amount(n, list, t) ==
  Total([k \in 1..MaxBatch |-> IF k <= n /\ list[k].token = t THEN list[k].value ELSE 0])

(* What one item is of t. *)
Worth(item, t) == IF item.token = t THEN item.value ELSE 0

(* The model's operators are the ones above. *)
LEMMA AmountIs ==
  ASSUME NEW n, NEW list, NEW t
  PROVE  Batch!InFirst(n, list, t) = Amount(n, list, t)
BY DEF Batch!InFirst, Amount, Batch!Total, Total, Batch!Units, Units, Batch!Cardinality, Cardinality

LEMMA EachIn ==
  ASSUME NEW list \in Batch!Batches, NEW n \in 0..Len(list), NEW t
  PROVE  [k \in 1..MaxBatch |-> IF k <= n /\ list[k].token = t THEN list[k].value ELSE 0]
           \in [1..MaxBatch -> Nat]
<1>1. list \in [1..Len(list) -> Batch!Items] /\ Len(list) \in 0..MaxBatch
  BY BatchesAre
<1>2. ASSUME NEW k \in 1..MaxBatch, k <= n PROVE list[k].value \in Nat
  <2>1. k \in 1..Len(list)
    BY <1>1, <1>2, BatchConstants
  <2>2. list[k] \in Batch!Items
    BY <1>1, <2>1
  <2>3. list[k].value \in Values
    BY <2>2 DEF Batch!Items
  <2> QED BY <2>3, BatchConstants
<1> DEFINE v(k) == IF k <= n /\ list[k].token = t THEN list[k].value ELSE 0
<1>3. \A k \in 1..MaxBatch : v(k) \in Nat
  BY <1>2
<1> HIDE DEF v
<1>4. [k \in 1..MaxBatch |-> v(k)] \in [1..MaxBatch -> Nat]
  BY <1>3
<1> QED BY <1>4 DEF v

LEMMA AmountType ==
  ASSUME NEW list \in Batch!Batches, NEW n \in 0..Len(list), NEW t
  PROVE  Amount(n, list, t) \in Nat
<1> DEFINE S == 1..MaxBatch
           f == [k \in 1..MaxBatch |-> IF k <= n /\ list[k].token = t THEN list[k].value ELSE 0]
<1>a. IsFiniteSet(S)
  BY FS_Interval, BatchConstants
<1>b. f \in [S -> Nat]
  BY EachIn
<1>1. IsFiniteSet(S) /\ f \in [S -> Nat]
  BY <1>a, <1>b
<1>2. Amount(n, list, t) = Total(f)
  BY DEF Amount
<1> HIDE DEF S, f
<1> QED BY <1>1, <1>2, TotalType

LEMMA AmountOfNone == ASSUME NEW list, NEW t PROVE Amount(0, list, t) = 0
<1>1. [k \in 1..MaxBatch |-> IF k <= 0 /\ list[k].token = t THEN list[k].value ELSE 0]
        = [k \in 1..MaxBatch |-> 0]
  BY BatchConstants
<1> QED BY <1>1, TotalZero DEF Amount

(* One item more. *)
LEMMA AmountGrows ==
  ASSUME NEW list \in Batch!Batches, NEW n \in 0..Len(list), n + 1 <= Len(list), NEW t
  PROVE  Amount(n + 1, list, t) = Amount(n, list, t) + Worth(list[n + 1], t)
<1> DEFINE S == 1..MaxBatch
           f == [k \in 1..MaxBatch |-> IF k <= n /\ list[k].token = t THEN list[k].value ELSE 0]
           g == [k \in 1..MaxBatch |-> IF k <= n + 1 /\ list[k].token = t THEN list[k].value ELSE 0]
<1>1. f \in [S -> Nat] /\ g \in [S -> Nat]
  <2>1. n + 1 \in 0..Len(list)
    BY BatchesAre
  <2>2. f \in [S -> Nat]
    BY EachIn
  <2>3. g \in [S -> Nat]
    BY <2>1, EachIn
  <2> QED BY <2>2, <2>3
<1>2. IsFiniteSet(S) /\ n + 1 \in S
  BY FS_Interval, BatchConstants, BatchesAre
<1>3. f[n + 1] = 0 /\ g[n + 1] = Worth(list[n + 1], t)
  BY <1>2 DEF Worth
<1>4. \A k \in S : k # n + 1 => g[k] = f[k]
  OBVIOUS
<1>5. Amount(n, list, t) = Total(f) /\ Amount(n + 1, list, t) = Total(g)
  BY DEF Amount
<1> HIDE DEF S, f, g
<1>6. Total(g) = Total(f) - f[n + 1] + g[n + 1]
  BY <1>1, <1>2, <1>4, TotalChange
<1>7. Total(f) \in Nat /\ g[n + 1] \in Nat
  BY <1>1, <1>2, TotalType
<1> QED BY <1>3, <1>5, <1>6, <1>7

(* What comes behind the first n items does not matter to them. *)
LEMMA AmountKept ==
  ASSUME NEW list \in Batch!Batches, Len(list) < MaxBatch, NEW e \in Batch!Items,
         NEW n \in 0..Len(list), NEW t
  PROVE  Amount(n, Append(list, e), t) = Amount(n, list, t)
<1>1. \A k \in 1..Len(list) : Append(list, e)[k] = list[k]
  BY BatchGrows
<1>2. [k \in 1..MaxBatch |->
          IF k <= n /\ Append(list, e)[k].token = t THEN Append(list, e)[k].value ELSE 0]
        = [k \in 1..MaxBatch |-> IF k <= n /\ list[k].token = t THEN list[k].value ELSE 0]
  BY <1>1, BatchesAre
<1> QED BY <1>2 DEF Amount

-----------------------------------------------------------------------------
(* What the residents of a shard have *)

Residing(s) == {a \in Holders : ShardOf[a] = s}
Circulates(h, s, t) == Total([a \in Residing(s) |-> h[a][t]])

(* Likewise. *)
LEMMA CirculatingIs ==
  ASSUME NEW h, NEW s, NEW t
  PROVE  Batch!Circulating(h, s, t) = Circulates(h, s, t)
BY DEF Batch!Circulating, Circulates, Batch!Residents, Residing,
       Batch!Total, Total, Batch!Units, Units, Batch!Cardinality, Cardinality

LEMMA CirculatesType ==
  ASSUME NEW h \in [Holders -> [BatchTokens -> Nat]], NEW s, NEW t \in BatchTokens
  PROVE  Circulates(h, s, t) \in Nat
<1>1. IsFiniteSet(Residing(s))
  BY BatchConstants, FS_Subset DEF Residing
<1>2. [a \in Residing(s) |-> h[a][t]] \in [Residing(s) -> Nat]
  BY DEF Residing
<1> QED BY <1>1, <1>2, TotalType DEF Circulates

(* Two amounts for each member of S that differ at most at x. *)
DifferAt(S, x, f, g) ==
  /\ IsFiniteSet(S) /\ f \in [S -> Nat] /\ g \in [S -> Nat]
  /\ x \in S /\ \A y \in S : y # x => g[y] = f[y]

LEMMA TotalsDiffer ==
  \A S, x, f, g : DifferAt(S, x, f, g) => Total(g) = Total(f) - f[x] + g[x]
BY TotalChange DEF DifferAt

(* One account has more or less of a token. *)
OnlyAt(x, h, g, t) == \A a \in Holders \ {x} : g[a][t] = h[a][t]

LEMMA CirculatesPlus ==
  ASSUME NEW h \in [Holders -> [BatchTokens -> Nat]], NEW g \in [Holders -> [BatchTokens -> Nat]],
         NEW x \in Holders, NEW t \in BatchTokens, OnlyAt(x, h, g, t),
         NEW d \in Int, g[x][t] = h[x][t] + d, NEW s
  PROVE  Circulates(g, s, t) = Circulates(h, s, t) + (IF ShardOf[x] = s THEN d ELSE 0)
<1> DEFINE S == Residing(s)
           f == [a \in Residing(s) |-> h[a][t]]
           k == [a \in Residing(s) |-> g[a][t]]
<1>0. h[x][t] \in Nat /\ g[x][t] = h[x][t] + d
  OBVIOUS
<1>1. f \in [S -> Nat] /\ k \in [S -> Nat]
  BY DEF Residing
<1>2. IsFiniteSet(S)
  BY BatchConstants, FS_Subset DEF Residing
<1>3. \A a \in S : a # x => k[a] = f[a]
  BY DEF Residing, OnlyAt
<1>4. Circulates(h, s, t) = Total(f) /\ Circulates(g, s, t) = Total(k)
  BY DEF Circulates
<1>5. CASE ShardOf[x] = s
  <2>0. x \in S
    BY <1>5 DEF Residing
  <2>1. f[x] = h[x][t] /\ k[x] = g[x][t]
    BY <2>0
  <2> HIDE DEF S, f, k
  <2>2. Total(k) = Total(f) - f[x] + k[x]
    <3>1. DifferAt(S, x, f, k)
      BY <1>1, <1>2, <1>3, <2>0 DEF DifferAt
    <3> QED BY <3>1, TotalsDiffer
  <2>3. Total(f) \in Nat /\ Total(k) \in Nat
    BY <1>1, <1>2, TotalType
  <2> QED BY <1>0, <1>4, <1>5, <2>1, <2>2, <2>3
<1>6. CASE ShardOf[x] # s
  <2>1. \A a \in S : k[a] = f[a]
    BY <1>3, <1>6 DEF Residing
  <2>2. k = f
    BY <2>1
  <2>3. Total(f) \in Nat
    BY <1>1, <1>2, TotalType
  <2> HIDE DEF S, f, k
  <2> QED BY <1>4, <1>6, <2>2, <2>3
<1> QED BY <1>5, <1>6

-----------------------------------------------------------------------------
(* What one item changes in the books of a call *)

(* a and b live in one shard. *)
Together(a, b) == ShardOf[a] = ShardOf[b]

LEMMA ItemType ==
  ASSUME NEW item \in Batch!Items
  PROVE  /\ item.token \in BatchTokens /\ item.value \in Nat
         /\ \A t : Worth(item, t) \in Nat
BY BatchConstants DEF Batch!Items, Worth

LEMMA BooksType ==
  ASSUME NEW old \in Batch!Books
  PROVE  /\ old = [balance |-> old.balance, frozen |-> old.frozen, liquidity |-> old.liquidity]
         /\ old.balance \in [Holders -> [BatchTokens -> Nat]]
         /\ old.frozen \subseteq Freezable
         /\ old.liquidity \in [HolderShards -> [Nonced -> Nat]]
BY DEF Batch!Books

LEMMA IsBook ==
  ASSUME NEW b \in [Holders -> [BatchTokens -> Nat]], NEW f \in SUBSET Freezable,
         NEW l \in [HolderShards -> [Nonced -> Nat]]
  PROVE  [balance |-> b, frozen |-> f, liquidity |-> l] \in Batch!Books
BY DEF Batch!Books

(* One entry of a table of amounts. *)
LEMMA EntryChange ==
  ASSUME NEW R, NEW C, NEW h \in [R -> [C -> Nat]], NEW x \in R, NEW t \in C, NEW w \in Nat
  PROVE  /\ [h EXCEPT ![x][t] = w] \in [R -> [C -> Nat]]
         /\ \A y \in R, u \in C :
              [h EXCEPT ![x][t] = w][y][u] = IF y = x /\ u = t THEN w ELSE h[y][u]
OBVIOUS

(* An item from a is put under b. *)
IsPut(old, new, a, b, item) ==
  /\ new \in Batch!Books
  /\ \A x \in Holders, t \in BatchTokens :
       new.balance[x][t] = old.balance[x][t] + (IF x = b THEN Worth(item, t) ELSE 0)
  /\ new.frozen = IF item.token \in Nonced THEN old.frozen \ {<<b, item.token>>} ELSE old.frozen
  /\ \A s \in HolderShards, t \in Nonced :
       new.liquidity[s][t]
         = old.liquidity[s][t] + (IF ~Together(a, b) /\ s = ShardOf[b] THEN Worth(item, t) ELSE 0)

LEMMA PutEffect ==
  ASSUME NEW old \in Batch!Books, NEW a \in Holders, NEW b \in Holders, NEW item \in Batch!Items
  PROVE  IsPut(old, Batch!Put(old, a, b, item), a, b, item)
<1> DEFINE u == item.token
           new == Batch!Put(old, a, b, item)
           w == old.balance[b][u] + item.value
           bal == [old.balance EXCEPT ![b][u] = w]
           fro == IF u \in Nonced THEN old.frozen \ {<<b, u>>} ELSE old.frozen
           l == old.liquidity[ShardOf[b]][u] + item.value
           liq == IF u \in Nonced /\ ~Together(a, b) THEN [old.liquidity EXCEPT ![ShardOf[b]][u] = l]
                  ELSE old.liquidity
<1>1. /\ u \in BatchTokens /\ item.value \in Nat /\ \A t : Worth(item, t) = IF t = u THEN item.value ELSE 0
      /\ ShardOf[b] \in HolderShards /\ Nonced \subseteq BatchTokens
  BY ItemType, BatchConstants DEF Worth
<1>2. new = [balance |-> bal, frozen |-> fro, liquidity |-> liq]
  <2>1. old = [balance |-> old.balance, frozen |-> old.frozen, liquidity |-> old.liquidity]
    BY BooksType
  <2> DEFINE p == old.balance  q == old.frozen  r == old.liquidity
  <2>2. Batch!Put([balance |-> p, frozen |-> q, liquidity |-> r], a, b, item)
          = [balance |-> [p EXCEPT ![b][u] = p[b][u] + item.value],
             frozen |-> IF u \in Nonced THEN q \ {<<b, u>>} ELSE q,
             liquidity |-> IF u \in Nonced /\ ~Together(a, b)
                             THEN [r EXCEPT ![ShardOf[b]][u] = r[ShardOf[b]][u] + item.value] ELSE r]
    <3> HIDE DEF p, q, r
    <3> QED BY DEF Batch!Put, Batch!Local, Together
  <2> QED BY <2>1, <2>2
<1>3. bal \in [Holders -> [BatchTokens -> Nat]]
      /\ \A x \in Holders, t \in BatchTokens :
           bal[x][t] = IF x = b /\ t = u THEN w ELSE old.balance[x][t]
  <2>1. old.balance \in [Holders -> [BatchTokens -> Nat]]
    BY BooksType
  <2>2. w \in Nat
    BY <1>1, <2>1
  <2> DEFINE p == old.balance
  <2>3. bal = [p EXCEPT ![b][u] = w]
    OBVIOUS
  <2>4. p \in [Holders -> [BatchTokens -> Nat]] /\ b \in Holders /\ u \in BatchTokens /\ w \in Nat
    BY <1>1, <2>1, <2>2
  <2>5. /\ [p EXCEPT ![b][u] = w] \in [Holders -> [BatchTokens -> Nat]]
        /\ \A x \in Holders, t \in BatchTokens :
              [p EXCEPT ![b][u] = w][x][t] = IF x = b /\ t = u THEN w ELSE p[x][t]
    <3> HIDE DEF p, u, w
    <3> QED BY <2>4, EntryChange
  <2> QED BY <2>3, <2>5
<1>4. liq \in [HolderShards -> [Nonced -> Nat]]
      /\ \A s \in HolderShards, t \in Nonced :
           liq[s][t] = IF ~Together(a, b) /\ s = ShardOf[b] /\ t = u THEN l ELSE old.liquidity[s][t]
  <2>1. old.liquidity \in [HolderShards -> [Nonced -> Nat]]
    BY BooksType
  <2>2. CASE u \in Nonced /\ ~Together(a, b)
    <3>1. l \in Nat /\ ShardOf[b] \in HolderShards
      BY <1>1, <2>1, <2>2
    <3>2. liq = [old.liquidity EXCEPT ![ShardOf[b]][u] = l]
      BY <2>2
    <3> DEFINE q == old.liquidity  y == ShardOf[b]
    <3>3. q \in [HolderShards -> [Nonced -> Nat]] /\ y \in HolderShards /\ u \in Nonced /\ l \in Nat
      BY <2>1, <2>2, <3>1
    <3>4. liq = [q EXCEPT ![y][u] = l]
      BY <3>2
    <3> HIDE DEF u, l, liq, q, y
    <3>5. /\ liq \in [HolderShards -> [Nonced -> Nat]]
          /\ \A s \in HolderShards, t \in Nonced : liq[s][t] = IF s = y /\ t = u THEN l ELSE q[s][t]
      BY <3>3, <3>4, EntryChange
    <3> QED BY <2>2, <3>5 DEF q, y
  <2>3. CASE ~(u \in Nonced /\ ~Together(a, b))
    BY <2>1, <2>3
  <2> QED BY <2>2, <2>3
<1>5. fro \subseteq Freezable
  BY BooksType
<1>6. w = old.balance[b][u] + item.value /\ l = old.liquidity[ShardOf[b]][u] + item.value
  OBVIOUS
<1>7. old.balance \in [Holders -> [BatchTokens -> Nat]] /\ old.liquidity \in [HolderShards -> [Nonced -> Nat]]
  BY BooksType
<1>8. new.balance = bal /\ new.frozen = fro /\ new.liquidity = liq
  <2> HIDE DEF new, bal, fro, liq
  <2> QED BY <1>2
<1>9. new \in Batch!Books
  <2> HIDE DEF bal, fro, liq, new
  <2> QED BY <1>2, <1>3, <1>4, <1>5, IsBook
<1>10. ASSUME NEW x \in Holders, NEW t \in BatchTokens
       PROVE  new.balance[x][t] = old.balance[x][t] + (IF x = b THEN Worth(item, t) ELSE 0)
  <2>1. old.balance[x][t] \in Nat /\ Worth(item, t) = IF t = u THEN item.value ELSE 0
    BY <1>1, <1>7
  <2>2. new.balance[x][t] = IF x = b /\ t = u THEN w ELSE old.balance[x][t]
    <3> HIDE DEF new, bal, w, u
    <3> QED BY <1>3, <1>8
  <2> HIDE DEF new, w, u
  <2> QED BY <1>6, <2>1, <2>2
<1>11. ASSUME NEW s \in HolderShards, NEW t \in Nonced
       PROVE  new.liquidity[s][t]
                = old.liquidity[s][t] + (IF ~Together(a, b) /\ s = ShardOf[b] THEN Worth(item, t) ELSE 0)
  <2>1. old.liquidity[s][t] \in Nat /\ Worth(item, t) = IF t = u THEN item.value ELSE 0
    BY <1>1, <1>7
  <2>2. new.liquidity[s][t] = IF ~Together(a, b) /\ s = ShardOf[b] /\ t = u THEN l ELSE old.liquidity[s][t]
    <3> HIDE DEF new, liq, l, u
    <3> QED BY <1>4, <1>8
  <2> HIDE DEF new, l, u
  <2> QED BY <1>6, <2>1, <2>2
<1>12. new.frozen = IF item.token \in Nonced THEN old.frozen \ {<<b, item.token>>} ELSE old.frozen
  BY <1>8
<1> HIDE DEF new
<1>13. IsPut(old, new, a, b, item)
  BY <1>9, <1>10, <1>11, <1>12 DEF IsPut
<1> QED BY <1>13 DEF new

(* The liquidity of each nonce on each shard is what its residents have. *)
Counted(h, l) == \A s \in HolderShards, t \in Nonced : l[s][t] = Circulates(h, s, t)

(* A resident has no more of a token than all of them. *)
LEMMA CirculatesBounds ==
  ASSUME NEW h \in [Holders -> [BatchTokens -> Nat]], NEW a \in Holders, NEW t \in BatchTokens
  PROVE  h[a][t] <= Circulates(h, ShardOf[a], t)
<1> DEFINE S == Residing(ShardOf[a])
           f == [x \in Residing(ShardOf[a]) |-> h[x][t]]
<1>1. IsFiniteSet(S)
  BY BatchConstants, FS_Subset DEF Residing
<1>2. f \in [S -> Nat] /\ a \in S /\ f[a] = h[a][t]
  BY DEF Residing
<1>3. Circulates(h, ShardOf[a], t) = Total(f)
  BY DEF Circulates
<1> HIDE DEF S, f
<1>4. f[a] <= Total(f)
  BY <1>1, <1>2, TotalBounds
<1> QED BY <1>2, <1>3, <1>4

(* An item for b is taken from a. *)
IsTake(old, new, a, b, item) ==
  /\ new \in Batch!Books
  /\ \A x \in Holders, t \in BatchTokens :
       new.balance[x][t] = old.balance[x][t] - (IF x = a THEN Worth(item, t) ELSE 0)
  /\ new.frozen = old.frozen
  /\ \A s \in HolderShards, t \in Nonced :
       new.liquidity[s][t]
         = old.liquidity[s][t] - (IF ~Together(a, b) /\ s = ShardOf[a] THEN Worth(item, t) ELSE 0)

(* The liquidity of a nonce is enough for whatever a resident has of it. *)
LEMMA TakeEffect ==
  ASSUME book \in Batch!Books, Counted(book.balance, book.liquidity),
         NEW a \in Holders, NEW b \in Holders, NEW item \in Batch!Items, Batch!MayTake(a, item)
  PROVE  IsTake(book, Batch!Take(a, b, item), a, b, item)
<1> DEFINE u == item.token
           new == Batch!Take(a, b, item)
           w == book.balance[a][u] - item.value
           bal == [book.balance EXCEPT ![a][u] = w]
           l == book.liquidity[ShardOf[a]][u] - item.value
           liq == IF u \in Nonced /\ ~Together(a, b) THEN [book.liquidity EXCEPT ![ShardOf[a]][u] = l]
                  ELSE book.liquidity
<1>0. /\ book.balance \in [Holders -> [BatchTokens -> Nat]]
      /\ book.liquidity \in [HolderShards -> [Nonced -> Nat]]
      /\ book.frozen \subseteq Freezable
  BY BooksType
<1>1. /\ u \in BatchTokens /\ item.value \in Nat /\ \A t : Worth(item, t) = IF t = u THEN item.value ELSE 0
      /\ ShardOf[a] \in HolderShards /\ Nonced \subseteq BatchTokens
      /\ book.balance[a][u] >= item.value
  BY ItemType, BatchConstants DEF Worth, Batch!MayTake
<1>2. new = [balance |-> bal, frozen |-> book.frozen, liquidity |-> liq]
  <2>1. book = [balance |-> book.balance, frozen |-> book.frozen, liquidity |-> book.liquidity]
    BY BooksType
  <2>2. /\ new = IF u \in Nonced /\ ~Together(a, b)
                   THEN [[book EXCEPT !.balance[a][u] = book.balance[a][u] - item.value]
                           EXCEPT !.liquidity[ShardOf[a]][u] = book.liquidity[ShardOf[a]][u] - item.value]
                   ELSE [book EXCEPT !.balance[a][u] = book.balance[a][u] - item.value]
    BY <2>1 DEF Batch!Take, Batch!Local, Together
  <2> HIDE DEF new
  <2>3. [book EXCEPT !.balance[a][u] = w] = [balance |-> bal, frozen |-> book.frozen, liquidity |-> book.liquidity]
    BY <2>1
  <2>4. CASE u \in Nonced /\ ~Together(a, b)
    BY <2>2, <2>3, <2>4
  <2>5. CASE ~(u \in Nonced /\ ~Together(a, b))
    BY <2>2, <2>3, <2>5
  <2> QED BY <2>4, <2>5
<1>3. bal \in [Holders -> [BatchTokens -> Nat]]
      /\ \A x \in Holders, t \in BatchTokens :
           bal[x][t] = IF x = a /\ t = u THEN w ELSE book.balance[x][t]
  <2> DEFINE p == book.balance
  <2>2. w \in Nat
    BY <1>0, <1>1
  <2>3. bal = [p EXCEPT ![a][u] = w]
    OBVIOUS
  <2>4. p \in [Holders -> [BatchTokens -> Nat]] /\ a \in Holders /\ u \in BatchTokens /\ w \in Nat
    BY <1>0, <1>1, <2>2
  <2>5. /\ [p EXCEPT ![a][u] = w] \in [Holders -> [BatchTokens -> Nat]]
        /\ \A x \in Holders, t \in BatchTokens :
              [p EXCEPT ![a][u] = w][x][t] = IF x = a /\ t = u THEN w ELSE p[x][t]
    <3> HIDE DEF p, u, w
    <3> QED BY <2>4, EntryChange
  <2> QED BY <2>3, <2>5
<1>4. liq \in [HolderShards -> [Nonced -> Nat]]
      /\ \A s \in HolderShards, t \in Nonced :
           liq[s][t] = IF ~Together(a, b) /\ s = ShardOf[a] /\ t = u THEN l ELSE book.liquidity[s][t]
  <2>2. CASE u \in Nonced /\ ~Together(a, b)
    <3>0. book.balance[a][u] <= Circulates(book.balance, ShardOf[a], u)
      BY <1>0, <1>1, CirculatesBounds
    <3>a. book.liquidity[ShardOf[a]][u] = Circulates(book.balance, ShardOf[a], u)
      BY <1>1, <2>2 DEF Counted
    <3>b. book.liquidity[ShardOf[a]][u] \in Nat /\ book.balance[a][u] \in Nat
      BY <1>0, <1>1, <2>2
    <3>1. l \in Nat
      BY <1>1, <3>0, <3>a, <3>b
    <3>2. liq = [book.liquidity EXCEPT ![ShardOf[a]][u] = l]
      BY <2>2
    <3> DEFINE p == book.liquidity
    <3>4. p \in [HolderShards -> [Nonced -> Nat]] /\ ShardOf[a] \in HolderShards /\ u \in Nonced
      BY <1>0, <1>1, <2>2
    <3>5. /\ [p EXCEPT ![ShardOf[a]][u] = l] \in [HolderShards -> [Nonced -> Nat]]
          /\ \A x \in HolderShards, t \in Nonced :
              [p EXCEPT ![ShardOf[a]][u] = l][x][t] = IF x = ShardOf[a] /\ t = u THEN l ELSE p[x][t]
      <4> HIDE DEF p, u, l
      <4> QED BY <3>1, <3>4, EntryChange
    <3> HIDE DEF u, l, liq
    <3> QED BY <2>2, <3>2, <3>5
  <2>3. CASE ~(u \in Nonced /\ ~Together(a, b))
    BY <1>0, <2>3
  <2> QED BY <2>2, <2>3
<1>6. w = book.balance[a][u] - item.value /\ l = book.liquidity[ShardOf[a]][u] - item.value
  OBVIOUS
<1>8. new.balance = bal /\ new.frozen = book.frozen /\ new.liquidity = liq
  <2> HIDE DEF new, bal, liq
  <2> QED BY <1>2
<1>9. new \in Batch!Books
  <2> HIDE DEF bal, liq, new
  <2> QED BY <1>0, <1>2, <1>3, <1>4, IsBook
<1>10. ASSUME NEW x \in Holders, NEW t \in BatchTokens
       PROVE  new.balance[x][t] = book.balance[x][t] - (IF x = a THEN Worth(item, t) ELSE 0)
  <2>1. book.balance[x][t] \in Nat /\ Worth(item, t) = IF t = u THEN item.value ELSE 0
    BY <1>0, <1>1
  <2>2. new.balance[x][t] = IF x = a /\ t = u THEN w ELSE book.balance[x][t]
    <3> HIDE DEF new, bal, w, u
    <3> QED BY <1>3, <1>8
  <2> HIDE DEF new, w, u
  <2> QED BY <1>6, <2>1, <2>2
<1>11. ASSUME NEW s \in HolderShards, NEW t \in Nonced
       PROVE  new.liquidity[s][t]
                = book.liquidity[s][t] - (IF ~Together(a, b) /\ s = ShardOf[a] THEN Worth(item, t) ELSE 0)
  <2>1. book.liquidity[s][t] \in Nat /\ Worth(item, t) = IF t = u THEN item.value ELSE 0
    BY <1>0, <1>1
  <2>2. new.liquidity[s][t] = IF ~Together(a, b) /\ s = ShardOf[a] /\ t = u THEN l ELSE book.liquidity[s][t]
    <3> HIDE DEF new, liq, l, u
    <3> QED BY <1>4, <1>8
  <2> HIDE DEF new, l, u
  <2> QED BY <1>6, <2>1, <2>2
<1> HIDE DEF new
<1>13. IsTake(book, new, a, b, item)
  BY <1>8, <1>9, <1>10, <1>11 DEF IsTake
<1> QED BY <1>13 DEF new

(* An account has d of a token more in new than in old. *)
Gained(old, new, x, t, d) ==
  \A y \in Holders : new.balance[y][t] = old.balance[y][t] + (IF y = x THEN d ELSE 0)

LEMMA CirculatesAfter ==
  \A old, new \in Batch!Books : \A x \in Holders, t \in BatchTokens, d \in Int :
    Gained(old, new, x, t, d)
      => \A s : Circulates(new.balance, s, t)
                  = Circulates(old.balance, s, t) + (IF ShardOf[x] = s THEN d ELSE 0)
<1> SUFFICES ASSUME NEW old \in Batch!Books, NEW new \in Batch!Books, NEW x \in Holders,
                    NEW t \in BatchTokens, NEW d \in Int, Gained(old, new, x, t, d), NEW s
             PROVE  Circulates(new.balance, s, t)
                      = Circulates(old.balance, s, t) + (IF ShardOf[x] = s THEN d ELSE 0)
  OBVIOUS
<1> DEFINE h == old.balance  g == new.balance
<1>1. h \in [Holders -> [BatchTokens -> Nat]] /\ g \in [Holders -> [BatchTokens -> Nat]]
  BY BooksType
<1>2. \A y \in Holders : h[y][t] \in Nat /\ g[y][t] = h[y][t] + (IF y = x THEN d ELSE 0)
  BY <1>1 DEF Gained
<1> HIDE DEF h, g
<1>3. g[x][t] = h[x][t] + d
  BY <1>2
<1>4. OnlyAt(x, h, g, t)
  BY <1>2 DEF OnlyAt
<1>5. Circulates(g, s, t) = Circulates(h, s, t) + (IF ShardOf[x] = s THEN d ELSE 0)
  BY <1>1, <1>3, <1>4, CirculatesPlus
<1> QED BY <1>5 DEF g, h

(* Numbers, for the arithmetic below. *)
LEMMA CountedTypes ==
  ASSUME NEW old \in Batch!Books, NEW s \in HolderShards, NEW t \in Nonced
  PROVE  /\ t \in BatchTokens /\ old.liquidity[s][t] \in Nat /\ Circulates(old.balance, s, t) \in Nat
         /\ \A y \in Holders : old.balance[y][t] \in Nat
<1>1. old.balance \in [Holders -> [BatchTokens -> Nat]] /\ old.liquidity \in [HolderShards -> [Nonced -> Nat]]
      /\ t \in BatchTokens
  BY BooksType, BatchConstants
<1>2. Circulates(old.balance, s, t) \in Nat
  BY <1>1, CirculatesType
<1> QED BY <1>1, <1>2

(* The residents of a shard have as much more as is put there. *)
LEMMA PutCirculates ==
  ASSUME NEW old \in Batch!Books, NEW new, NEW a \in Holders, NEW b \in Holders,
         NEW item \in Batch!Items, IsPut(old, new, a, b, item), NEW s \in HolderShards, NEW t \in Nonced
  PROVE  Circulates(new.balance, s, t)
           = Circulates(old.balance, s, t) + (IF s = ShardOf[b] THEN Worth(item, t) ELSE 0)
<1> DEFINE w == Worth(item, t)
<1>1. w \in Int /\ t \in BatchTokens /\ new \in Batch!Books
  BY ItemType, CountedTypes DEF IsPut
<1>2. Gained(old, new, b, t, w)
  BY <1>1 DEF Gained, IsPut
<1> HIDE DEF w
<1>3. Circulates(new.balance, s, t) = Circulates(old.balance, s, t) + (IF ShardOf[b] = s THEN w ELSE 0)
  BY <1>1, <1>2, CirculatesAfter
<1> QED BY <1>3 DEF w

LEMMA TakeCirculates ==
  ASSUME NEW old \in Batch!Books, NEW new, NEW a \in Holders, NEW b \in Holders,
         NEW item \in Batch!Items, IsTake(old, new, a, b, item), NEW s \in HolderShards, NEW t \in Nonced
  PROVE  Circulates(new.balance, s, t)
           = Circulates(old.balance, s, t) - (IF s = ShardOf[a] THEN Worth(item, t) ELSE 0)
<1> DEFINE w == Worth(item, t)
           d == 0 - w
<1>1. w \in Nat /\ t \in BatchTokens /\ new \in Batch!Books
      /\ \A y \in Holders : new.balance[y][t] = old.balance[y][t] - (IF y = a THEN w ELSE 0)
  BY ItemType, CountedTypes DEF IsTake
<1>2. /\ Circulates(old.balance, s, t) \in Nat /\ \A y \in Holders : old.balance[y][t] \in Nat
  BY CountedTypes
<1> HIDE DEF w
<1>3. Gained(old, new, a, t, d) /\ d \in Int
  BY <1>1, <1>2 DEF Gained
<1> HIDE DEF d
<1>4. Circulates(new.balance, s, t) = Circulates(old.balance, s, t) + (IF ShardOf[a] = s THEN d ELSE 0)
  BY <1>1, <1>3, CirculatesAfter
<1>5. Circulates(new.balance, s, t) = Circulates(old.balance, s, t) - (IF s = ShardOf[a] THEN w ELSE 0)
  BY <1>1, <1>2, <1>4 DEF d
<1> QED BY <1>5 DEF w

(* A batch that comes from another shard adds to the liquidity of this one. *)
LEMMA PutCounted ==
  ASSUME NEW old \in Batch!Books, NEW new, NEW a \in Holders, NEW b \in Holders,
         NEW item \in Batch!Items, IsPut(old, new, a, b, item), ~Together(a, b),
         Counted(old.balance, old.liquidity)
  PROVE  Counted(new.balance, new.liquidity)
<1>2. ASSUME NEW s \in HolderShards, NEW t \in Nonced
      PROVE  new.liquidity[s][t] = Circulates(new.balance, s, t)
  <2>1. old.liquidity[s][t] = Circulates(old.balance, s, t)
    BY DEF Counted
  <2>2. new.liquidity[s][t] = old.liquidity[s][t] + (IF s = ShardOf[b] THEN Worth(item, t) ELSE 0)
    BY DEF IsPut
  <2>3. Circulates(new.balance, s, t)
          = Circulates(old.balance, s, t) + (IF s = ShardOf[b] THEN Worth(item, t) ELSE 0)
    BY PutCirculates
  <2> QED BY <2>1, <2>2, <2>3
<1> QED BY <1>2 DEF Counted

(* One that leaves for another shard takes from it. *)
LEMMA TakeCounted ==
  ASSUME NEW old \in Batch!Books, NEW new, NEW a \in Holders, NEW b \in Holders,
         NEW item \in Batch!Items, IsTake(old, new, a, b, item), ~Together(a, b),
         Counted(old.balance, old.liquidity)
  PROVE  Counted(new.balance, new.liquidity)
<1>2. ASSUME NEW s \in HolderShards, NEW t \in Nonced
      PROVE  new.liquidity[s][t] = Circulates(new.balance, s, t)
  <2>1. old.liquidity[s][t] = Circulates(old.balance, s, t)
    BY DEF Counted
  <2>2. new.liquidity[s][t] = old.liquidity[s][t] - (IF s = ShardOf[a] THEN Worth(item, t) ELSE 0)
    BY DEF IsTake
  <2>3. Circulates(new.balance, s, t)
          = Circulates(old.balance, s, t) - (IF s = ShardOf[a] THEN Worth(item, t) ELSE 0)
    BY TakeCirculates
  <2> QED BY <2>1, <2>2, <2>3
<1> QED BY <1>2 DEF Counted

(* Within a shard the liquidity is not touched, and what is there stays there. *)
LEMMA MoveCounted ==
  ASSUME NEW old \in Batch!Books, NEW mid, NEW new, NEW a \in Holders, NEW b \in Holders,
         NEW item \in Batch!Items, IsTake(old, mid, a, b, item), IsPut(mid, new, a, b, item), Together(a, b),
         Counted(old.balance, old.liquidity)
  PROVE  Counted(new.balance, new.liquidity)
<1>1. mid \in Batch!Books
  BY DEF IsTake
<1>2. ASSUME NEW s \in HolderShards, NEW t \in Nonced
      PROVE  new.liquidity[s][t] = Circulates(new.balance, s, t)
  <2>1. old.liquidity[s][t] = Circulates(old.balance, s, t)
    BY DEF Counted
  <2>2. mid.liquidity[s][t] = old.liquidity[s][t] - 0 /\ new.liquidity[s][t] = mid.liquidity[s][t] + 0
    BY DEF IsTake, IsPut
  <2>3. Circulates(mid.balance, s, t)
          = Circulates(old.balance, s, t) - (IF s = ShardOf[a] THEN Worth(item, t) ELSE 0)
    BY TakeCirculates
  <2>4. Circulates(new.balance, s, t)
          = Circulates(mid.balance, s, t) + (IF s = ShardOf[b] THEN Worth(item, t) ELSE 0)
    BY <1>1, PutCirculates
  <2>5. ShardOf[a] = ShardOf[b]
    BY DEF Together
  <2>6. old.liquidity[s][t] \in Nat /\ Worth(item, t) \in Nat
    BY CountedTypes, ItemType
  <2> QED BY <2>1, <2>2, <2>3, <2>4, <2>5, <2>6
<1> QED BY <1>2 DEF Counted

-----------------------------------------------------------------------------
(* The inductive invariant of a batch.  A call writes to books of its own, so the
   records of a shard are as between two calls while it runs, and what it has in its
   books is what the items so far make of them. *)

MessagesTravel ==
  \A i \in Slots : inflight[i] # NoMessage => ~Together(inflight[i].from, inflight[i].to)

CallStands ==
  \/ slot = NoSlot /\ ~call.ret /\ done = Len(call.items)
  \/ /\ slot \in Slots /\ call = inflight[slot] /\ done <= Len(call.items)
     /\ ~Together(call.from, call.to)

(* What the items so far have taken from x, and put under it. *)
TakenFrom(x, t) == IF slot = NoSlot /\ x = call.from THEN Amount(done, call.items, t) ELSE 0
PutUnder(x, t) ==
  IF (slot # NoSlot \/ Together(call.from, call.to)) /\ x = call.to
    THEN Amount(done, call.items, t) ELSE 0

BalancesBooked ==
  \A x \in Holders, t \in BatchTokens :
    book.balance[x][t] = holdings[x][t] - TakenFrom(x, t) + PutUnder(x, t)

(* A refund is put under a frozen record. *)
ThawedBy(x, t) ==
  /\ slot \in Slots /\ call.ret /\ x = call.to
  /\ \E k \in 1..done : call.items[k].token = t
  /\ book.balance[x][t] >= holdings[x][t]
  /\ <<x, t>> \notin book.frozen => t \in Nonced

FreezeBooked ==
  \A x \in Holders, t \in BatchTokens :
    <<x, t>> \in frozen =>
      \/ <<x, t>> \in book.frozen /\ book.balance[x][t] = holdings[x][t]
      \/ ThawedBy(x, t)

CallSound ==
  /\ call \in Batch!Messages /\ call.from # call.to
  /\ book \in Batch!Books
  /\ Counted(book.balance, book.liquidity)
  /\ CallStands /\ BalancesBooked /\ FreezeBooked

BatchInv ==
  /\ Batch!TypeOK /\ Counted(holdings, liquidity) /\ MessagesTravel
  /\ call # NoMessage => CallSound

LEMMA MessageType ==
  ASSUME NEW m \in Batch!Messages
  PROVE  /\ m = [from |-> m.from, to |-> m.to, items |-> m.items, ret |-> m.ret]
         /\ m.from \in Holders /\ m.to \in Holders /\ m.items \in Batch!Batches /\ m.ret \in BOOLEAN
         /\ m # NoMessage /\ Len(m.items) \in 0..MaxBatch
         /\ \A k \in 1..Len(m.items) : m.items[k] \in Batch!Items
         /\ DOMAIN m.items = 1..Len(m.items)
<1>1. /\ m = [from |-> m.from, to |-> m.to, items |-> m.items, ret |-> m.ret]
      /\ m.from \in Holders /\ m.to \in Holders /\ m.items \in Batch!Batches /\ m.ret \in BOOLEAN
  BY DEF Batch!Messages
<1>2. Len(m.items) \in 0..MaxBatch /\ m.items \in [1..Len(m.items) -> Batch!Items]
  BY <1>1, BatchesAre
<1>3. m # NoMessage
  BY BatchConstants
<1> QED BY <1>1, <1>2, <1>3

LEMMA IsMessage ==
  ASSUME NEW a \in Holders, NEW b \in Holders, NEW q \in Batch!Batches, NEW r \in BOOLEAN
  PROVE  [from |-> a, to |-> b, items |-> q, ret |-> r] \in Batch!Messages
BY DEF Batch!Messages

LEMMA Returned ==
  ASSUME NEW m \in Batch!Messages
  PROVE  LET n == [m EXCEPT !.from = m.to, !.to = m.from, !.ret = TRUE]
         IN /\ n \in Batch!Messages
            /\ n.from = m.to /\ n.to = m.from /\ n.items = m.items /\ n.ret = TRUE
BY DEF Batch!Messages

LEMMA NoItems == <<>> \in Batch!Batches /\ Len(<<>>) = 0
<1>1. <<>> \in [1..0 -> Batch!Items] /\ Len(<<>>) = 0 /\ 0 \in 0..MaxBatch
  BY BatchConstants
<1> QED BY <1>1 DEF Batch!Batches, Batch!BoundedSeq, Batch!SeqOf

LEMMA RecordsType ==
  ASSUME Batch!TypeOK
  PROVE  /\ holdings \in [Holders -> [BatchTokens -> Nat]]
         /\ liquidity \in [HolderShards -> [Nonced -> Nat]]
         /\ frozen \subseteq Freezable
         /\ \A i \in Slots : inflight[i] # NoMessage => inflight[i] \in Batch!Messages
BY DEF Batch!TypeOK

-----------------------------------------------------------------------------
(* Initially *)

LEMMA BatchInvInit == Batch!Init => BatchInv
<1> SUFFICES ASSUME Batch!Init PROVE BatchInv
  OBVIOUS
<1>1. /\ holdings = Start /\ frozen = {} /\ denied = {} /\ inflight = [i \in Slots |-> NoMessage]
      /\ stranded = [t \in BatchTokens |-> 0]
      /\ call = NoMessage /\ slot = NoSlot /\ done = 0 /\ book = NoBook
      /\ liquidity = [s \in HolderShards |-> [t \in Nonced |-> Batch!Circulating(Start, s, t)]]
  BY DEF Batch!Init
<1>2. \A s, t : Batch!Circulating(Start, s, t) = Circulates(Start, s, t)
  BY CirculatingIs
<1>3. \A s \in HolderShards, t \in Nonced : Circulates(Start, s, t) \in Nat
  BY CirculatesType, BatchConstants
<1>4. liquidity \in [HolderShards -> [Nonced -> Nat]]
  BY <1>1, <1>2, <1>3
<1>5. Counted(holdings, liquidity)
  BY <1>1, <1>2 DEF Counted
<1>6. Batch!TypeOK
  BY <1>1, <1>4, BatchConstants DEF Batch!TypeOK
<1>7. MessagesTravel
  BY <1>1 DEF MessagesTravel
<1> QED BY <1>1, <1>5, <1>6, <1>7 DEF BatchInv

-----------------------------------------------------------------------------
(* Between two calls *)

(* A step that runs no call and changes no amount. *)
LEMMA IdleStep ==
  ASSUME BatchInv, Batch!Idle, holdings' = holdings, liquidity' = liquidity,
         frozen' \subseteq Freezable, denied' \subseteq Regulated,
         inflight' \in [Slots -> Batch!Messages \cup {NoMessage}], MessagesTravel',
         stranded' \in [BatchTokens -> Nat]
  PROVE  BatchInv'
<1>1. call = NoMessage /\ call' = call /\ slot' = slot /\ done' = done /\ book' = book
  BY DEF Batch!Idle, Batch!running
<1>2. Batch!TypeOK'
  BY <1>1 DEF BatchInv, Batch!TypeOK
<1>3. Counted(holdings, liquidity)'
  BY DEF BatchInv, Counted, Circulates, Residing
<1> QED BY <1>1, <1>2, <1>3 DEF BatchInv

LEMMA SendBackKeeps ==
  ASSUME BatchInv, NEW i \in Slots, Batch!SendBack(i) PROVE BatchInv'
<1> DEFINE m == inflight[i]
           n == [m EXCEPT !.from = m.to, !.to = m.from, !.ret = TRUE]
<1>1. /\ Batch!Idle /\ m # NoMessage
      /\ inflight' = [inflight EXCEPT ![i] = [@ EXCEPT !.from = m.to, !.to = m.from, !.ret = TRUE]]
      /\ holdings' = holdings /\ liquidity' = liquidity /\ frozen' = frozen
      /\ denied' = denied /\ stranded' = stranded
  BY DEF Batch!SendBack, Batch!accounts
<1>2. m \in Batch!Messages /\ inflight \in [Slots -> Batch!Messages \cup {NoMessage}]
  BY <1>1 DEF BatchInv, Batch!TypeOK
<1>5. n \in Batch!Messages /\ n.from = m.to /\ n.to = m.from
  BY <1>2, Returned
<1>6. inflight' = [inflight EXCEPT ![i] = n]
  BY <1>1
<1>7. ~Together(n.from, n.to)
  BY <1>1, <1>5 DEF BatchInv, MessagesTravel, Together
<1> HIDE DEF n, m
<1>8. inflight' \in [Slots -> Batch!Messages \cup {NoMessage}]
  BY <1>2, <1>5, <1>6
<1>9. MessagesTravel'
  <2> SUFFICES ASSUME NEW j \in Slots, inflight'[j] # NoMessage
               PROVE  ~Together(inflight'[j].from, inflight'[j].to)
    BY DEF MessagesTravel, Together
  <2>1. CASE j = i
    BY <1>2, <1>6, <1>7, <2>1
  <2>2. CASE j # i
    BY <1>2, <1>6, <2>2 DEF BatchInv, MessagesTravel
  <2> QED BY <2>1, <2>2
<1> QED BY <1>1, <1>8, <1>9, IdleStep DEF BatchInv, Batch!TypeOK

LEMMA StrandKeeps ==
  ASSUME BatchInv, NEW i \in Slots, NEW given, Batch!Strand(i, given) PROVE BatchInv'
<1> DEFINE m == inflight[i]
<1>1. /\ Batch!Idle /\ m # NoMessage
      /\ inflight' = [inflight EXCEPT ![i] = NoMessage]
      /\ stranded' = [t \in BatchTokens |-> stranded[t] + Batch!AmountsOf(m.items)[t]]
      /\ holdings' = holdings /\ liquidity' = liquidity /\ frozen' = frozen /\ denied' = denied
  BY DEF Batch!Strand, Batch!accounts
<1>2. /\ m \in Batch!Messages /\ inflight \in [Slots -> Batch!Messages \cup {NoMessage}]
      /\ stranded \in [BatchTokens -> Nat]
  BY <1>1 DEF BatchInv, Batch!TypeOK
<1>3. ASSUME NEW t \in BatchTokens PROVE Batch!AmountsOf(m.items)[t] \in Nat
  <2>1. Batch!AmountsOf(m.items)[t] = Amount(Len(m.items), m.items, t)
    BY AmountIs DEF Batch!AmountsOf
  <2>2. m.items \in Batch!Batches /\ Len(m.items) \in 0..Len(m.items)
    BY <1>2, MessageType
  <2> QED BY <2>1, <2>2, AmountType
<1> HIDE DEF m
<1>4. stranded' \in [BatchTokens -> Nat]
  BY <1>1, <1>2, <1>3
<1>5. inflight' \in [Slots -> Batch!Messages \cup {NoMessage}]
  BY <1>1, <1>2
<1>6. MessagesTravel'
  <2> SUFFICES ASSUME NEW j \in Slots, inflight'[j] # NoMessage
               PROVE  ~Together(inflight'[j].from, inflight'[j].to)
    BY DEF MessagesTravel, Together
  <2>1. j # i /\ inflight'[j] = inflight[j]
    BY <1>1, <1>2
  <2> QED BY <2>1 DEF BatchInv, MessagesTravel
<1> QED BY <1>1, <1>4, <1>5, <1>6, IdleStep DEF BatchInv, Batch!TypeOK

LEMMA OthersKeep ==
  ASSUME BatchInv,
         \/ \E p \in Freezable : Batch!Freeze(p[1], p[2]) \/ Batch!Unfreeze(p[1], p[2])
         \/ \E p \in Regulated : Batch!ChangeStanding(p[1], p[2])
  PROVE  BatchInv'
<1>1. /\ Batch!Idle /\ holdings' = holdings /\ liquidity' = liquidity /\ inflight' = inflight
      /\ stranded' = stranded
  BY DEF Batch!Freeze, Batch!Unfreeze, Batch!ChangeStanding, Batch!accounts
<1>2. frozen' \subseteq Freezable /\ denied' \subseteq Regulated
  <2>0. frozen \subseteq Freezable /\ denied \subseteq Regulated
    BY DEF BatchInv, Batch!TypeOK
  <2>1. Freezable \subseteq Holders \X (BatchTokens \ {Native}) /\ Regulated \subseteq Holders \X BatchTokens
    BY DEF Batch!BatchAssumption
  <2>2. ASSUME NEW p \in Freezable, Batch!Freeze(p[1], p[2]) \/ Batch!Unfreeze(p[1], p[2])
        PROVE  frozen' \subseteq Freezable /\ denied' = denied
    <3>1. p = <<p[1], p[2]>>
      BY <2>1
    <3> QED BY <2>0, <2>2, <3>1 DEF Batch!Freeze, Batch!Unfreeze
  <2>3. ASSUME NEW p \in Regulated, Batch!ChangeStanding(p[1], p[2])
        PROVE  denied' \subseteq Regulated /\ frozen' = frozen
    <3>1. p = <<p[1], p[2]>>
      BY <2>1
    <3> QED BY <2>0, <2>3, <3>1 DEF Batch!ChangeStanding, Batch!accounts
  <2> QED BY <2>0, <2>2, <2>3
<1>3. MessagesTravel'
  BY <1>1 DEF BatchInv, MessagesTravel, Together
<1> QED BY <1>1, <1>2, <1>3, IdleStep DEF BatchInv, Batch!TypeOK

-----------------------------------------------------------------------------
(* A call begins *)

LEMMA BeginKeeps ==
  ASSUME BatchInv, NEW m \in Batch!Messages, m.from # m.to, NEW i, Batch!Begin(m, i),
         \/ i = NoSlot /\ ~m.ret /\ Len(m.items) = 0
         \/ i \in Slots /\ m = inflight[i] /\ ~Together(m.from, m.to)
  PROVE  BatchInv'
<1>1. /\ call' = m /\ slot' = i /\ done' = 0
      /\ book' = [balance |-> holdings, frozen |-> frozen, liquidity |-> liquidity]
      /\ holdings' = holdings /\ frozen' = frozen /\ liquidity' = liquidity
      /\ denied' = denied /\ inflight' = inflight /\ stranded' = stranded
  BY DEF Batch!Begin, Batch!accounts
<1>2. /\ Batch!TypeOK /\ Counted(holdings, liquidity) /\ MessagesTravel
      /\ holdings \in [Holders -> [BatchTokens -> Nat]] /\ frozen \subseteq Freezable
      /\ liquidity \in [HolderShards -> [Nonced -> Nat]]
  BY RecordsType DEF BatchInv
<1>3. book' \in Batch!Books /\ book'.balance = holdings /\ book'.frozen = frozen
      /\ book'.liquidity = liquidity
  BY <1>1, <1>2, IsBook
<1>4. Batch!TypeOK'
  <2>1. 0 \in 0..MaxBatch
    BY BatchConstants
  <2>2. call' \in Batch!Messages \cup {NoMessage} /\ slot' \in Slots \cup {NoSlot}
        /\ done' \in 0..MaxBatch /\ book' \in Batch!Books \cup {NoBook}
    BY <1>1, <1>3, <2>1
  <2> QED BY <1>1, <1>2, <2>2 DEF Batch!TypeOK
<1>5. Counted(holdings, liquidity)' /\ Counted(book.balance, book.liquidity)'
  <2>1. Counted(holdings, liquidity)
    BY <1>2
  <2>2. Counted(holdings, liquidity)'
    BY <1>1, <2>1 DEF Counted, Circulates, Residing
  <2>3. Counted(book.balance, book.liquidity)'
    BY <1>3, <2>1 DEF Counted, Circulates, Residing
  <2> QED BY <2>2, <2>3
<1>6. MessagesTravel'
  BY <1>1, <1>2 DEF MessagesTravel, Together
<1>7. CallStands'
  <2>1. Len(m.items) \in Nat
    BY MessageType
  <2> QED BY <1>1, <2>1 DEF CallStands, Together
<1>8. BalancesBooked'
  <2> SUFFICES ASSUME NEW x \in Holders, NEW t \in BatchTokens
               PROVE  book'.balance[x][t] = holdings'[x][t] - TakenFrom(x, t)' + PutUnder(x, t)'
    BY DEF BalancesBooked
  <2>1. Amount(done, call.items, t)' = 0
    BY <1>1, AmountOfNone
  <2>2. TakenFrom(x, t)' = 0 /\ PutUnder(x, t)' = 0
    BY <2>1 DEF TakenFrom, PutUnder
  <2>3. holdings[x][t] \in Nat
    BY <1>2
  <2> QED BY <1>1, <1>3, <2>2, <2>3
<1>9. FreezeBooked'
  BY <1>1, <1>3 DEF FreezeBooked
<1>10. CallSound'
  BY <1>1, <1>3, <1>5, <1>7, <1>8, <1>9 DEF CallSound
<1> QED BY <1>4, <1>5, <1>6, <1>10 DEF BatchInv

LEMMA SendKeeps ==
  ASSUME BatchInv, NEW a \in Holders, NEW b \in Holders, Batch!Send(a, b) PROVE BatchInv'
<1> DEFINE m == [from |-> a, to |-> b, items |-> <<>>, ret |-> FALSE]
<1>1. m \in Batch!Messages
  BY NoItems, IsMessage
<1>2. m.from = a /\ m.to = b /\ ~m.ret /\ Len(m.items) = 0
  BY NoItems
<1>3. a # b /\ Batch!Begin(m, NoSlot)
  BY DEF Batch!Send
<1> HIDE DEF m
<1> QED BY <1>1, <1>2, <1>3, BeginKeeps

LEMMA ReceiveKeeps ==
  ASSUME BatchInv, NEW i \in Slots, NEW given, Batch!Receive(i, given) PROVE BatchInv'
<1> DEFINE m == inflight[i]
<1>1. m # NoMessage /\ Batch!Begin(m, i)
  BY DEF Batch!Receive
<1>2. m \in Batch!Messages
  BY <1>1, RecordsType DEF BatchInv
<1>3. ~Together(m.from, m.to)
  BY <1>1 DEF BatchInv, MessagesTravel
<1>4. m.from # m.to
  BY <1>3 DEF Together
<1>5. m = inflight[i]
  OBVIOUS
<1> HIDE DEF m
<1> QED BY <1>1, <1>2, <1>3, <1>4, <1>5, BeginKeeps

-----------------------------------------------------------------------------
(* A call ends *)

LEMMA SaveKeeps ==
  ASSUME BatchInv, call # NoMessage, Batch!Save,
         inflight' \in [Slots -> Batch!Messages \cup {NoMessage}], MessagesTravel'
  PROVE  BatchInv'
<1>1. /\ holdings' = book.balance /\ frozen' = book.frozen /\ liquidity' = book.liquidity
      /\ call' = NoMessage /\ slot' = NoSlot /\ done' = 0 /\ book' = NoBook
      /\ denied' = denied /\ stranded' = stranded
  BY DEF Batch!Save, Batch!End
<1>2. book \in Batch!Books /\ Counted(book.balance, book.liquidity)
  BY DEF BatchInv, CallSound
<1>3. holdings' \in [Holders -> [BatchTokens -> Nat]] /\ frozen' \subseteq Freezable
      /\ liquidity' \in [HolderShards -> [Nonced -> Nat]]
  BY <1>1, <1>2, BooksType
<1>4. Batch!TypeOK'
  <2>1. 0 \in 0..MaxBatch
    BY BatchConstants
  <2> QED BY <1>1, <1>3, <2>1 DEF BatchInv, Batch!TypeOK
<1>5. Counted(holdings, liquidity)'
  BY <1>1, <1>2 DEF Counted, Circulates, Residing
<1> QED BY <1>1, <1>4, <1>5 DEF BatchInv

LEMMA TransferInShardKeeps ==
  ASSUME BatchInv, Batch!TransferInShard PROVE BatchInv'
<1>1. call # NoMessage /\ Batch!Save /\ inflight' = inflight
  BY DEF Batch!TransferInShard, Batch!OnSender
<1>2. MessagesTravel'
  BY <1>1 DEF BatchInv, MessagesTravel, Together
<1>3. inflight' \in [Slots -> Batch!Messages \cup {NoMessage}]
  BY <1>1 DEF BatchInv, Batch!TypeOK
<1> QED BY <1>1, <1>2, <1>3, SaveKeeps

LEMMA TransferOutKeeps ==
  ASSUME BatchInv, NEW i \in Slots, Batch!TransferOut(i) PROVE BatchInv'
<1>1. /\ call # NoMessage /\ Batch!Save /\ inflight' = [inflight EXCEPT ![i] = call]
      /\ ~Together(call.from, call.to)
  BY DEF Batch!TransferOut, Batch!OnSender, Batch!Local, Together
<1>2. inflight \in [Slots -> Batch!Messages \cup {NoMessage}] /\ call \in Batch!Messages
  BY <1>1 DEF BatchInv, CallSound, Batch!TypeOK
<1>3. MessagesTravel'
  BY <1>1, <1>2 DEF BatchInv, MessagesTravel, Together
<1>4. inflight' \in [Slots -> Batch!Messages \cup {NoMessage}]
  BY <1>1, <1>2
<1> QED BY <1>1, <1>3, <1>4, SaveKeeps

LEMMA DeliverKeeps ==
  ASSUME BatchInv, Batch!Deliver PROVE BatchInv'
<1>1. /\ call # NoMessage /\ Batch!Save /\ inflight' = [inflight EXCEPT ![slot] = NoMessage]
  BY DEF Batch!Deliver, Batch!OnDestination
<1>2. inflight \in [Slots -> Batch!Messages \cup {NoMessage}]
  BY DEF BatchInv, Batch!TypeOK
<1>3. MessagesTravel'
  BY <1>1, <1>2 DEF BatchInv, MessagesTravel, Together
<1>4. inflight' \in [Slots -> Batch!Messages \cup {NoMessage}]
  BY <1>1, <1>2
<1> QED BY <1>1, <1>3, <1>4, SaveKeeps

LEMMA FailKeeps ==
  ASSUME BatchInv, Batch!Fail PROVE BatchInv'
<1>1. /\ holdings' = holdings /\ frozen' = frozen /\ liquidity' = liquidity
      /\ call' = NoMessage /\ slot' = NoSlot /\ done' = 0 /\ book' = NoBook
      /\ denied' = denied /\ stranded' = stranded /\ inflight' = inflight
  BY DEF Batch!Fail, Batch!End, Batch!accounts
<1>2. Batch!TypeOK'
  <2>1. 0 \in 0..MaxBatch
    BY BatchConstants
  <2> QED BY <1>1, <2>1 DEF BatchInv, Batch!TypeOK
<1>3. Counted(holdings, liquidity)'
  BY <1>1 DEF BatchInv, Counted, Circulates, Residing
<1>4. MessagesTravel'
  BY <1>1 DEF BatchInv, MessagesTravel, Together
<1> QED BY <1>1, <1>2, <1>3, <1>4 DEF BatchInv

LEMMA BatchStutter ==
  ASSUME BatchInv, UNCHANGED batched PROVE BatchInv'
<1>1. /\ holdings' = holdings /\ frozen' = frozen /\ liquidity' = liquidity
      /\ denied' = denied /\ stranded' = stranded /\ inflight' = inflight
      /\ call' = call /\ slot' = slot /\ done' = done /\ book' = book
  BY DEF batched
<1>2. Batch!TypeOK'
  BY <1>1 DEF BatchInv, Batch!TypeOK
<1>3. Counted(holdings, liquidity)' /\ MessagesTravel'
  BY <1>1 DEF BatchInv, Counted, Circulates, Residing, MessagesTravel, Together
<1>4. CallSound => CallSound'
  <2>1. Counted(book.balance, book.liquidity) => Counted(book.balance, book.liquidity)'
    BY <1>1 DEF Counted, Circulates, Residing
  <2>2. CallStands => CallStands'
    BY <1>1 DEF CallStands, Together
  <2>3. BalancesBooked => BalancesBooked'
    BY <1>1 DEF BalancesBooked, TakenFrom, PutUnder, Amount, Together
  <2>4. FreezeBooked => FreezeBooked'
    BY <1>1 DEF FreezeBooked, ThawedBy
  <2> QED BY <1>1, <2>1, <2>2, <2>3, <2>4 DEF CallSound
<1> QED BY <1>1, <1>2, <1>3, <1>4 DEF BatchInv

-----------------------------------------------------------------------------
(* One item *)

LEMMA Longer ==
  ASSUME NEW m \in Batch!Messages, NEW item \in Batch!Items, Len(m.items) < MaxBatch
  PROVE  LET n == [m EXCEPT !.items = Append(@, item)]
         IN /\ n \in Batch!Messages
            /\ n.from = m.from /\ n.to = m.to /\ n.ret = m.ret /\ n.items = Append(m.items, item)
<1> DEFINE q == Append(m.items, item)
<1>1. q \in Batch!Batches
  BY MessageType, BatchGrows
<1> HIDE DEF q
<1>2. [m EXCEPT !.items = q] \in Batch!Messages
  BY <1>1 DEF Batch!Messages
<1>3. LET n == [m EXCEPT !.items = q]
      IN n.from = m.from /\ n.to = m.to /\ n.ret = m.ret /\ n.items = q
  BY DEF Batch!Messages
<1> QED BY <1>2, <1>3 DEF q

LEMMA AmountAppended ==
  ASSUME NEW list \in Batch!Batches, Len(list) < MaxBatch, NEW e \in Batch!Items, NEW t
  PROVE  Amount(Len(list) + 1, Append(list, e), t) = Amount(Len(list), list, t) + Worth(e, t)
<1> DEFINE q == Append(list, e)  n == Len(list)
<1>1. q \in Batch!Batches /\ Len(q) = n + 1 /\ q[n + 1] = e /\ n \in Nat
  BY BatchGrows, BatchesAre
<1>2. Amount(n, q, t) = Amount(n, list, t)
  BY <1>1, AmountKept
<1> HIDE DEF q, n
<1>3. n \in 0..Len(q) /\ n + 1 <= Len(q)
  BY <1>1
<1>4. Amount(n + 1, q, t) = Amount(n, q, t) + Worth(q[n + 1], t)
  BY <1>1, <1>3, AmountGrows
<1> QED BY <1>1, <1>2, <1>4 DEF q, n

LEMMA TransferOneKeeps ==
  ASSUME BatchInv, NEW item \in Batch!Items, Batch!TransferOne(item) PROVE BatchInv'
<1> DEFINE a == call.from  b == call.to  u == item.token
<1>1. /\ call # NoMessage /\ slot = NoSlot /\ done < MaxBatch /\ done' = done + 1
      /\ Batch!MayTransfer(a, b, item)
      /\ call' = [call EXCEPT !.items = Append(@, item)]
      /\ book' = IF Together(a, b) THEN Batch!Put(Batch!Take(a, b, item), a, b, item)
                 ELSE Batch!Take(a, b, item)
      /\ holdings' = holdings /\ frozen' = frozen /\ liquidity' = liquidity
      /\ denied' = denied /\ stranded' = stranded /\ inflight' = inflight /\ slot' = slot
  BY DEF Batch!TransferOne, Batch!OnSender, Batch!accounts, Batch!Local, Together
<1>2. /\ call \in Batch!Messages /\ a \in Holders /\ b \in Holders /\ a # b
      /\ book \in Batch!Books /\ Counted(book.balance, book.liquidity)
      /\ CallStands /\ BalancesBooked /\ FreezeBooked
      /\ Batch!TypeOK /\ Counted(holdings, liquidity) /\ MessagesTravel
  BY <1>1, MessageType DEF BatchInv, CallSound
<1>3. ~call.ret /\ done = Len(call.items) /\ call.items \in Batch!Batches /\ done \in 0..MaxBatch
  BY <1>1, <1>2, BatchConstants, MessageType DEF CallStands
<1>4. /\ Batch!MayTake(a, item) /\ <<a, u>> \notin book.frozen
      /\ Together(a, b) => <<b, u>> \notin book.frozen
  BY <1>1 DEF Batch!MayTransfer, Batch!MayTake, Batch!MayPut, Batch!Local, Together
<1>5. /\ call' \in Batch!Messages /\ call'.from = a /\ call'.to = b /\ call'.ret = call.ret
      /\ call'.items = Append(call.items, item)
  BY <1>1, <1>2, <1>3, Longer
<1>6. IsTake(book, Batch!Take(a, b, item), a, b, item)
  BY <1>2, <1>4, TakeEffect
<1>7. Together(a, b) => IsPut(Batch!Take(a, b, item), book', a, b, item)
  BY <1>1, <1>2, <1>6, PutEffect DEF IsTake
<1>8. ~Together(a, b) => IsTake(book, book', a, b, item)
  BY <1>1, <1>6
<1>9. book' \in Batch!Books
  BY <1>7, <1>8 DEF IsTake, IsPut
<1>10. Counted(book.balance, book.liquidity)'
  <2>1. Counted(book'.balance, book'.liquidity)
    BY <1>2, <1>6, <1>7, <1>8, MoveCounted, TakeCounted
  <2> QED BY <2>1 DEF Counted, Circulates, Residing
<1>11. ASSUME NEW x \in Holders, NEW t \in BatchTokens
       PROVE  /\ Worth(item, t) \in Nat /\ book.balance[x][t] \in Nat
              /\ book'.balance[x][t] = book.balance[x][t] - (IF x = a THEN Worth(item, t) ELSE 0)
                                         + (IF Together(a, b) /\ x = b THEN Worth(item, t) ELSE 0)
  <2>1. Worth(item, t) \in Nat /\ book.balance[x][t] \in Nat
    BY <1>2, ItemType, BooksType
  <2>2. CASE Together(a, b)
    <3> DEFINE mid == Batch!Take(a, b, item)
    <3>1. mid.balance[x][t] = book.balance[x][t] - (IF x = a THEN Worth(item, t) ELSE 0)
      BY <1>6 DEF IsTake
    <3>2. book'.balance[x][t] = mid.balance[x][t] + (IF x = b THEN Worth(item, t) ELSE 0)
      BY <1>7, <2>2 DEF IsPut
    <3> HIDE DEF mid
    <3> QED BY <2>1, <2>2, <3>1, <3>2
  <2>3. CASE ~Together(a, b)
    BY <1>8, <2>1, <2>3 DEF IsTake
  <2> QED BY <2>1, <2>2, <2>3
<1>12. CallStands'
  BY <1>1, <1>3, <1>5, BatchGrows DEF CallStands
<1>13. BalancesBooked'
  <2> SUFFICES ASSUME NEW x \in Holders, NEW t \in BatchTokens
               PROVE  book'.balance[x][t] = holdings'[x][t] - TakenFrom(x, t)' + PutUnder(x, t)'
    BY DEF BalancesBooked
  <2> DEFINE A == Amount(done, call.items, t)
             B == Amount(done', call'.items, t)
             w == Worth(item, t)
  <2>1. B = A + w /\ A \in Nat
    <3>1. Amount(Len(call.items) + 1, Append(call.items, item), t)
            = Amount(Len(call.items), call.items, t) + Worth(item, t)
      BY <1>1, <1>3, AmountAppended
    <3>2. Amount(Len(call.items), call.items, t) \in Nat
      BY <1>3, AmountType, MessageType, <1>2
    <3> QED BY <1>1, <1>3, <1>5, <3>1, <3>2
  <2>2. book.balance[x][t] = holdings[x][t] - TakenFrom(x, t) + PutUnder(x, t)
    BY <1>2 DEF BalancesBooked
  <2>3. /\ TakenFrom(x, t) = IF x = a THEN A ELSE 0
        /\ PutUnder(x, t) = IF Together(a, b) /\ x = b THEN A ELSE 0
        /\ TakenFrom(x, t)' = IF x = a THEN B ELSE 0
        /\ PutUnder(x, t)' = IF Together(a, b) /\ x = b THEN B ELSE 0
    BY <1>1, <1>5 DEF TakenFrom, PutUnder, Together
  <2>4. holdings[x][t] \in Nat /\ holdings' = holdings
    BY <1>1, <1>2, RecordsType
  <2> HIDE DEF A, B, w
  <2>5. w \in Nat /\ book'.balance[x][t]
           = book.balance[x][t] - (IF x = a THEN w ELSE 0) + (IF Together(a, b) /\ x = b THEN w ELSE 0)
    BY <1>11 DEF w
  <2> HIDE DEF a, b
  <2> QED BY <2>1, <2>2, <2>3, <2>4, <2>5
<1>14. FreezeBooked'
  <2> SUFFICES ASSUME NEW x \in Holders, NEW t \in BatchTokens, <<x, t>> \in frozen
               PROVE  <<x, t>> \in book'.frozen /\ book'.balance[x][t] = holdings'[x][t]
    BY <1>1 DEF FreezeBooked
  <2>1. <<x, t>> \in book.frozen /\ book.balance[x][t] = holdings[x][t]
    BY <1>1, <1>2, BatchConstants DEF FreezeBooked, ThawedBy
  <2>2. ~(x = a /\ t = u) /\ (Together(a, b) => ~(x = b /\ t = u))
    BY <1>4, <2>1
  <2>3. book'.balance[x][t] = book.balance[x][t]
    BY <1>11, <2>2 DEF Worth
  <2>4. <<x, t>> \in book'.frozen
    BY <1>6, <1>7, <1>8, <2>1, <2>2 DEF IsTake, IsPut
  <2> QED BY <1>1, <2>1, <2>3, <2>4
<1>15. CallSound'
  BY <1>2, <1>5, <1>9, <1>10, <1>12, <1>13, <1>14 DEF CallSound
<1>16. Batch!TypeOK'
  <2>1. done' \in 0..MaxBatch
    BY <1>1, <1>3, BatchConstants
  <2> QED BY <1>1, <1>2, <1>5, <1>9, <2>1 DEF Batch!TypeOK
<1>17. Counted(holdings, liquidity)' /\ MessagesTravel'
  BY <1>1, <1>2 DEF Counted, Circulates, Residing, MessagesTravel, Together
<1> QED BY <1>15, <1>16, <1>17 DEF BatchInv

LEMMA CreditOneKeeps ==
  ASSUME BatchInv, Batch!CreditOne PROVE BatchInv'
<1> DEFINE a == call.from  b == call.to  item == call.items[done + 1]  u == item.token
<1>1. /\ call # NoMessage /\ slot # NoSlot /\ done < Len(call.items) /\ done' = done + 1
      /\ Batch!MayPut(book.frozen, b, item, call.ret)
      /\ book' = Batch!Put(book, a, b, item)
      /\ holdings' = holdings /\ frozen' = frozen /\ liquidity' = liquidity
      /\ denied' = denied /\ stranded' = stranded /\ inflight' = inflight
      /\ call' = call /\ slot' = slot
  BY DEF Batch!CreditOne, Batch!OnDestination, Batch!accounts
<1>2. /\ call \in Batch!Messages /\ a \in Holders /\ b \in Holders /\ a # b
      /\ book \in Batch!Books /\ Counted(book.balance, book.liquidity)
      /\ CallStands /\ BalancesBooked /\ FreezeBooked
      /\ Batch!TypeOK /\ Counted(holdings, liquidity) /\ MessagesTravel
  BY <1>1, MessageType DEF BatchInv, CallSound
<1>3. /\ slot \in Slots /\ call = inflight[slot] /\ ~Together(a, b)
      /\ call.items \in Batch!Batches /\ Len(call.items) \in 0..MaxBatch
      /\ done \in Nat /\ done + 1 \in 1..Len(call.items)
  <2>1. done \in Nat /\ Len(call.items) \in 0..MaxBatch /\ call.items \in Batch!Batches
    BY <1>2, BatchConstants, MessageType DEF Batch!TypeOK
  <2> QED BY <1>1, <1>2, <2>1 DEF CallStands
<1>4. item \in Batch!Items
  BY <1>2, <1>3, MessageType
<1>5. call.ret \/ <<b, u>> \notin book.frozen
  BY <1>1 DEF Batch!MayPut
<1>6. IsPut(book, book', a, b, item)
  BY <1>1, <1>2, <1>4, PutEffect
<1>7. book' \in Batch!Books
  BY <1>6 DEF IsPut
<1>8. Counted(book.balance, book.liquidity)'
  <2>1. Counted(book'.balance, book'.liquidity)
    BY <1>2, <1>3, <1>4, <1>6, PutCounted
  <2> QED BY <2>1 DEF Counted, Circulates, Residing
<1>9. ASSUME NEW x \in Holders, NEW t \in BatchTokens
      PROVE  /\ Worth(item, t) \in Nat /\ book.balance[x][t] \in Nat
             /\ book'.balance[x][t] = book.balance[x][t] + (IF x = b THEN Worth(item, t) ELSE 0)
  <2>1. Worth(item, t) \in Nat /\ book.balance[x][t] \in Nat
    BY <1>2, <1>4, ItemType, BooksType
  <2> QED BY <1>6, <2>1 DEF IsPut
<1>10. CallStands'
  BY <1>1, <1>3 DEF CallStands, Together
<1>11. BalancesBooked'
  <2> SUFFICES ASSUME NEW x \in Holders, NEW t \in BatchTokens
               PROVE  book'.balance[x][t] = holdings'[x][t] - TakenFrom(x, t)' + PutUnder(x, t)'
    BY DEF BalancesBooked
  <2> DEFINE A == Amount(done, call.items, t)
             B == Amount(done', call'.items, t)
             w == Worth(item, t)
  <2>1. B = A + w /\ A \in Nat
    <3>1. done \in 0..Len(call.items) /\ done + 1 <= Len(call.items)
      BY <1>3
    <3>2. Amount(done + 1, call.items, t) = Amount(done, call.items, t) + Worth(call.items[done + 1], t)
      BY <1>3, <3>1, AmountGrows
    <3>3. Amount(done, call.items, t) \in Nat
      BY <1>3, <3>1, AmountType
    <3> QED BY <1>1, <3>2, <3>3
  <2>2. book.balance[x][t] = holdings[x][t] - TakenFrom(x, t) + PutUnder(x, t)
    BY <1>2 DEF BalancesBooked
  <2>3. /\ TakenFrom(x, t) = 0 /\ PutUnder(x, t) = IF x = b THEN A ELSE 0
        /\ TakenFrom(x, t)' = 0 /\ PutUnder(x, t)' = IF x = b THEN B ELSE 0
    BY <1>1 DEF TakenFrom, PutUnder, Together
  <2>4. holdings[x][t] \in Nat /\ holdings' = holdings
    BY <1>1, <1>2, RecordsType
  <2> HIDE DEF A, B, w
  <2>5. w \in Nat /\ book'.balance[x][t] = book.balance[x][t] + (IF x = b THEN w ELSE 0)
    BY <1>9 DEF w
  <2> HIDE DEF a, b, item
  <2> QED BY <2>1, <2>2, <2>3, <2>4, <2>5
<1>12. FreezeBooked'
  <2> SUFFICES ASSUME NEW x \in Holders, NEW t \in BatchTokens, <<x, t>> \in frozen
               PROVE  \/ <<x, t>> \in book'.frozen /\ book'.balance[x][t] = holdings'[x][t]
                      \/ ThawedBy(x, t)'
    BY <1>1 DEF FreezeBooked
  <2>1. /\ holdings' = holdings /\ holdings[x][t] \in Nat
    BY <1>1, <1>2, RecordsType
  <2>2. \/ <<x, t>> \in book.frozen /\ book.balance[x][t] = holdings[x][t]
        \/ ThawedBy(x, t)
    BY <1>2 DEF FreezeBooked
  <2>3. CASE x = b /\ t = u
    <3>1. call.ret
      BY <1>5, <2>2, <2>3 DEF ThawedBy
    <3>2. book.balance[x][t] >= holdings[x][t]
      BY <1>9, <2>1, <2>2 DEF ThawedBy
    <3>3. book'.balance[x][t] >= holdings[x][t]
      BY <1>9, <2>1, <2>3, <3>2
    <3>4. <<x, t>> \notin book'.frozen => t \in Nonced
      <4>1. t \notin Nonced => book'.frozen = book.frozen
        BY <1>6, <2>3 DEF IsPut
      <4> QED BY <2>2, <4>1 DEF ThawedBy
    <3>5. \E k \in 1..done' : call'.items[k].token = t
      <4>1. done + 1 \in 1..done'
        BY <1>1, <1>3
      <4> QED BY <1>1, <2>3, <4>1
    <3> QED BY <1>1, <1>3, <2>1, <2>3, <3>1, <3>3, <3>4, <3>5 DEF ThawedBy
  <2>4. CASE ~(x = b /\ t = u)
    <3>1. book'.balance[x][t] = book.balance[x][t]
      BY <1>9, <2>4 DEF Worth
    <3>2. <<x, t>> \in book'.frozen <=> <<x, t>> \in book.frozen
      BY <1>6, <2>4 DEF IsPut
    <3>3. 1..done \subseteq 1..done'
      BY <1>1, <1>3
    <3>4. ThawedBy(x, t) => ThawedBy(x, t)'
      BY <1>1, <2>1, <3>1, <3>2, <3>3 DEF ThawedBy
    <3> QED BY <2>1, <2>2, <3>1, <3>2, <3>4
  <2> QED BY <2>3, <2>4
<1>13. CallSound'
  BY <1>1, <1>2, <1>7, <1>8, <1>10, <1>11, <1>12 DEF CallSound
<1>14. Batch!TypeOK'
  <2>1. done' \in 0..MaxBatch
    BY <1>1, <1>3, BatchConstants
  <2> QED BY <1>1, <1>2, <1>7, <2>1 DEF Batch!TypeOK
<1>15. Counted(holdings, liquidity)' /\ MessagesTravel'
  BY <1>1, <1>2 DEF Counted, Circulates, Residing, MessagesTravel, Together
<1> QED BY <1>13, <1>14, <1>15 DEF BatchInv

-----------------------------------------------------------------------------
(* The invariant is inductive. *)
LEMMA BatchInvStep == BatchInv /\ [TokenNext]_tokenVars => BatchInv'
<1> SUFFICES ASSUME BatchInv, [TokenNext]_tokenVars PROVE BatchInv'
  OBVIOUS
<1>1. CASE Batch!Next
  BY <1>1, SendKeeps, TransferOneKeeps, TransferInShardKeeps, CreditOneKeeps, DeliverKeeps, FailKeeps,
     TransferOutKeeps, ReceiveKeeps, SendBackKeeps, StrandKeeps, OthersKeep DEF Batch!Next
<1>2. CASE UNCHANGED batched
  BY <1>2, BatchStutter
<1> QED BY <1>1, <1>2 DEF TokenNext, BatchStep, SettingStep, ListStep, tokenVars

LEMMA BatchInvAlways == TokenSpec => []BatchInv
<1>1. TokenInit => BatchInv
  BY BatchInvInit DEF TokenInit
<1> QED BY <1>1, BatchInvStep, PTL DEF TokenSpec

(* No amount goes below zero, and the liquidity on the system account of a shard is what
   the residents of the shard have: SaveESDTNFTToken and AddToLiquiditySystemAcc agree item
   by item, also when a batch names a nonce several times. *)
THEOREM LiquidityAlwaysCounted == TokenSpec => []LiquidityCounted
<1>1. BatchInv => LiquidityCounted
  BY CirculatingIs DEF BatchInv, Counted, LiquidityCounted, Batch!LiquidityCounted
<1> QED BY <1>1, BatchInvAlways, PTL

(* A refund that is refused is refused by the gate, which denies one of its tokens or is
   not paid for its reads: checkFrozeAndPause and the payability check let a call with
   ReturnCallAfterError pass. *)
THEOREM OnlyTheGateRefusesRefunds == TokenSpec => OnlyTheGateStrands
<1> DEFINE A == \A i \in Slots : \A given \in Gases : Batch!Strand(i, given) =>
       \/ ~Batch!PaysForReads(inflight[i], given)
       \/ \E k \in DOMAIN inflight[i].items :
            <<inflight[i].to, inflight[i].items[k].token>> \in denied
<1>1. A
  <2> SUFFICES ASSUME NEW i \in Slots, NEW given \in Gases, Batch!Strand(i, given),
                      Batch!PaysForReads(inflight[i], given)
               PROVE  \E k \in DOMAIN inflight[i].items :
                        <<inflight[i].to, inflight[i].items[k].token>> \in denied
    OBVIOUS
  <2>1. inflight[i].ret /\ Batch!Refused(inflight[i], given)
    BY DEF Batch!Strand
  <2>2. ~Batch!Admitted(inflight[i], given)
    BY <2>1 DEF Batch!Refused, Batch!MayPut
  <2> QED BY <2>1, <2>2 DEF Batch!Admitted
<1> QED BY <1>1, PTL DEF OnlyTheGateStrands, Batch!OnlyTheGateStrands

-----------------------------------------------------------------------------
(* A frozen record *)

(* A refund with t among its items is delivered to a. *)
Refunded(a, t) ==
  \E i \in Slots :
    /\ inflight[i] # NoMessage /\ inflight[i].ret /\ inflight[i].to = a
    /\ \E k \in DOMAIN inflight[i].items : inflight[i].items[k].token = t
    /\ inflight'[i] = NoMessage

(* What FreezeHolds says of one record. *)
KeptFrozen(a, t) ==
  /\ holdings'[a][t] >= holdings[a][t]
  /\ holdings'[a][t] # holdings[a][t] => Refunded(a, t)
  /\ <<a, t>> \notin frozen' => Batch!Unfreeze(a, t) \/ (t \in Nonced /\ Refunded(a, t))

LEMMA SaveKeepsFrozen ==
  ASSUME BatchInv, call # NoMessage, Batch!Save, NEW a \in Holders, NEW t \in BatchTokens,
         <<a, t>> \in frozen, slot \in Slots => inflight' = [inflight EXCEPT ![slot] = NoMessage]
  PROVE  KeptFrozen(a, t)
<1>1. holdings' = book.balance /\ frozen' = book.frozen
  BY DEF Batch!Save
<1>2. FreezeBooked /\ CallStands /\ call \in Batch!Messages
  BY DEF BatchInv, CallSound
<1>3. holdings[a][t] \in Nat
  BY RecordsType DEF BatchInv
<1>4. CASE <<a, t>> \in book.frozen /\ book.balance[a][t] = holdings[a][t]
  BY <1>1, <1>3, <1>4 DEF KeptFrozen
<1>5. CASE ThawedBy(a, t)
  <2>1. slot \in Slots /\ call = inflight[slot] /\ done <= Len(call.items)
    BY <1>2, <1>5, BatchConstants DEF CallStands, ThawedBy
  <2>2. inflight'[slot] = NoMessage
    BY <2>1 DEF BatchInv, Batch!TypeOK
  <2>3. \E k \in DOMAIN call.items : call.items[k].token = t
    <3>1. PICK k \in 1..done : call.items[k].token = t
      BY <1>5 DEF ThawedBy
    <3>2. done \in 0..MaxBatch /\ MaxBatch \in Nat /\ Len(call.items) \in 0..MaxBatch
          /\ DOMAIN call.items = 1..Len(call.items)
      BY <1>2, MessageType, BatchConstants DEF BatchInv, Batch!TypeOK
    <3>3. k \in DOMAIN call.items
      BY <2>1, <3>2
    <3> QED BY <3>1, <3>3
  <2>4. Refunded(a, t)
    BY <1>5, <2>1, <2>2, <2>3 DEF Refunded, ThawedBy
  <2> QED BY <1>1, <1>5, <2>4 DEF KeptFrozen, ThawedBy
<1> QED BY <1>2, <1>4, <1>5 DEF FreezeBooked

LEMMA FrozenIsKept ==
  ASSUME BatchInv, Batch!Next, NEW a \in Holders, NEW t \in BatchTokens, <<a, t>> \in frozen
  PROVE  KeptFrozen(a, t)
<1>0. holdings[a][t] \in Nat /\ \A p \in Freezable : p = <<p[1], p[2]>>
  BY RecordsType DEF BatchInv, Batch!BatchAssumption
<1>1. ASSUME holdings' = holdings, frozen \subseteq frozen' PROVE KeptFrozen(a, t)
  BY <1>0, <1>1 DEF KeptFrozen
<1>2. ASSUME NEW b \in Holders, NEW c \in Holders, Batch!Send(b, c) PROVE KeptFrozen(a, t)
  BY <1>1, <1>2 DEF Batch!Send, Batch!Begin, Batch!accounts
<1>3. ASSUME NEW item \in Batch!Items, Batch!TransferOne(item) PROVE KeptFrozen(a, t)
  BY <1>1, <1>3 DEF Batch!TransferOne, Batch!accounts
<1>4. CASE Batch!TransferInShard
  BY <1>4, BatchConstants, SaveKeepsFrozen DEF Batch!TransferInShard, Batch!OnSender
<1>5. CASE Batch!CreditOne
  BY <1>1, <1>5 DEF Batch!CreditOne, Batch!accounts
<1>6. CASE Batch!Deliver
  BY <1>6, SaveKeepsFrozen DEF Batch!Deliver, Batch!OnDestination
<1>7. CASE Batch!Fail
  BY <1>1, <1>7 DEF Batch!Fail, Batch!accounts
<1>8. ASSUME NEW i \in Slots, Batch!TransferOut(i) PROVE KeptFrozen(a, t)
  BY <1>8, BatchConstants, SaveKeepsFrozen DEF Batch!TransferOut, Batch!OnSender
<1>9. ASSUME NEW i \in Slots, NEW given, Batch!Receive(i, given) PROVE KeptFrozen(a, t)
  BY <1>1, <1>9 DEF Batch!Receive, Batch!Begin, Batch!accounts
<1>10. ASSUME NEW i \in Slots, Batch!SendBack(i) PROVE KeptFrozen(a, t)
  BY <1>1, <1>10 DEF Batch!SendBack, Batch!accounts
<1>11. ASSUME NEW i \in Slots, NEW given, Batch!Strand(i, given) PROVE KeptFrozen(a, t)
  BY <1>1, <1>11 DEF Batch!Strand, Batch!accounts
<1>12. ASSUME NEW p \in Freezable, Batch!Freeze(p[1], p[2]) PROVE KeptFrozen(a, t)
  BY <1>1, <1>12 DEF Batch!Freeze
<1>13. ASSUME NEW p \in Freezable, Batch!Unfreeze(p[1], p[2]) PROVE KeptFrozen(a, t)
  <2>1. frozen' = frozen \ {<<p[1], p[2]>>} /\ holdings' = holdings
    BY <1>13 DEF Batch!Unfreeze
  <2>2. <<a, t>> \notin frozen' => a = p[1] /\ t = p[2]
    BY <2>1
  <2> QED BY <1>0, <1>13, <2>1, <2>2 DEF KeptFrozen
<1>14. ASSUME NEW p \in Regulated, Batch!ChangeStanding(p[1], p[2]) PROVE KeptFrozen(a, t)
  BY <1>1, <1>14 DEF Batch!ChangeStanding, Batch!accounts
<1> QED BY <1>2, <1>3, <1>4, <1>5, <1>6, <1>7, <1>8, <1>9, <1>10, <1>11, <1>12, <1>13, <1>14 DEF Batch!Next

FreezeStep ==
  \A p \in frozen :
    LET a == p[1]  t == p[2]
        refunded == \E i \in Slots :
          /\ inflight[i] # NoMessage /\ inflight[i].ret /\ inflight[i].to = a
          /\ \E k \in DOMAIN inflight[i].items : inflight[i].items[k].token = t
          /\ inflight'[i] = NoMessage
    IN /\ holdings'[a][t] >= holdings[a][t]
       /\ holdings'[a][t] # holdings[a][t] => refunded
       /\ p \notin frozen' => (Batch!Unfreeze(a, t) \/ (t \in Nonced /\ refunded))

(* A record that is frozen keeps its amount and stays frozen until it is unfrozen or a
   refund is put under it. *)
THEOREM FreezeAlwaysHolds == TokenSpec => FreezeHolds
<1>1. ASSUME BatchInv, Batch!Next PROVE FreezeStep
  <2> SUFFICES ASSUME NEW p \in frozen PROVE KeptFrozen(p[1], p[2]) /\ p = <<p[1], p[2]>>
    BY DEF FreezeStep, KeptFrozen, Refunded
  <2>1. p = <<p[1], p[2]>> /\ p[1] \in Holders /\ p[2] \in BatchTokens
    <3>1. frozen \subseteq Freezable
      BY <1>1 DEF BatchInv, Batch!TypeOK
    <3>2. p \in Holders \X (BatchTokens \ {Native})
      BY <3>1, BatchConstants
    <3> QED BY <3>2
  <2>2. <<p[1], p[2]>> \in frozen
    BY <2>1
  <2> QED BY <1>1, <2>1, <2>2, FrozenIsKept
<1>2. BatchInv /\ [TokenNext]_tokenVars => [FreezeStep]_(Batch!vars)
  BY <1>1 DEF TokenNext, BatchStep, SettingStep, ListStep, tokenVars, batched, Batch!vars, Batch!accounts, Batch!running
<1>3. FreezeHolds <=> [][FreezeStep]_(Batch!vars)
  BY DEF FreezeHolds, Batch!FreezeHolds, FreezeStep
<1> QED BY <1>2, <1>3, BatchInvAlways, PTL DEF TokenSpec

-----------------------------------------------------------------------------
(* Batches are whole: each step of a batch is a step of BatchBook or none *)

(* A message as BatchBook sees it. *)
FlightOf(m) ==
  IF m = NoMessage THEN NoMessage
  ELSE [from |-> m.from, to |-> m.to, amount |-> Batch!AmountsOf(m.items)]
Flight == [i \in Slots |-> FlightOf(inflight[i])]

(* The steps of the book, with the flight spelt out. *)
LEMMA ArriveIs ==
  ASSUME NEW i
  PROVE Batch!Whole!Arrive(i) <=>
       /\ Flight[i] # NoMessage
       /\ holdings' = [holdings EXCEPT ![Flight[i].to] = Batch!Whole!Plus(@, Flight[i].amount)]
       /\ Flight' = [Flight EXCEPT ![i] = NoMessage] /\ UNCHANGED stranded
BY Zenon DEF Batch!Whole!Arrive, Flight, FlightOf

LEMMA TurnIs ==
  ASSUME NEW i
  PROVE Batch!Whole!Turn(i) <=>
       /\ Flight[i] # NoMessage
       /\ Flight' = [Flight EXCEPT ![i] = [@ EXCEPT !.from = Flight[i].to, !.to = Flight[i].from]]
       /\ UNCHANGED <<holdings, stranded>>
BY Zenon DEF Batch!Whole!Turn, Flight, FlightOf

LEMMA LoseIs ==
  ASSUME NEW i
  PROVE Batch!Whole!Lose(i) <=>
       /\ Flight[i] # NoMessage
       /\ stranded' = Batch!Whole!Plus(stranded, Flight[i].amount)
       /\ Flight' = [Flight EXCEPT ![i] = NoMessage] /\ UNCHANGED holdings
BY Zenon DEF Batch!Whole!Lose, Flight, FlightOf

LEMMA MoveIs ==
  ASSUME NEW a, NEW b
  PROVE Batch!Whole!Move(a, b) <=>
       /\ a # b /\ Batch!Whole!Gives(a)
       /\ holdings' = [holdings EXCEPT ![a] = Batch!Whole!Minus(@, Batch!Whole!Given(a)),
                                       ![b] = Batch!Whole!Plus(@, Batch!Whole!Given(a))]
       /\ Flight' = Flight /\ stranded' = stranded
BY Zenon DEF Batch!Whole!Move, Flight, FlightOf

LEMMA DepartIs ==
  ASSUME NEW a, NEW b, NEW i
  PROVE Batch!Whole!Depart(a, b, i) <=>
       /\ a # b /\ Batch!Whole!Gives(a) /\ Flight[i] = NoMessage
       /\ holdings' = [holdings EXCEPT ![a] = Batch!Whole!Minus(@, Batch!Whole!Given(a))]
       /\ Flight' = [Flight EXCEPT ![i] = [from |-> a, to |-> b, amount |-> Batch!Whole!Given(a)]]
       /\ stranded' = stranded
BY Zenon DEF Batch!Whole!Depart, Flight, FlightOf

(* What the items of a batch come to. *)
Sum(list) == [t \in BatchTokens |-> Amount(Len(list), list, t)]

LEMMA SumIs ==
  ASSUME NEW list \in Batch!Batches
  PROVE  Batch!AmountsOf(list) = Sum(list) /\ Sum(list) \in [BatchTokens -> Nat]
<1>1. \A t : Batch!InFirst(Len(list), list, t) = Amount(Len(list), list, t)
  BY AmountIs
<1>2. Len(list) \in 0..Len(list)
  BY BatchesAre
<1>3. \A t \in BatchTokens : Amount(Len(list), list, t) \in Nat
  BY <1>2, AmountType
<1> QED BY <1>1, <1>3 DEF Batch!AmountsOf, Sum

LEMMA FlightIs ==
  ASSUME NEW m \in Batch!Messages
  PROVE  /\ FlightOf(m) = [from |-> m.from, to |-> m.to, amount |-> Sum(m.items)]
         /\ FlightOf(m).from = m.from /\ FlightOf(m).to = m.to /\ FlightOf(m).amount = Sum(m.items)
         /\ FlightOf(m) # NoMessage
<1>1. /\ m # NoMessage /\ m.from \in Holders /\ m.to \in Holders
      /\ Batch!AmountsOf(m.items) = Sum(m.items) /\ Sum(m.items) \in [BatchTokens -> Nat]
  BY MessageType, SumIs
<1>2. FlightOf(m) = [from |-> m.from, to |-> m.to, amount |-> Sum(m.items)]
  BY <1>1 DEF FlightOf
<1>3. [from |-> m.from, to |-> m.to, amount |-> Sum(m.items)] \in Batch!Amounted
  BY <1>1 DEF Batch!Amounted
<1> QED BY <1>2, <1>3, BatchConstants

LEMMA NoFlight == FlightOf(NoMessage) = NoMessage
BY DEF FlightOf

(* The flight follows the messages. *)
LEMMA FlightChange ==
  ASSUME BatchInv, NEW i \in Slots, NEW m, inflight' = [inflight EXCEPT ![i] = m]
  PROVE  Flight' = [Flight EXCEPT ![i] = FlightOf(m)]
<1>1. inflight \in [Slots -> Batch!Messages \cup {NoMessage}]
  BY DEF BatchInv, Batch!TypeOK
<1>2. Flight' = [j \in Slots |-> FlightOf(inflight'[j])]
  BY DEF Flight, FlightOf, Batch!AmountsOf, Batch!InFirst
<1>3. \A j \in Slots : inflight'[j] = IF j = i THEN m ELSE inflight[j]
  BY <1>1
<1>4. Flight = [j \in Slots |-> FlightOf(inflight[j])]
  BY DEF Flight
<1> QED BY <1>2, <1>3, <1>4

LEMMA FlightStays ==
  ASSUME inflight' = inflight PROVE Flight' = Flight
BY DEF Flight, FlightOf

LEMMA FlightAt ==
  ASSUME NEW i \in Slots PROVE Flight[i] = FlightOf(inflight[i])
BY DEF Flight

(* Between two calls *)
LEMMA SendBackTurns ==
  ASSUME BatchInv, NEW i \in Slots, Batch!SendBack(i) PROVE Batch!Whole!Turn(i)
<1> DEFINE m == inflight[i]
           n == [m EXCEPT !.from = m.to, !.to = m.from, !.ret = TRUE]
           f == FlightOf(m)
           g == [f EXCEPT !.from = f.to, !.to = f.from]
<1>1. /\ m # NoMessage /\ inflight' = [inflight EXCEPT ![i] = n]
      /\ holdings' = holdings /\ stranded' = stranded
  BY DEF Batch!SendBack, Batch!accounts
<1>2. m \in Batch!Messages
  BY <1>1, RecordsType DEF BatchInv
<1>3. n \in Batch!Messages /\ n.from = m.to /\ n.to = m.from /\ n.items = m.items
  BY <1>2, Returned
<1>4. f = [from |-> m.from, to |-> m.to, amount |-> Sum(m.items)] /\ f # NoMessage
      /\ f.from = m.from /\ f.to = m.to
  BY <1>2, FlightIs
<1>5. FlightOf(n) = [from |-> m.to, to |-> m.from, amount |-> Sum(m.items)]
  BY <1>3, FlightIs
<1>6. g = [from |-> m.to, to |-> m.from, amount |-> Sum(m.items)]
  <2> DEFINE a == m.from  b == m.to  q == Sum(m.items)
  <2>1. f = [from |-> a, to |-> b, amount |-> q] /\ g = [[f EXCEPT !.from = b] EXCEPT !.to = a]
    BY <1>4
  <2> HIDE DEF a, b, q, f, g
  <2>2. g = [from |-> b, to |-> a, amount |-> q]
    BY <2>1
  <2> QED BY <2>2 DEF a, b, q
<1>7. Flight[i] = f
  BY FlightAt
<1>8. Flight' = [Flight EXCEPT ![i] = FlightOf(n)]
  BY <1>1, FlightChange
<1>9. Flight' = [Flight EXCEPT ![i] = [Flight[i] EXCEPT !.from = Flight[i].to, !.to = Flight[i].from]]
  BY <1>5, <1>6, <1>7, <1>8
<1> HIDE DEF f, g, m, n
<1> QED BY <1>1, <1>4, <1>7, <1>9, TurnIs

LEMMA StrandLoses ==
  ASSUME BatchInv, NEW i \in Slots, NEW given, Batch!Strand(i, given) PROVE Batch!Whole!Lose(i)
<1> DEFINE m == inflight[i]
           f == FlightOf(m)
<1>1. /\ m # NoMessage /\ inflight' = [inflight EXCEPT ![i] = NoMessage]
      /\ stranded' = [t \in BatchTokens |-> stranded[t] + Batch!AmountsOf(m.items)[t]]
      /\ holdings' = holdings
  BY DEF Batch!Strand, Batch!accounts
<1>2. m \in Batch!Messages
  BY <1>1, RecordsType DEF BatchInv
<1>3. f # NoMessage /\ f.amount = Sum(m.items) /\ Batch!AmountsOf(m.items) = Sum(m.items)
  BY <1>2, FlightIs, SumIs, MessageType
<1>4. Flight[i] = f
  BY FlightAt
<1>5. Flight' = [Flight EXCEPT ![i] = NoMessage]
  BY <1>1, FlightChange, NoFlight
<1>6. stranded' = Batch!Whole!Plus(stranded, Flight[i].amount)
  BY <1>1, <1>3, <1>4 DEF Batch!Whole!Plus
<1> HIDE DEF f, m
<1> QED BY <1>1, <1>3, <1>4, <1>5, <1>6, LoseIs

(* At the end of a call *)
LEMMA CallIs ==
  ASSUME BatchInv, call # NoMessage, Batch!Save
  PROVE  /\ call \in Batch!Messages /\ call.from \in Holders /\ call.to \in Holders
         /\ call.from # call.to /\ CallStands /\ BalancesBooked
         /\ holdings' = book.balance /\ stranded' = stranded
         /\ holdings \in [Holders -> [BatchTokens -> Nat]]
         /\ holdings' \in [Holders -> [BatchTokens -> Nat]]
         /\ Sum(call.items) \in [BatchTokens -> Nat]
<1>1. CallSound
  BY DEF BatchInv
<1>2. book \in Batch!Books
  BY <1>1 DEF CallSound
<1> QED BY <1>1, <1>2, BooksType, MessageType, SumIs, RecordsType DEF CallSound, BatchInv, Batch!Save

LEMMA BookedAre ==
  ASSUME BatchInv, call # NoMessage, Batch!Save, done = Len(call.items),
         NEW x \in Holders, NEW t \in BatchTokens
  PROVE  holdings'[x][t] = holdings[x][t]
           - (IF slot = NoSlot /\ x = call.from THEN Sum(call.items)[t] ELSE 0)
           + (IF (slot # NoSlot \/ Together(call.from, call.to)) /\ x = call.to
                THEN Sum(call.items)[t] ELSE 0)
<1>1. holdings'[x][t] = holdings[x][t] - TakenFrom(x, t) + PutUnder(x, t)
  BY CallIs DEF BalancesBooked
<1>2. Sum(call.items)[t] = Amount(done, call.items, t)
  BY DEF Sum
<1> QED BY <1>1, <1>2 DEF TakenFrom, PutUnder

(* The sender's part. *)
LEMMA SenderGives ==
  ASSUME BatchInv, call # NoMessage, Batch!Save, done = Len(call.items), slot = NoSlot
  PROVE  /\ Batch!Whole!Given(call.from) = Sum(call.items)
         /\ Batch!Whole!Gives(call.from)
<1> DEFINE a == call.from  b == call.to  d == Sum(call.items)  h == holdings  g == holdings'
<1>1. a \in Holders /\ a # b /\ d \in [BatchTokens -> Nat]
      /\ h \in [Holders -> [BatchTokens -> Nat]] /\ g \in [Holders -> [BatchTokens -> Nat]]
  BY CallIs
<1>2. ASSUME NEW t \in BatchTokens
      PROVE  g[a][t] = h[a][t] - d[t] /\ d[t] \in Nat /\ g[a][t] \in Nat /\ h[a][t] \in Nat
  <2>1. g[a][t] = h[a][t] - d[t] + 0
    BY <1>1, BookedAre
  <2>2. d[t] \in Nat /\ g[a][t] \in Nat /\ h[a][t] \in Nat
    BY <1>1
  <2> HIDE DEF a, d, h, g
  <2> QED BY <2>1, <2>2
<1>3. Batch!Whole!Given(a) = [t \in BatchTokens |-> h[a][t] - g[a][t]]
  BY DEF Batch!Whole!Given, Batch!Whole!Minus
<1>4. Batch!Whole!Gives(a) <=> \A t \in BatchTokens : Batch!Whole!Given(a)[t] \in 0..h[a][t]
  BY DEF Batch!Whole!Gives
<1> HIDE DEF a, d, h, g
<1>5. ASSUME NEW t \in BatchTokens PROVE h[a][t] - g[a][t] = d[t] /\ d[t] \in 0..h[a][t]
  BY <1>2
<1>6. Batch!Whole!Given(a) = d
  BY <1>1, <1>3, <1>5
<1>7. Batch!Whole!Gives(a)
  BY <1>4, <1>5, <1>6
<1> QED BY <1>6, <1>7 DEF a, d

LEMMA TransferMoves ==
  ASSUME BatchInv, Batch!TransferInShard PROVE Batch!Whole!Move(call.from, call.to)
<1> DEFINE a == call.from  b == call.to  d == Sum(call.items)  h == holdings  g == holdings'
<1>1. /\ call # NoMessage /\ Batch!Save /\ slot = NoSlot /\ inflight' = inflight /\ Together(a, b)
  BY DEF Batch!TransferInShard, Batch!OnSender, Batch!Local, Together
<1>2. /\ a \in Holders /\ b \in Holders /\ a # b /\ d \in [BatchTokens -> Nat]
      /\ h \in [Holders -> [BatchTokens -> Nat]] /\ g \in [Holders -> [BatchTokens -> Nat]]
      /\ stranded' = stranded /\ done = Len(call.items)
  BY <1>1, CallIs, BatchConstants DEF CallStands
<1>3. Batch!Whole!Given(a) = d /\ Batch!Whole!Gives(a)
  BY <1>1, <1>2, SenderGives
<1>4. \A x \in Holders, t \in BatchTokens :
        g[x][t] = h[x][t] - (IF x = a THEN d[t] ELSE 0) + (IF x = b THEN d[t] ELSE 0)
  BY <1>1, <1>2, BookedAre
<1>5. Batch!Whole!Minus(h[a], d) = [t \in BatchTokens |-> h[a][t] - d[t]]
      /\ Batch!Whole!Plus(h[b], d) = [t \in BatchTokens |-> h[b][t] + d[t]]
  BY DEF Batch!Whole!Minus, Batch!Whole!Plus
<1> DEFINE P == Batch!Whole!Minus(h[a], d)  Q == Batch!Whole!Plus(h[b], d)
<1>6. g = [h EXCEPT ![a] = P, ![b] = Q]
  <2> HIDE DEF a, b, d, h, g
  <2>1. ASSUME NEW x \in Holders PROVE g[x] = IF x = b THEN Q ELSE IF x = a THEN P ELSE h[x]
    <3>1. g[x] \in [BatchTokens -> Nat] /\ h[x] \in [BatchTokens -> Nat]
      BY <1>2
    <3>2. \A t \in BatchTokens : h[x][t] \in Nat /\ d[t] \in Nat
      BY <1>2, <3>1
    <3>3. CASE x = a
      <4>1. \A t \in BatchTokens : g[x][t] = P[t]
        BY <1>2, <1>4, <1>5, <3>2, <3>3
      <4> QED BY <1>2, <1>5, <3>1, <3>3, <4>1
    <3>4. CASE x = b
      <4>1. \A t \in BatchTokens : g[x][t] = Q[t]
        BY <1>2, <1>4, <1>5, <3>2, <3>4
      <4> QED BY <1>2, <1>5, <3>1, <3>4, <4>1
    <3>5. CASE x # a /\ x # b
      <4>1. \A t \in BatchTokens : g[x][t] = h[x][t]
        BY <1>4, <3>2, <3>5
      <4> QED BY <3>1, <3>5, <4>1
    <3> QED BY <1>2, <3>3, <3>4, <3>5
  <2> HIDE DEF P, Q
  <2> QED BY <1>2, <2>1
<1>7. holdings' = [holdings EXCEPT ![a] = Batch!Whole!Minus(@, Batch!Whole!Given(a)),
                                   ![b] = Batch!Whole!Plus(@, Batch!Whole!Given(a))]
  <2>1. /\ P = Batch!Whole!Minus(holdings[a], Batch!Whole!Given(a))
        /\ Q = Batch!Whole!Plus(holdings[b], Batch!Whole!Given(a))
    BY <1>3
  <2>2. [holdings EXCEPT ![a] = P][b] = holdings[b]
    BY <1>2
  <2> HIDE DEF P, Q, a, b, d
  <2> QED BY <1>6, <2>1, <2>2 DEF g, h
<1>8. Flight' = Flight
  BY <1>1, FlightStays
<1> HIDE DEF a, b, d, P, Q
<1>9. Batch!Whole!Move(a, b)
  BY <1>2, <1>3, <1>7, <1>8, MoveIs
<1> QED BY <1>9 DEF a, b

LEMMA TransferDeparts ==
  ASSUME BatchInv, NEW i \in Slots, Batch!TransferOut(i)
  PROVE  Batch!Whole!Depart(call.from, call.to, i)
<1> DEFINE a == call.from  b == call.to  d == Sum(call.items)  h == holdings  g == holdings'
<1>1. /\ call # NoMessage /\ Batch!Save /\ slot = NoSlot /\ inflight' = [inflight EXCEPT ![i] = call]
      /\ inflight[i] = NoMessage /\ ~Together(a, b)
  BY DEF Batch!TransferOut, Batch!OnSender, Batch!Local, Together
<1>2. /\ a \in Holders /\ b \in Holders /\ a # b /\ d \in [BatchTokens -> Nat]
      /\ h \in [Holders -> [BatchTokens -> Nat]] /\ g \in [Holders -> [BatchTokens -> Nat]]
      /\ stranded' = stranded /\ done = Len(call.items) /\ call \in Batch!Messages
  BY <1>1, CallIs, BatchConstants DEF CallStands
<1>3. Batch!Whole!Given(a) = d /\ Batch!Whole!Gives(a)
  BY <1>1, <1>2, SenderGives
<1>4. \A x \in Holders, t \in BatchTokens : g[x][t] = h[x][t] - (IF x = a THEN d[t] ELSE 0) + 0
  BY <1>1, <1>2, BookedAre
<1>5. Batch!Whole!Minus(h[a], d) = [t \in BatchTokens |-> h[a][t] - d[t]]
  BY DEF Batch!Whole!Minus
<1> DEFINE P == Batch!Whole!Minus(h[a], d)
<1>6. g = [h EXCEPT ![a] = P]
  <2> HIDE DEF a, b, d, h, g
  <2>1. ASSUME NEW x \in Holders PROVE g[x] = IF x = a THEN P ELSE h[x]
    <3>1. g[x] \in [BatchTokens -> Nat] /\ h[x] \in [BatchTokens -> Nat]
      BY <1>2
    <3>2. \A t \in BatchTokens : h[x][t] \in Nat /\ d[t] \in Nat
      BY <1>2, <3>1
    <3>3. CASE x = a
      <4>1. \A t \in BatchTokens : g[x][t] = P[t]
        BY <1>2, <1>4, <1>5, <3>2, <3>3
      <4> QED BY <1>2, <1>5, <3>1, <3>3, <4>1
    <3>5. CASE x # a
      <4>1. \A t \in BatchTokens : g[x][t] = h[x][t]
        BY <1>4, <3>2, <3>5
      <4> QED BY <3>1, <3>5, <4>1
    <3> QED BY <3>3, <3>5
  <2> HIDE DEF P
  <2> QED BY <1>2, <2>1
<1>7. holdings' = [holdings EXCEPT ![a] = Batch!Whole!Minus(@, Batch!Whole!Given(a))]
  <2>1. P = Batch!Whole!Minus(holdings[a], Batch!Whole!Given(a))
    BY <1>3
  <2> HIDE DEF P, a, b, d
  <2> QED BY <1>6, <2>1 DEF g, h
<1>8. Flight' = [Flight EXCEPT ![i] = [from |-> a, to |-> b, amount |-> Batch!Whole!Given(a)]]
  <2>1. Flight' = [Flight EXCEPT ![i] = FlightOf(call)]
    BY <1>1, FlightChange
  <2>2. FlightOf(call) = [from |-> a, to |-> b, amount |-> d]
    BY <1>2, FlightIs
  <2> HIDE DEF a, b, d
  <2> QED BY <1>3, <2>1, <2>2
<1>9. Flight[i] = NoMessage
  BY <1>1, FlightAt, NoFlight
<1> HIDE DEF a, b, d, P
<1>10. Batch!Whole!Depart(a, b, i)
  BY <1>2, <1>3, <1>7, <1>8, <1>9, DepartIs
<1> QED BY <1>10 DEF a, b

LEMMA DeliverArrives ==
  ASSUME BatchInv, Batch!Deliver PROVE \E i \in Slots : Batch!Whole!Arrive(i)
<1> DEFINE b == call.to  d == Sum(call.items)  h == holdings  g == holdings'
<1>1. /\ call # NoMessage /\ Batch!Save /\ slot # NoSlot /\ done = Len(call.items)
      /\ inflight' = [inflight EXCEPT ![slot] = NoMessage]
  BY DEF Batch!Deliver, Batch!OnDestination
<1>2. /\ b \in Holders /\ d \in [BatchTokens -> Nat]
      /\ h \in [Holders -> [BatchTokens -> Nat]] /\ g \in [Holders -> [BatchTokens -> Nat]]
      /\ stranded' = stranded /\ call \in Batch!Messages
  BY <1>1, CallIs
<1>3. slot \in Slots /\ inflight[slot] = call
  BY <1>1, CallIs DEF CallStands
<1>4. \A x \in Holders, t \in BatchTokens : g[x][t] = h[x][t] - 0 + (IF x = b THEN d[t] ELSE 0)
  BY <1>1, BookedAre
<1>5. Batch!Whole!Plus(h[b], d) = [t \in BatchTokens |-> h[b][t] + d[t]]
  BY DEF Batch!Whole!Plus
<1> DEFINE Q == Batch!Whole!Plus(h[b], d)
<1>6. g = [h EXCEPT ![b] = Q]
  <2> HIDE DEF b, d, h, g
  <2>1. ASSUME NEW x \in Holders PROVE g[x] = IF x = b THEN Q ELSE h[x]
    <3>1. g[x] \in [BatchTokens -> Nat] /\ h[x] \in [BatchTokens -> Nat]
      BY <1>2
    <3>2. \A t \in BatchTokens : h[x][t] \in Nat /\ d[t] \in Nat
      BY <1>2, <3>1
    <3>3. CASE x = b
      <4>1. \A t \in BatchTokens : g[x][t] = Q[t]
        BY <1>2, <1>4, <1>5, <3>2, <3>3
      <4> QED BY <1>2, <1>5, <3>1, <3>3, <4>1
    <3>5. CASE x # b
      <4>1. \A t \in BatchTokens : g[x][t] = h[x][t]
        BY <1>4, <3>2, <3>5
      <4> QED BY <3>1, <3>5, <4>1
    <3> QED BY <3>3, <3>5
  <2> HIDE DEF Q
  <2> QED BY <1>2, <2>1
<1>7. Flight[slot].to = b /\ Flight[slot].amount = d /\ Flight[slot] # NoMessage
  BY <1>2, <1>3, FlightAt, FlightIs
<1>8. Flight' = [Flight EXCEPT ![slot] = NoMessage]
  BY <1>1, <1>3, FlightChange, NoFlight
<1>9. holdings' = [holdings EXCEPT ![Flight[slot].to] = Batch!Whole!Plus(@, Flight[slot].amount)]
  <2>1. Q = Batch!Whole!Plus(holdings[b], d)
    OBVIOUS
  <2> HIDE DEF Q, b, d
  <2> QED BY <1>6, <1>7, <2>1 DEF g, h
<1> HIDE DEF b, d, Q
<1>10. Flight[slot] # NoMessage /\ UNCHANGED stranded
  BY <1>2, <1>7
<1>11. PICK i \in Slots : i = slot
  BY <1>3
<1>12. Batch!Whole!Arrive(i)
  BY <1>8, <1>9, <1>10, <1>11, ArriveIs
<1> QED BY <1>12

LEMMA BookInit == Batch!Init => Batch!Whole!Init
<1> SUFFICES ASSUME Batch!Init PROVE Batch!Whole!Init
  OBVIOUS
<1>1. holdings \in [Holders -> [BatchTokens -> Nat]]
  BY BatchConstants DEF Batch!Init
<1>2. \A i \in Slots : inflight[i] = NoMessage
  BY DEF Batch!Init
<1>3. stranded = [t \in BatchTokens |-> 0]
  BY DEF Batch!Init
<1> QED BY <1>1, <1>2, <1>3 DEF Batch!Whole!Init

LEMMA BookStutter ==
  ASSUME holdings' = holdings, inflight' = inflight, stranded' = stranded
  PROVE  UNCHANGED Batch!Whole!vars
BY DEF Batch!Whole!vars, Batch!AmountsOf, Batch!InFirst

LEMMA StepIsWhole ==
  ASSUME BatchInv, Batch!Next PROVE Batch!Whole!Next \/ UNCHANGED Batch!Whole!vars
<1>1. ASSUME NEW b \in Holders, NEW c \in Holders, Batch!Send(b, c)
      PROVE  UNCHANGED Batch!Whole!vars
  BY <1>1, BookStutter DEF Batch!Send, Batch!Begin, Batch!accounts
<1>2. ASSUME NEW item \in Batch!Items, Batch!TransferOne(item) PROVE UNCHANGED Batch!Whole!vars
  BY <1>2, BookStutter DEF Batch!TransferOne, Batch!accounts
<1>3. ASSUME Batch!TransferInShard PROVE Batch!Whole!Next
  <2>1. call.from \in Holders /\ call.to \in Holders
    BY <1>3, CallIs DEF Batch!TransferInShard, Batch!OnSender
  <2> QED BY <1>3, <2>1, TransferMoves DEF Batch!Whole!Next
<1>4. ASSUME Batch!CreditOne PROVE UNCHANGED Batch!Whole!vars
  BY <1>4, BookStutter DEF Batch!CreditOne, Batch!accounts
<1>5. ASSUME Batch!Deliver PROVE Batch!Whole!Next
  BY <1>5, DeliverArrives DEF Batch!Whole!Next
<1>6. ASSUME Batch!Fail PROVE UNCHANGED Batch!Whole!vars
  BY <1>6, BookStutter DEF Batch!Fail, Batch!accounts
<1>7. ASSUME NEW i \in Slots, Batch!TransferOut(i) PROVE Batch!Whole!Next
  <2>1. call.from \in Holders /\ call.to \in Holders
    BY <1>7, CallIs DEF Batch!TransferOut, Batch!OnSender
  <2> QED BY <1>7, <2>1, TransferDeparts DEF Batch!Whole!Next
<1>8. ASSUME NEW i \in Slots, NEW given, Batch!Receive(i, given) PROVE UNCHANGED Batch!Whole!vars
  BY <1>8, BookStutter DEF Batch!Receive, Batch!Begin, Batch!accounts
<1>9. ASSUME NEW i \in Slots, Batch!SendBack(i) PROVE Batch!Whole!Next
  BY <1>9, SendBackTurns DEF Batch!Whole!Next
<1>10. ASSUME NEW i \in Slots, NEW given, Batch!Strand(i, given) PROVE Batch!Whole!Next
  BY <1>10, StrandLoses DEF Batch!Whole!Next
<1>11. ASSUME NEW p \in Freezable, Batch!Freeze(p[1], p[2]) \/ Batch!Unfreeze(p[1], p[2])
       PROVE  UNCHANGED Batch!Whole!vars
  BY <1>11, BookStutter DEF Batch!Freeze, Batch!Unfreeze
<1>12. ASSUME NEW p \in Regulated, Batch!ChangeStanding(p[1], p[2])
       PROVE  UNCHANGED Batch!Whole!vars
  BY <1>12, BookStutter DEF Batch!ChangeStanding, Batch!accounts
<1> QED BY <1>1, <1>2, <1>3, <1>4, <1>5, <1>6, <1>7, <1>8, <1>9, <1>10, <1>11, <1>12 DEF Batch!Next

(* ProcessBuiltinFunction of the multi transfer implements BatchBook: taking and putting
   the list one by one is a stutter, and at the end of a call all of them have moved,
   departed or arrived. *)
THEOREM BatchesAlwaysWhole == TokenSpec => BatchesAreWhole
<1>1. TokenInit => Batch!Whole!Init
  BY BookInit DEF TokenInit
<1>2. BatchInv /\ [TokenNext]_tokenVars => [Batch!Whole!Next]_(Batch!Whole!vars)
  <2> SUFFICES ASSUME BatchInv, [TokenNext]_tokenVars
               PROVE  Batch!Whole!Next \/ UNCHANGED Batch!Whole!vars
    OBVIOUS
  <2>1. CASE Batch!Next
    BY <2>1, StepIsWhole
  <2>2. CASE UNCHANGED batched
    BY <2>2, BookStutter DEF batched
  <2> QED BY <2>1, <2>2 DEF TokenNext, BatchStep, SettingStep, ListStep, tokenVars
<1> QED BY <1>1, <1>2, BatchInvAlways, PTL
       DEF TokenSpec, BatchesAreWhole, Batch!BatchesAreWhole, Batch!Whole!Spec

-----------------------------------------------------------------------------
(* The settings of a token *)

Flags == {"Paused", "LimitedTransfer", "BurnRoleForAll"}
Codes == 0..8

LEMMA FlagsAre ==
  /\ Settings!Settings = Flags
  /\ Settings!Location["Paused"] = 1 /\ Settings!Location["LimitedTransfer"] = 2
  /\ Settings!Location["BurnRoleForAll"] = 4
BY DEF Settings!Settings, Settings!Location, Flags

(* The first byte of a token's settings. *)
Byte(f) ==
  (IF "Paused" \in f THEN 1 ELSE 0) + (IF "LimitedTransfer" \in f THEN 2 ELSE 0)
    + (IF "BurnRoleForAll" \in f THEN 4 ELSE 0)

LEMMA BitsOfByte ==
  ASSUME NEW f
  PROVE  /\ Byte(f) \in 0..7
         /\ (Byte(f) \div 1) % 2 = 1 <=> "Paused" \in f
         /\ (Byte(f) \div 2) % 2 = 1 <=> "LimitedTransfer" \in f
         /\ (Byte(f) \div 4) % 2 = 1 <=> "BurnRoleForAll" \in f
BY DEF Byte

Metadata == [on: SUBSET Flags, tokenType: Codes]

(* FromBytes undoes ToBytes. *)
LEMMA ReadsWhatIsWritten ==
  ASSUME NEW m \in Metadata
  PROVE  /\ Settings!ToBytes(m) = <<Byte(m.on), m.tokenType>>
         /\ Settings!FromBytes(Settings!ToBytes(m)) = m
<1> DEFINE f == m.on  c == m.tokenType
<1>1. m = [on |-> f, tokenType |-> c] /\ f \subseteq Flags
  BY DEF Metadata
<1>2. Settings!ToBytes(m) = <<Byte(f), c>>
  BY FlagsAre DEF Settings!ToBytes, Byte
<1> HIDE DEF f, c
<1>3. ASSUME NEW x \in Flags
      PROVE  Settings!IsBitSet(Byte(f), Settings!Location[x]) <=> x \in f
  BY FlagsAre, BitsOfByte DEF Flags, Settings!IsBitSet
<1> DEFINE b == <<Byte(f), c>>
<1>4. Len(b) = 2 /\ b[1] = Byte(f) /\ b[2] = c
  OBVIOUS
<1> HIDE DEF b
<1>5. Settings!FromBytes(b)
        = [on |-> {x \in Flags : Settings!IsBitSet(Byte(f), Settings!Location[x])}, tokenType |-> c]
  BY <1>4, FlagsAre DEF Settings!FromBytes
<1>6. {x \in Flags : Settings!IsBitSet(Byte(f), Settings!Location[x])} = f
  BY <1>1, <1>3
<1>7. Settings!FromBytes(b) = m
  BY <1>1, <1>5, <1>6
<1> QED BY <1>2, <1>7 DEF b, f, c

(* Whatever the bytes are, what is read is metadata; the invariant keeps the type among
   the codes. *)
Written == {<<>>} \cup {<<f, c>> : f \in 0..7, c \in Codes}

SettingsInv == settingBytes \in [SettingTokens -> Written]

LEMMA MetadataIsRead ==
  ASSUME NEW b \in Written
  PROVE  Settings!FromBytes(b) \in Metadata
<1>1. CASE b = <<>>
  <2>1. Len(b) = 0
    BY <1>1
  <2> QED BY <2>1 DEF Settings!FromBytes, Metadata, Codes
<1>2. ASSUME NEW f \in 0..7, NEW c \in Codes, b = <<f, c>> PROVE Settings!FromBytes(b) \in Metadata
  <2>1. Len(b) = 2 /\ b[2] = c
    BY <1>2
  <2> DEFINE on == {x \in Settings!Settings : Settings!IsBitSet(b[1], Settings!Location[x])}
  <2>2. on \subseteq Flags
    BY FlagsAre
  <2>3. Settings!FromBytes(b) = [on |-> on, tokenType |-> c]
    BY <2>1 DEF Settings!FromBytes
  <2> HIDE DEF on
  <2> QED BY <2>2, <2>3 DEF Metadata
<1> QED BY <1>1, <1>2 DEF Written

LEMMA BytesAreWritten ==
  ASSUME NEW m \in Metadata PROVE Settings!ToBytes(m) \in Written
<1>1. Byte(m.on) \in 0..7 /\ m.tokenType \in Codes
  BY BitsOfByte DEF Metadata
<1> QED BY <1>1, ReadsWhatIsWritten DEF Written

(* Every type has a code, and the code is its own. *)
LEMMA TypesAre ==
  ASSUME NEW type \in Settings!Types
  PROVE  /\ Settings!CodeOf(type) \in 1..8
         /\ Settings!TypeCodes[Settings!CodeOf(type)] = type
<1>1. DOMAIN Settings!TypeCodes = 1..8
  BY DEF Settings!TypeCodes
<1>2. \E i \in DOMAIN Settings!TypeCodes : Settings!TypeCodes[i] = type
  BY DEF Settings!Types
<1> QED BY <1>1, <1>2 DEF Settings!CodeOf

(* The book of the settings. *)
On == [t \in SettingTokens |-> Settings!FromBytes(settingBytes[t]).on]
TypeOf == [t \in SettingTokens |-> Settings!GetTokenType(t)]

LEMMA ToggleIs ==
  ASSUME NEW t, NEW setting, NEW value
  PROVE  Settings!Book!Toggle(t, setting, value) <=>
           /\ On' = [On EXCEPT ![t] = IF value THEN @ \cup {setting} ELSE @ \ {setting}]
           /\ lastOrder' = <<t, setting, value>> /\ TypeOf' = TypeOf
BY Zenon DEF Settings!Book!Toggle, On, TypeOf

LEMMA SetTypeIs ==
  ASSUME NEW t, NEW new
  PROVE  Settings!Book!SetType(t, new) <=>
           /\ TypeOf' = [TypeOf EXCEPT ![t] = new]
           /\ lastOrder' = <<t, new>> /\ On' = On
BY Zenon DEF Settings!Book!SetType, On, TypeOf

(* The metadata m is written for t. *)
LEMMA WriteIs ==
  ASSUME SettingsInv, NEW t \in SettingTokens, NEW m \in Metadata,
         settingBytes' = [settingBytes EXCEPT ![t] = Settings!ToBytes(m)]
  PROVE  /\ SettingsInv'
         /\ On' = [On EXCEPT ![t] = m.on]
         /\ TypeOf' = [TypeOf EXCEPT ![t] = IF m.tokenType = 0 THEN "NonFungible"
                                            ELSE Settings!TypeCodes[m.tokenType]]
<1>1. settingBytes \in [SettingTokens -> Written]
  BY DEF SettingsInv
<1>2. Settings!ToBytes(m) \in Written /\ Settings!FromBytes(Settings!ToBytes(m)) = m
  BY BytesAreWritten, ReadsWhatIsWritten
<1> DEFINE b == Settings!ToBytes(m)
           read(x) == Settings!FromBytes(x)
           kind(x) == IF read(x).tokenType = 0 THEN "NonFungible" ELSE Settings!TypeCodes[read(x).tokenType]
<1>3. \A u \in SettingTokens : settingBytes'[u] = IF u = t THEN b ELSE settingBytes[u]
  BY <1>1
<1>4. On = [u \in SettingTokens |-> read(settingBytes[u]).on]
      /\ On' = [u \in SettingTokens |-> read(settingBytes'[u]).on]
  BY DEF On, Settings!FromBytes, Settings!IsBitSet, Settings!Location, Settings!Settings
<1>5. TypeOf = [u \in SettingTokens |-> kind(settingBytes[u])]
      /\ TypeOf' = [u \in SettingTokens |-> kind(settingBytes'[u])]
  BY DEF TypeOf, Settings!GetTokenType, Settings!FromBytes, Settings!IsBitSet, Settings!Location,
         Settings!Settings, Settings!TypeCodes
<1>6. kind(b) = IF m.tokenType = 0 THEN "NonFungible" ELSE Settings!TypeCodes[m.tokenType]
  BY <1>2
<1>7. read(b).on = m.on
  BY <1>2
<1>8. SettingsInv'
  BY <1>1, <1>2 DEF SettingsInv
<1> HIDE DEF b, read, kind
<1>9. On' = [On EXCEPT ![t] = m.on]
  BY <1>3, <1>4, <1>7
<1>10. TypeOf' = [TypeOf EXCEPT ![t] = kind(b)]
  BY <1>3, <1>5
<1> QED BY <1>6, <1>8, <1>9, <1>10

LEMMA ToggleStep ==
  ASSUME SettingsInv, NEW t \in SettingTokens, NEW setting \in Settings!Settings, NEW value \in BOOLEAN,
         Settings!ToggleSetting(t, setting, value)
  PROVE  SettingsInv' /\ Settings!Book!Toggle(t, setting, value)
<1> DEFINE old == Settings!FromBytes(settingBytes[t])
           f == IF value THEN old.on \cup {setting} ELSE old.on \ {setting}
           m == [old EXCEPT !.on = f]
<1>1. settingBytes' = [settingBytes EXCEPT ![t] = Settings!ToBytes(m)] /\ lastOrder' = <<t, setting, value>>
  BY DEF Settings!ToggleSetting
<1>2. old \in Metadata
  BY MetadataIsRead DEF SettingsInv
<1>3. m \in Metadata /\ m.on = f /\ m.tokenType = old.tokenType
  <2>1. f \subseteq Flags
    BY <1>2, FlagsAre DEF Metadata
  <2> HIDE DEF f, old
  <2> QED BY <1>2, <2>1 DEF Metadata
<1>4. On[t] = old.on
  BY DEF On
<1>5. TypeOf[t] = IF old.tokenType = 0 THEN "NonFungible" ELSE Settings!TypeCodes[old.tokenType]
  BY DEF TypeOf, Settings!GetTokenType
<1>6. SettingsInv' /\ On' = [On EXCEPT ![t] = m.on]
      /\ TypeOf' = [TypeOf EXCEPT ![t] = IF m.tokenType = 0 THEN "NonFungible"
                                         ELSE Settings!TypeCodes[m.tokenType]]
  <2> HIDE DEF m
  <2> QED BY <1>1, <1>3, WriteIs
<1>7. TypeOf' = TypeOf
  <2>1. TypeOf = [u \in SettingTokens |-> TypeOf[u]]
    BY DEF TypeOf
  <2> HIDE DEF m, old
  <2> QED BY <1>3, <1>5, <1>6, <2>1
<1>8. On' = [On EXCEPT ![t] = IF value THEN @ \cup {setting} ELSE @ \ {setting}]
  BY <1>3, <1>4, <1>6
<1> QED BY <1>1, <1>6, <1>7, <1>8, ToggleIs

LEMMA SetTypeStep ==
  ASSUME SettingsInv, NEW t \in SettingTokens, NEW type \in Settings!Types,
         Settings!SetTokenType(t, type)
  PROVE  SettingsInv' /\ Settings!Book!SetType(t, type)
<1> DEFINE old == Settings!FromBytes(settingBytes[t])
           c == Settings!CodeOf(type)
           m == [old EXCEPT !.tokenType = c]
<1>1. settingBytes' = [settingBytes EXCEPT ![t] = Settings!ToBytes(m)] /\ lastOrder' = <<t, type>>
  BY DEF Settings!SetTokenType
<1>2. old \in Metadata
  BY MetadataIsRead DEF SettingsInv
<1>3. c \in 1..8 /\ Settings!TypeCodes[c] = type
  BY TypesAre
<1>4. m \in Metadata /\ m.on = old.on /\ m.tokenType = c
  <2> HIDE DEF c, old
  <2> QED BY <1>2, <1>3 DEF Metadata, Codes
<1>5. On[t] = old.on /\ On = [u \in SettingTokens |-> On[u]]
  BY DEF On
<1>6. SettingsInv' /\ On' = [On EXCEPT ![t] = m.on]
      /\ TypeOf' = [TypeOf EXCEPT ![t] = IF m.tokenType = 0 THEN "NonFungible"
                                         ELSE Settings!TypeCodes[m.tokenType]]
  <2> HIDE DEF m
  <2> QED BY <1>1, <1>4, WriteIs
<1> HIDE DEF m, old, c
<1>7. TypeOf' = [TypeOf EXCEPT ![t] = type] /\ On' = On
  <2>1. (IF m.tokenType = 0 THEN "NonFungible" ELSE Settings!TypeCodes[m.tokenType]) = type
    BY <1>3, <1>4
  <2>2. On' = [On EXCEPT ![t] = On[t]]
    BY <1>4, <1>5, <1>6
  <2>3. On' = On
    BY <1>5, <2>2
  <2> QED BY <1>6, <2>1, <2>3
<1> QED BY <1>1, <1>6, <1>7, SetTypeIs

LEMMA SettingsInvInit == Settings!Init => SettingsInv /\ Settings!Book!Init
<1> SUFFICES ASSUME Settings!Init PROVE SettingsInv /\ Settings!Book!Init
  OBVIOUS
<1>1. settingBytes \in [SettingTokens -> {<<>>} \cup {<<f, 0>> : f \in 0..7}] /\ lastOrder = <<>>
  BY DEF Settings!Init
<1>2. SettingsInv
  BY <1>1 DEF SettingsInv, Written, Codes
<1>3. ASSUME NEW t \in SettingTokens
      PROVE  /\ Settings!FromBytes(settingBytes[t]).on \subseteq Flags
             /\ Settings!GetTokenType(t) = "NonFungible"
  <2> DEFINE b == settingBytes[t]
  <2>1. Settings!FromBytes(b) \in Metadata
    BY <1>2, MetadataIsRead DEF SettingsInv
  <2>2. Settings!FromBytes(b).tokenType = 0
    <3>1. b = <<>> \/ \E f \in 0..7 : b = <<f, 0>>
      BY <1>1
    <3>2. Len(b) # 2 \/ (Len(b) = 2 /\ b[2] = 0)
      BY <3>1
    <3> HIDE DEF b
    <3> QED BY <3>2 DEF Settings!FromBytes
  <2> QED BY <2>1, <2>2 DEF Metadata, Settings!GetTokenType
<1>4. On \in [SettingTokens -> SUBSET Flags] /\ TypeOf = [t \in SettingTokens |-> "NonFungible"]
  BY <1>3 DEF On, TypeOf
<1> QED BY <1>1, <1>2, <1>4, FlagsAre DEF Settings!Book!Init, On, TypeOf

LEMMA SettingsStep ==
  ASSUME SettingsInv, [TokenNext]_tokenVars
  PROVE  SettingsInv' /\ (Settings!Book!Next \/ UNCHANGED Settings!Book!vars)
<1>1. ASSUME NEW t \in SettingTokens, NEW setting \in Settings!Settings, NEW value \in BOOLEAN,
             Settings!ToggleSetting(t, setting, value)
      PROVE  SettingsInv' /\ Settings!Book!Next
  BY <1>1, ToggleStep DEF Settings!Book!Next
<1>2. ASSUME NEW t \in SettingTokens, NEW type \in Settings!Types, Settings!SetTokenType(t, type)
      PROVE  SettingsInv' /\ Settings!Book!Next
  BY <1>2, SetTypeStep DEF Settings!Book!Next
<1>3. CASE UNCHANGED <<settingBytes, lastOrder>>
  BY <1>3 DEF SettingsInv, Settings!Book!vars, Settings!GetTokenType, Settings!FromBytes, Settings!IsBitSet
<1> QED BY <1>1, <1>2, <1>3 DEF TokenNext, BatchStep, SettingStep, ListStep, Settings!Next, set, tokenVars

(* The two bytes of ESDTGlobalMetadata implement SettingsBook: an order about one setting
   changes no other, whatever bytes were stored before there were types. *)
THEOREM SettingsAlwaysIndependent == TokenSpec => SettingsAreIndependent
<1>1. TokenInit => SettingsInv /\ Settings!Book!Init
  BY SettingsInvInit DEF TokenInit
<1>2. SettingsInv /\ [TokenNext]_tokenVars => SettingsInv' /\ [Settings!Book!Next]_(Settings!Book!vars)
  BY SettingsStep
<1> QED BY <1>1, <1>2, PTL DEF TokenSpec, SettingsAreIndependent, Settings!SettingsAreIndependent, Settings!Book!Spec

-----------------------------------------------------------------------------
(* The lists of deletions and additions of metadata *)

HIDE TokenAssumptions
USE ListAssumptions

(* What a list names with the tokens before the place q. *)
NamedUpTo(list, q) ==
  UNION {Metas!NamedBy(list, h, Metas!NumberIn(list, h + 1)) :
           h \in {p \in Metas!Places(list) : p < Len(list) /\ p < q}}

(* The next token is read at q: it is a place, unless the list ends before it, and what the
   places before it name is gone. *)
AtToken(list, q, draft, records) ==
  /\ 4 <= Len(list) /\ q \in 1..(Len(list) + 1)
  /\ q <= Len(list) => q \in Metas!Places(list)
  /\ \A h \in Metas!Places(list) : h < q => h < Len(list) /\ Metas!Behind(list, h) <= q
  /\ draft = Metas!Without(records, NamedUpTo(list, q))

(* The token at h is one of those, with a count, and m of its intervals are read. *)
InToken(list, h, m) ==
  /\ 4 <= Len(list) /\ h \in Metas!Places(list) /\ h + 2 <= Len(list) /\ list[h] \in ListTokens
  /\ m \in 0..Metas!NumberIn(list, h + 1) /\ h + 1 + 2 * m <= Len(list)
  /\ \A g \in Metas!Places(list) : g < h => Metas!Behind(list, g) <= h

AtInterval(list, h, m, draft, records) ==
  /\ InToken(list, h, m)
  /\ draft = Metas!Without(records, NamedUpTo(list, h) \cup Metas!NamedBy(list, h, m))

(* In the interval behind those m, the nonces before x are gone too.  An interval that ends
   at the largest number is not left. *)
InInterval(list, h, m, x, draft, records) ==
  LET first == Metas!NumberIn(list, h + 2 * m + 2)
      final == Metas!NumberIn(list, h + 2 * m + 3)
  IN /\ InToken(list, h, m) /\ m < Metas!NumberIn(list, h + 1) /\ h + 3 + 2 * m <= Len(list)
     /\ x \in 0..(Metas!Modulus - 1)
     /\ \/ final = Metas!Modulus - 1
        \/ /\ final < Metas!Modulus - 1 /\ x \in first..(final + 1)
           /\ draft = Metas!Without(records,
                        NamedUpTo(list, h) \cup Metas!NamedBy(list, h, m)
                          \cup ({list[h]} \X {n \in MetaNonces : first <= n /\ n < x}))

(* The first p items are in the draft, each where nothing was. *)
ItemsAdded(added, p, draft, records) ==
  \A k \in Metas!Keys :
    IF \A m \in 1..p : Metas!KeyOf(added[m]) # k THEN draft[k] = records[k]
    ELSE /\ records[k] \in {NoEntry, Bare}
         /\ \A m \in 1..p : Metas!KeyOf(added[m]) = k =>
              draft[k] = added[m].metaData /\ draft[k].nonce = k[2]

Records == [Metas!Keys -> Metas!MetaData \cup {NoEntry, Bare}]

(* Everything that is proved of the lists between two steps. *)
ListInv ==
  /\ loop \in {"tokens", "intervals", "nonces", "items", "ok", "failed"}
  /\ metaRecords \in Records /\ metaDraft \in Records
  /\ loop \in {"ok", "failed"} => metaDraft = metaRecords
  /\ loop \in {"tokens", "intervals", "nonces"} => arguments \in Lists
  /\ loop = "tokens" /\ Metas!CountsFit(arguments) =>
       listIndex \in Nat /\ AtToken(arguments, listIndex + 1, metaDraft, metaRecords)
  /\ loop = "intervals" /\ Metas!CountsFit(arguments) =>
       /\ listIndex \in Nat /\ pairIndex \in Nat
       /\ \E h, m \in 0..Len(arguments) :
            listIndex = h + 1 /\ pairIndex = listIndex + 2 * m
            /\ AtInterval(arguments, h, m, metaDraft, metaRecords)
  /\ loop = "nonces" /\ Metas!CountsFit(arguments) =>
       /\ listIndex \in Nat /\ pairIndex \in Nat
       /\ \E h, m \in 0..Len(arguments) :
            listIndex = h + 1 /\ pairIndex = listIndex + 2 * m
            /\ InInterval(arguments, h, m, nonceIndex, metaDraft, metaRecords)
  /\ loop = "items" =>
       /\ metaItems \in Additions /\ listIndex \in 0..Len(metaItems)
       /\ ItemsAdded(metaItems, listIndex, metaDraft, metaRecords)

-----------------------------------------------------------------------------
(* The places of the tokens in a list *)

LEMMA ListConstants ==
  /\ Metas!Modulus \in Nat /\ MetaNonces \subseteq 0..(Metas!Modulus - 1)
  /\ \A list \in Lists : list \in Seq(Numbers \cup ListTokens)
  /\ NoEntry # Bare /\ NoEntry \notin Metas!MetaData /\ Bare \notin Metas!MetaData
BY DEF Metas!DeletionAssumption, Metas!Arguments

LEMMA NumbersAre ==
  ASSUME NEW list \in Lists, NEW k \in 1..Len(list)
  PROVE  Metas!NumberIn(list, k) \in 0..(Metas!Modulus - 1)
<1>1. list \in Seq(Numbers \cup ListTokens)
  BY ListConstants
<1>2. list[k] \in Numbers \cup ListTokens
  BY <1>1
<1> QED BY <1>2 DEF Metas!NumberIn, Metas!DeletionAssumption

LEMMA LengthIs == ASSUME NEW list \in Lists PROVE Len(list) \in Nat
BY ListConstants

(* The places of a list. *)
LEMMA PlacesAre ==
  ASSUME NEW list \in Lists
  PROVE  /\ Metas!Places(list) \subseteq 1..Len(list)
         /\ 1 <= Len(list) => 1 \in Metas!Places(list)
         /\ \A h \in Metas!Places(list) : h < Len(list) /\ Metas!Behind(list, h) <= Len(list)
              => Metas!Behind(list, h) \in Metas!Places(list)
<1>1. Metas!Places(list) \subseteq 1..Len(list)
  BY DEF Metas!Places
<1>2. 1 <= Len(list) => 1 \in Metas!Places(list)
  BY LengthIs DEF Metas!Places
<1>3. ASSUME NEW h \in Metas!Places(list), h < Len(list), Metas!Behind(list, h) <= Len(list)
      PROVE  Metas!Behind(list, h) \in Metas!Places(list)
  <2>1. h \in 1..Len(list) /\ Metas!NumberIn(list, h + 1) \in Nat
    BY <1>1, <1>3, LengthIs, NumbersAre, ListConstants
  <2>2. Metas!Behind(list, h) \in 1..Len(list)
    BY <1>3, <2>1, LengthIs DEF Metas!Behind
  <2>3. ASSUME NEW H \in SUBSET (1..Len(list)), 1 \in H, Metas!Follows(list, H)
        PROVE  Metas!Behind(list, h) \in H
    BY <1>3, <2>3 DEF Metas!Places, Metas!Follows
  <2> QED BY <2>2, <2>3 DEF Metas!Places
<1> QED BY <1>1, <1>2, <1>3

LEMMA BehindIs ==
  ASSUME NEW list \in Lists, NEW h \in Metas!Places(list), h < Len(list)
  PROVE  /\ h \in Nat /\ Metas!NumberIn(list, h + 1) \in Nat
         /\ Metas!Behind(list, h) = h + 2 + 2 * Metas!NumberIn(list, h + 1)
         /\ Metas!Behind(list, h) \in Nat /\ Metas!Behind(list, h) >= h + 2
<1>1. h \in 1..Len(list) /\ Metas!NumberIn(list, h + 1) \in Nat
  BY PlacesAre, LengthIs, NumbersAre, ListConstants
<1> QED BY <1>1, LengthIs DEF Metas!Behind

(* No token begins among the intervals of another. *)
LEMMA NoneBetween ==
  ASSUME NEW list \in Lists, NEW h \in Metas!Places(list), h < Len(list),
         \A g \in Metas!Places(list) : g < h => Metas!Behind(list, g) <= h
  PROVE  \A g \in Metas!Places(list) : g <= h \/ Metas!Behind(list, h) <= g
<1> DEFINE H == {g \in Metas!Places(list) : g <= h \/ Metas!Behind(list, h) <= g}
<1>1. H \in SUBSET (1..Len(list)) /\ 1 \in H
  BY PlacesAre, BehindIs, LengthIs
<1>2. ASSUME NEW g \in H, g < Len(list), Metas!Behind(list, g) <= Len(list)
      PROVE  Metas!Behind(list, g) \in H
  <2>1. g \in Metas!Places(list) /\ Metas!Behind(list, g) \in Metas!Places(list)
    BY <1>2, PlacesAre
  <2>2. g \in Nat /\ Metas!Behind(list, g) \in Nat /\ Metas!Behind(list, g) >= g + 2
    BY <1>2, <2>1, BehindIs
  <2>3. h \in Nat /\ Metas!Behind(list, h) \in Nat
    BY BehindIs
  <2>4. CASE g < h
    BY <2>1, <2>4
  <2>5. CASE g = h
    BY <2>1, <2>3, <2>5
  <2>6. CASE Metas!Behind(list, h) <= g
    BY <2>1, <2>2, <2>3, <2>6
  <2> QED BY <2>2, <2>3, <2>4, <2>5, <2>6
<1>3. Metas!Follows(list, H)
  BY <1>2 DEF Metas!Follows
<1> HIDE DEF H
<1>4. \A g \in Metas!Places(list) : g \in H
  BY <1>1, <1>3 DEF Metas!Places
<1> QED BY <1>4 DEF H

-----------------------------------------------------------------------------
(* What the places before one name *)

LEMMA NamedWithNext ==
  ASSUME NEW list \in Lists, NEW h \in Metas!Places(list), h < Len(list),
         \A g \in Metas!Places(list) : g < h => Metas!Behind(list, g) <= h
  PROVE  NamedUpTo(list, Metas!Behind(list, h))
           = NamedUpTo(list, h) \cup Metas!NamedBy(list, h, Metas!NumberIn(list, h + 1))
<1> DEFINE P(q) == {p \in Metas!Places(list) : p < Len(list) /\ p < q}
           N(g) == Metas!NamedBy(list, g, Metas!NumberIn(list, g + 1))
<1>1. P(Metas!Behind(list, h)) = P(h) \cup {h}
  <2>1. /\ h \in Nat /\ Metas!Behind(list, h) \in Nat /\ Metas!Behind(list, h) >= h + 2
    BY BehindIs
  <2>2. ASSUME NEW p \in Metas!Places(list) PROVE p < Metas!Behind(list, h) <=> p < h \/ p = h
    <3>1. p \in Nat
      BY PlacesAre, LengthIs
    <3>2. p <= h \/ Metas!Behind(list, h) <= p
      BY NoneBetween
    <3> QED BY <2>1, <3>1, <3>2
  <2> QED BY <2>2
<1>2. \A q, x : x \in NamedUpTo(list, q) <=> \E g \in P(q) : x \in N(g)
  BY DEF NamedUpTo
<1>3. N(h) = Metas!NamedBy(list, h, Metas!NumberIn(list, h + 1))
  OBVIOUS
<1> HIDE DEF N, P
<1>4. \A x : x \in NamedUpTo(list, Metas!Behind(list, h)) <=> x \in NamedUpTo(list, h) \/ x \in N(h)
  BY <1>1, <1>2
<1> QED BY <1>3, <1>4

LEMMA NamedByNone ==
  ASSUME NEW list, NEW h PROVE Metas!NamedBy(list, h, 0) = {}
BY DEF Metas!NamedBy

LEMMA NamedByNext ==
  ASSUME NEW list \in Lists, NEW h \in Nat, NEW m \in Nat
  PROVE  Metas!NamedBy(list, h, m + 1)
           = Metas!NamedBy(list, h, m)
               \cup ({list[h]} \X {n \in MetaNonces :
                        n \in Metas!NumberIn(list, h + 2 * m + 2)..Metas!NumberIn(list, h + 2 * m + 3)})
<1> DEFINE A(n, k) == n \in Metas!NumberIn(list, h + 2 * k)..Metas!NumberIn(list, h + 2 * k + 1)
<1>1. \A n : (\E k \in 1..(m + 1) : A(n, k)) <=> (\E k \in 1..m : A(n, k)) \/ A(n, m + 1)
  <2>1. 1..(m + 1) = 1..m \cup {m + 1}
    OBVIOUS
  <2> HIDE DEF A
  <2> QED BY <2>1
<1>2. h + 2 * (m + 1) = h + 2 * m + 2 /\ h + 2 * (m + 1) + 1 = h + 2 * m + 3
  OBVIOUS
<1>3. \A n : A(n, m + 1) <=> n \in Metas!NumberIn(list, h + 2 * m + 2)..Metas!NumberIn(list, h + 2 * m + 3)
  BY <1>2
<1>4. \A q : Metas!NamedBy(list, h, q) = {list[h]} \X {n \in MetaNonces : \E k \in 1..q : A(n, k)}
  BY DEF Metas!NamedBy
<1> HIDE DEF A
<1> QED BY <1>1, <1>3, <1>4

-----------------------------------------------------------------------------
(* The rounds of the loops, on the list they read *)

LEMMA ListFits ==
  ASSUME NEW list \in Lists, Metas!CountsFit(list), NEW h \in Metas!Places(list), h < Len(list)
  PROVE  /\ Metas!NumberIn(list, h + 1) \in Nat
         /\ Len(list) + 2 * Metas!NumberIn(list, h + 1) < Metas!Modulus - 1
         /\ Len(list) < Metas!Modulus - 1
<1>1. Len(list) + 2 * Metas!NumberIn(list, h + 1) < Metas!Modulus - 1
  BY DEF Metas!CountsFit
<1> QED BY <1>1, BehindIs, LengthIs, ListConstants

LEMMA ListStarts ==
  ASSUME NEW list \in Lists, 4 <= Len(list), NEW records \in Records
  PROVE  AtToken(list, 1, records, records)
<1>1. NamedUpTo(list, 1) = {}
  BY PlacesAre, LengthIs DEF NamedUpTo
<1>2. records = Metas!Without(records, {})
  BY DEF Metas!Without, Records
<1>3. \A h \in Metas!Places(list) : ~(h < 1)
  BY PlacesAre, LengthIs
<1>4. 1 \in Metas!Places(list) /\ 1 \in 1..(Len(list) + 1)
  BY PlacesAre, LengthIs
<1> QED BY <1>1, <1>2, <1>3, <1>4 DEF AtToken

LEMMA ListEnds ==
  ASSUME NEW list \in Lists, NEW q, NEW draft, NEW records, AtToken(list, q, draft, records),
         q >= Len(list)
  PROVE  draft = Metas!Without(records, Metas!Named(list))
<1>1. \A p \in Metas!Places(list) : p < Len(list) => p < q
  BY PlacesAre, LengthIs DEF AtToken
<1>2. Metas!Named(list) = NamedUpTo(list, q)
  BY <1>1 DEF Metas!Named, NamedUpTo
<1> QED BY <1>2 DEF AtToken

LEMMA TokenEntered ==
  ASSUME NEW list \in Lists, NEW q, NEW draft, NEW records, AtToken(list, q, draft, records),
         q + 1 < Len(list), list[q] \in ListTokens
  PROVE  AtInterval(list, q, 0, draft, records)
<1>1. q \in Metas!Places(list) /\ q \in Nat /\ q < Len(list)
  BY LengthIs DEF AtToken
<1>2. InToken(list, q, 0)
  BY <1>1, BehindIs, LengthIs DEF AtToken, InToken
<1>3. NamedUpTo(list, q) \cup Metas!NamedBy(list, q, 0) = NamedUpTo(list, q)
  BY NamedByNone
<1> QED BY <1>2, <1>3 DEF AtToken, AtInterval

LEMMA IntervalsRead ==
  ASSUME NEW list \in Lists, NEW h, NEW draft, NEW records,
         AtInterval(list, h, Metas!NumberIn(list, h + 1), draft, records)
  PROVE  AtToken(list, Metas!Behind(list, h), draft, records)
<1> DEFINE q == Metas!Behind(list, h)
<1>1. /\ h \in Metas!Places(list) /\ h \in Nat /\ h < Len(list)
      /\ h + 1 + 2 * Metas!NumberIn(list, h + 1) <= Len(list)
  BY PlacesAre, LengthIs DEF AtInterval, InToken
<1>2. q = h + 2 + 2 * Metas!NumberIn(list, h + 1) /\ Metas!NumberIn(list, h + 1) \in Nat
  BY <1>1, BehindIs
<1>3. q \in 1..(Len(list) + 1)
  BY <1>1, <1>2, LengthIs
<1>4. q <= Len(list) => q \in Metas!Places(list)
  BY <1>1, PlacesAre
<1>5. ASSUME NEW g \in Metas!Places(list), g < q PROVE g < Len(list) /\ Metas!Behind(list, g) <= q
  <2>1. g \in Nat
    BY PlacesAre, LengthIs
  <2>2. g <= h
    BY <1>1, <1>2, <1>5, <2>1, NoneBetween DEF AtInterval, InToken
  <2>3. g < Len(list)
    BY <1>1, <2>1, <2>2, LengthIs
  <2>4. g < h => Metas!Behind(list, g) <= h
    BY DEF AtInterval, InToken
  <2>5. Metas!Behind(list, g) \in Nat
    BY <2>3, BehindIs
  <2> QED BY <1>1, <1>2, <2>1, <2>2, <2>3, <2>4, <2>5
<1>6. NamedUpTo(list, q) = NamedUpTo(list, h) \cup Metas!NamedBy(list, h, Metas!NumberIn(list, h + 1))
  BY <1>1, NamedWithNext DEF AtInterval, InToken
<1> HIDE DEF q
<1> QED BY <1>3, <1>4, <1>5, <1>6 DEF AtToken, AtInterval, InToken, q

LEMMA IntervalEntered ==
  ASSUME NEW list \in Lists, NEW h, NEW m, NEW draft, NEW records,
         AtInterval(list, h, m, draft, records),
         m < Metas!NumberIn(list, h + 1), h + 3 + 2 * m <= Len(list),
         Metas!NumberIn(list, h + 2 * m + 2) <= Metas!NumberIn(list, h + 2 * m + 3)
  PROVE  InInterval(list, h, m, Metas!NumberIn(list, h + 2 * m + 2), draft, records)
<1> DEFINE first == Metas!NumberIn(list, h + 2 * m + 2)
           final == Metas!NumberIn(list, h + 2 * m + 3)
<1>1. h \in Nat /\ m \in Nat /\ h \in 1..Len(list)
  BY PlacesAre, LengthIs DEF AtInterval, InToken
<1>2. first \in 0..(Metas!Modulus - 1) /\ final \in 0..(Metas!Modulus - 1) /\ first <= final
  BY <1>1, NumbersAre, LengthIs
<1>3. {n \in MetaNonces : first <= n /\ n < first} = {}
  <2>1. \A n \in MetaNonces : n \in Int
    BY ListConstants
  <2> HIDE DEF first
  <2> QED BY <1>2, <2>1
<1>4. first \in first..(final + 1) /\ (final = Metas!Modulus - 1 \/ final < Metas!Modulus - 1)
  BY <1>2, ListConstants
<1>5. draft = Metas!Without(records,
                NamedUpTo(list, h) \cup Metas!NamedBy(list, h, m)
                  \cup ({list[h]} \X {n \in MetaNonces : first <= n /\ n < first}))
  <2>1. {list[h]} \X {} = {}
    OBVIOUS
  <2> QED BY <1>3, <2>1 DEF AtInterval
<1>6. InToken(list, h, m)
  BY DEF AtInterval
<1> QED BY <1>2, <1>4, <1>5, <1>6 DEF InInterval

LEMMA NonceDeleted ==
  ASSUME NEW list \in Lists, NEW h, NEW m, NEW x, NEW draft, NEW records,
         InInterval(list, h, m, x, draft, records), x <= Metas!NumberIn(list, h + 2 * m + 3)
  PROVE  InInterval(list, h, m, Metas!Add(x, 1),
           [k \in Metas!Keys |-> IF k = <<list[h], x>> THEN NoEntry ELSE draft[k]], records)
<1> DEFINE first == Metas!NumberIn(list, h + 2 * m + 2)
           final == Metas!NumberIn(list, h + 2 * m + 3)
           gone == NamedUpTo(list, h) \cup Metas!NamedBy(list, h, m)
           next == [k \in Metas!Keys |-> IF k = <<list[h], x>> THEN NoEntry ELSE draft[k]]
           read(y) == {list[h]} \X {n \in MetaNonces : first <= n /\ n < y}
<1>1. h \in Nat /\ m \in Nat /\ x \in 0..(Metas!Modulus - 1) /\ h \in 1..Len(list)
  BY PlacesAre, LengthIs DEF InInterval, InToken
<1>2. first \in 0..(Metas!Modulus - 1) /\ final \in 0..(Metas!Modulus - 1)
  BY <1>1, NumbersAre, LengthIs DEF InInterval
<1>3. Metas!Add(x, 1) \in 0..(Metas!Modulus - 1) /\ (x + 1 < Metas!Modulus => Metas!Add(x, 1) = x + 1)
  BY <1>1, ListConstants DEF Metas!Add
<1>4. CASE final = Metas!Modulus - 1
  BY <1>3, <1>4 DEF InInterval
<1>5. CASE final < Metas!Modulus - 1
  <2>1. x \in first..(final + 1) /\ draft = Metas!Without(records, gone \cup read(x))
    <3>1. final # Metas!Modulus - 1
      BY <1>2, <1>5, ListConstants
    <3> QED BY <3>1 DEF InInterval
  <2>2. Metas!Add(x, 1) = x + 1 /\ x + 1 \in first..(final + 1)
    BY <1>1, <1>2, <1>3, <1>5, <2>1, ListConstants
  <2>3. ASSUME NEW k \in Metas!Keys
        PROVE  k \in gone \cup read(x + 1) <=> (k = <<list[h], x>> \/ k \in gone \cup read(x))
    <3>1. k = <<k[1], k[2]>> /\ k[2] \in MetaNonces
      BY DEF Metas!Keys
    <3>2. k[2] \in Nat
      BY <3>1, ListConstants
    <3>3. \A y : k \in read(y) <=> k[1] = list[h] /\ first <= k[2] /\ k[2] < y
      BY <3>1
    <3>4. k = <<list[h], x>> <=> k[1] = list[h] /\ k[2] = x
      BY <3>1
    <3>5. first <= k[2] /\ k[2] < x + 1 <=> (first <= k[2] /\ k[2] < x) \/ k[2] = x
      BY <1>1, <1>2, <2>1, <3>2
    <3> HIDE DEF read, gone, first
    <3> QED BY <3>3, <3>4, <3>5
  <2>4. next = Metas!Without(records, gone \cup read(x + 1))
    <3> HIDE DEF read, gone
    <3> QED BY <2>1, <2>3 DEF Metas!Without
  <2> HIDE DEF next
  <2>5. InInterval(list, h, m, x + 1, next, records)
    BY <1>3, <1>5, <2>2, <2>4 DEF InInterval
  <2> QED BY <2>2, <2>5 DEF next
<1> QED BY <1>2, <1>4, <1>5, ListConstants

LEMMA IntervalLeft ==
  ASSUME NEW list \in Lists, NEW h, NEW m, NEW x, NEW draft, NEW records,
         InInterval(list, h, m, x, draft, records), ~(x <= Metas!NumberIn(list, h + 2 * m + 3))
  PROVE  AtInterval(list, h, m + 1, draft, records)
<1> DEFINE first == Metas!NumberIn(list, h + 2 * m + 2)
           final == Metas!NumberIn(list, h + 2 * m + 3)
           gone == NamedUpTo(list, h) \cup Metas!NamedBy(list, h, m)
<1>1. h \in Nat /\ m \in Nat /\ x \in 0..(Metas!Modulus - 1) /\ h \in 1..Len(list)
  BY PlacesAre, LengthIs DEF InInterval, InToken
<1>2. first \in 0..(Metas!Modulus - 1) /\ final \in 0..(Metas!Modulus - 1)
  BY <1>1, NumbersAre, LengthIs DEF InInterval
<1>3. final # Metas!Modulus - 1
  BY <1>1, <1>2, ListConstants
<1>4. /\ x \in first..(final + 1)
      /\ draft = Metas!Without(records, gone \cup ({list[h]} \X {n \in MetaNonces : first <= n /\ n < x}))
  BY <1>3 DEF InInterval
<1>5. {n \in MetaNonces : first <= n /\ n < x} = {n \in MetaNonces : n \in first..final}
  <2>1. x = final + 1
    BY <1>1, <1>2, <1>4
  <2>2. \A n \in MetaNonces : n \in Int
    BY ListConstants
  <2> HIDE DEF first, final
  <2> QED BY <1>2, <2>1, <2>2
<1>6. Metas!NamedBy(list, h, m + 1)
        = Metas!NamedBy(list, h, m) \cup ({list[h]} \X {n \in MetaNonces : n \in first..final})
  BY <1>1, NamedByNext
<1>7. draft = Metas!Without(records, NamedUpTo(list, h) \cup Metas!NamedBy(list, h, m + 1))
  <2>1. gone \cup ({list[h]} \X {n \in MetaNonces : n \in first..final})
          = NamedUpTo(list, h) \cup Metas!NamedBy(list, h, m + 1)
    BY <1>6
  <2> QED BY <1>4, <1>5, <2>1
<1>8. InToken(list, h, m + 1)
  <2>1. /\ 4 <= Len(list) /\ h \in Metas!Places(list) /\ h + 2 <= Len(list) /\ list[h] \in ListTokens
        /\ m < Metas!NumberIn(list, h + 1) /\ h + 3 + 2 * m <= Len(list)
        /\ \A g \in Metas!Places(list) : g < h => Metas!Behind(list, g) <= h
    BY DEF InInterval, InToken
  <2>2. Metas!NumberIn(list, h + 1) \in Nat
    BY <1>1, <2>1, BehindIs, LengthIs
  <2>3. m + 1 \in 0..Metas!NumberIn(list, h + 1) /\ h + 1 + 2 * (m + 1) <= Len(list)
    BY <1>1, <2>1, <2>2, LengthIs
  <2> QED BY <2>1, <2>3 DEF InToken
<1> QED BY <1>7, <1>8 DEF AtInterval

-----------------------------------------------------------------------------
(* One item *)

LEMMA ItemAdded ==
  ASSUME NEW added \in Additions, NEW p \in 0..Len(added), p < Len(added), NEW draft \in Records,
         NEW records \in Records, ItemsAdded(added, p, draft, records),
         NEW item, item = added[p + 1], item.nonce # 0, item.metaData.nonce = item.nonce,
         draft[Metas!KeyOf(item)] \in {NoEntry, Bare}
  PROVE  LET next == [draft EXCEPT ![Metas!KeyOf(item)] = item.metaData]
         IN next \in Records /\ ItemsAdded(added, p + 1, next, records)
<1> DEFINE key == Metas!KeyOf(item)
           next == [draft EXCEPT ![key] = item.metaData]
<1>1. added \in Seq(Metas!AddItems) /\ Len(added) \in Nat
  BY DEF Metas!DeletionAssumption
<1>2. item \in Metas!AddItems /\ \A m \in 1..p : added[m] \in Metas!AddItems
  BY <1>1
<1>3. key \in Metas!Keys /\ key[2] = item.nonce /\ item.metaData \in Metas!MetaData
  BY <1>2 DEF Metas!AddItems, Metas!KeyOf, Metas!Keys
<1>4. next \in Records
  BY <1>3 DEF Records
<1>5. next[key] = item.metaData /\ \A k \in Metas!Keys : k # key => next[k] = draft[k]
  BY <1>3 DEF Records
<1>6. 1..(p + 1) = 1..p \cup {p + 1}
  OBVIOUS
<1>7. \A m \in 1..p : Metas!KeyOf(added[m]) # key
  <2> SUFFICES ASSUME NEW m \in 1..p, Metas!KeyOf(added[m]) = key PROVE FALSE
    OBVIOUS
  <2>1. draft[key] = added[m].metaData
    BY <1>3 DEF ItemsAdded
  <2>2. added[m].metaData \in Metas!MetaData
    BY <1>2 DEF Metas!AddItems
  <2> QED BY <2>1, <2>2, ListConstants
<1>8. draft[key] = records[key]
  BY <1>3, <1>7 DEF ItemsAdded
<1> HIDE DEF key, next
<1>9. ASSUME NEW k \in Metas!Keys
      PROVE  IF \A m \in 1..(p + 1) : Metas!KeyOf(added[m]) # k THEN next[k] = records[k]
             ELSE /\ records[k] \in {NoEntry, Bare}
                  /\ \A m \in 1..(p + 1) : Metas!KeyOf(added[m]) = k =>
                       next[k] = added[m].metaData /\ next[k].nonce = k[2]
  <2>1. CASE k = key
    <3>1. Metas!KeyOf(added[p + 1]) = k
      BY <2>1 DEF key
    <3>2. records[k] \in {NoEntry, Bare}
      BY <1>8, <2>1 DEF key
    <3>3. next[k] = added[p + 1].metaData /\ next[k].nonce = k[2]
      BY <1>3, <1>5, <2>1
    <3> QED BY <1>6, <1>7, <2>1, <3>1, <3>2, <3>3
  <2>2. CASE k # key
    <3>1. Metas!KeyOf(added[p + 1]) # k
      BY <2>2 DEF key
    <3>2. next[k] = draft[k]
      BY <1>5, <2>2
    <3> QED BY <1>6, <3>1, <3>2 DEF ItemsAdded
  <2> QED BY <2>1, <2>2
<1>10. ItemsAdded(added, p + 1, next, records)
  BY <1>9 DEF ItemsAdded
<1> QED BY <1>4, <1>10 DEF next, key

-----------------------------------------------------------------------------
(* The steps *)

(* What DeletesWhatIsNamed and AddsWhatIsListed say of a step. *)
ListDeletes ==
  IF loop = "tokens" /\ loop' = "ok"
    THEN Metas!CountsFit(arguments) => metaRecords' = Metas!Without(metaRecords, Metas!Named(arguments))
    ELSE loop = "items" \/ metaRecords' = metaRecords

ListAdds ==
  loop = "items" =>
    IF loop' = "ok"
      THEN \A k \in Metas!Keys :
             LET written == {m \in DOMAIN metaItems : Metas!KeyOf(metaItems[m]) = k}
             IN IF written = {} THEN metaRecords'[k] = metaRecords[k]
                ELSE /\ metaRecords[k] \in {NoEntry, Bare}
                     /\ \A m \in written :
                          metaRecords'[k] = metaItems[m].metaData /\ metaRecords'[k].nonce = k[2]
      ELSE metaRecords' = metaRecords

ListGoesOn == ListInv' /\ ListDeletes /\ ListAdds

LEMMA RecordsKept ==
  ASSUME NEW records \in Records, NEW gone PROVE Metas!Without(records, gone) \in Records
BY DEF Records, Metas!Without

LEMMA ListFails ==
  ASSUME ListInv, Metas!Fail PROVE ListGoesOn
BY DEF ListInv, Metas!Fail, Metas!frame, ListGoesOn, ListDeletes, ListAdds

LEMMA CallDeleteKeeps ==
  ASSUME ListInv, NEW list \in Lists, Metas!CallDelete(list) PROVE ListGoesOn
<1>1. /\ metaRecords' = metaRecords /\ metaDraft' = metaDraft /\ metaDraft = metaRecords
      /\ arguments' = list /\ listIndex' = 0 /\ loop \in {"ok", "failed"}
      /\ loop' = IF Len(list) < 4 THEN "failed" ELSE "tokens"
  BY DEF ListInv, Metas!CallDelete, Metas!Idle
<1>2. CASE Len(list) < 4
  BY <1>1, <1>2 DEF ListInv, ListGoesOn, ListDeletes, ListAdds
<1>3. CASE ~(Len(list) < 4)
  <2>1. AtToken(list, 1, metaRecords, metaRecords)
    BY <1>3, ListStarts, LengthIs DEF ListInv
  <2>2. AtToken(arguments, listIndex + 1, metaDraft, metaRecords)'
    BY <1>1, <2>1
  <2> QED BY <1>1, <1>3, <2>2 DEF ListInv, ListGoesOn, ListDeletes, ListAdds
<1> QED BY <1>2, <1>3

LEMMA CallAddKeeps ==
  ASSUME ListInv, NEW list \in Additions, Metas!CallAdd(list) PROVE ListGoesOn
<1>1. /\ metaRecords' = metaRecords /\ metaDraft' = metaDraft /\ metaDraft = metaRecords
      /\ metaItems' = list /\ listIndex' = 0 /\ loop \in {"ok", "failed"}
      /\ loop' = IF list = <<>> THEN "failed" ELSE "items"
  BY DEF ListInv, Metas!CallAdd, Metas!Idle
<1>2. ItemsAdded(list, 0, metaRecords, metaRecords)
  BY DEF ItemsAdded
<1>3. ItemsAdded(metaItems, listIndex, metaDraft, metaRecords)'
  BY <1>1, <1>2
<1>4. Len(list) \in Nat
  BY DEF Metas!DeletionAssumption
<1> QED BY <1>1, <1>3, <1>4 DEF ListInv, ListGoesOn, ListDeletes, ListAdds

LEMMA NextTokenKeeps ==
  ASSUME Metas!CountsFit(arguments), ListInv, Metas!NextToken PROVE ListGoesOn
<1>1. PICK list \in Lists : list = arguments
  BY DEF ListInv, Metas!NextToken
<1>2. PICK q \in Nat : q = listIndex + 1
  BY DEF ListInv, Metas!NextToken
<1>3. AtToken(list, q, metaDraft, metaRecords)
  BY <1>1, <1>2 DEF ListInv, Metas!NextToken
<1>4. q \in 1..(Len(list) + 1) /\ Len(list) \in Nat /\ 4 <= Len(list) /\ listIndex = q - 1
  BY <1>2, <1>3, LengthIs DEF AtToken, ListInv, Metas!NextToken
<1>5. Len(list) < Metas!Modulus - 1
  <2>1. 1 \in Metas!Places(list) /\ 1 < Len(list)
    BY <1>4, PlacesAre
  <2> QED BY <1>1, <2>1, ListFits
<1>6. Metas!Add(listIndex, 1) = q
  BY <1>4, <1>5, ListConstants DEF Metas!Add
<1>7. CASE Metas!Finish /\ q >= Len(list)
  <2>1. metaDraft = Metas!Without(metaRecords, Metas!Named(list))
    BY <1>3, <1>7, ListEnds
  <2>2. /\ metaRecords' = metaDraft /\ metaDraft' = metaDraft /\ loop' = "ok" /\ loop = "tokens"
    BY <1>7 DEF Metas!Finish, Metas!NextToken
  <2> QED BY <1>1, <2>1, <2>2 DEF ListInv, ListGoesOn, ListDeletes, ListAdds
<1>8. CASE Metas!Fail
  BY <1>8, ListFails
<1>9. CASE /\ ~(q >= Len(list)) /\ Metas!Arg(listIndex) \in ListTokens /\ ~(listIndex + 2 >= Len(arguments))
           /\ listIndex' = listIndex + 2 /\ pairIndex' = listIndex + 2 /\ loop' = "intervals"
           /\ UNCHANGED <<Metas!frame, metaDraft, nonceIndex>>
  <2>1. arguments' = arguments /\ metaDraft' = metaDraft /\ metaRecords' = metaRecords /\ loop = "tokens"
    BY <1>9 DEF Metas!frame, Metas!NextToken
  <2>2. list[q] \in ListTokens /\ q + 1 < Len(list)
    BY <1>1, <1>2, <1>4, <1>9 DEF Metas!Arg
  <2>3. AtInterval(list, q, 0, metaDraft, metaRecords)
    BY <1>3, <2>2, TokenEntered
  <2>4. /\ q \in 0..Len(list)' /\ 0 \in 0..Len(list)'
        /\ listIndex' = q + 1 /\ pairIndex' = listIndex' + 2 * 0
        /\ AtInterval(arguments', q, 0, metaDraft', metaRecords')
    BY <1>1, <1>4, <1>9, <2>1, <2>2, <2>3
  <2>5. \E h, m \in 0..Len(arguments') :
          listIndex' = h + 1 /\ pairIndex' = listIndex' + 2 * m
          /\ AtInterval(arguments', h, m, metaDraft', metaRecords')
    BY <1>1, <2>1, <2>4
  <2>6. listIndex' \in Nat /\ pairIndex' \in Nat
    BY <1>4, <1>9
  <2> QED BY <1>9, <2>1, <2>5, <2>6 DEF ListInv, ListGoesOn, ListDeletes, ListAdds
<1> QED BY <1>1, <1>6, <1>7, <1>8, <1>9 DEF Metas!NextToken

LEMMA NextItemKeeps ==
  ASSUME ListInv, Metas!NextItem PROVE ListGoesOn
<1>1. PICK added \in Additions : added = metaItems
  BY DEF ListInv, Metas!NextItem
<1>2. PICK p \in 0..Len(added) : p = listIndex
  BY <1>1 DEF ListInv, Metas!NextItem
<1>3. /\ ItemsAdded(added, p, metaDraft, metaRecords) /\ loop = "items"
      /\ metaDraft \in Records /\ metaRecords \in Records
  BY <1>1, <1>2 DEF ListInv, Metas!NextItem
<1>4. Len(added) \in Nat
  BY DEF Metas!DeletionAssumption
<1>0. DOMAIN added = 1..Len(added)
  BY DEF Metas!DeletionAssumption
<1>5. CASE p >= Len(added) /\ Metas!Finish
  <2>0. p = Len(added)
    BY <1>4, <1>5
  <2>1. /\ metaRecords' = metaDraft /\ metaDraft' = metaDraft /\ loop' = "ok" /\ p = Len(added)
    BY <1>5, <2>0 DEF Metas!Finish
  <2>2. ASSUME NEW k \in Metas!Keys
        PROVE  LET written == {m \in DOMAIN added : Metas!KeyOf(added[m]) = k}
               IN IF written = {} THEN metaDraft[k] = metaRecords[k]
                  ELSE /\ metaRecords[k] \in {NoEntry, Bare}
                       /\ \A m \in written :
                            metaDraft[k] = added[m].metaData /\ metaDraft[k].nonce = k[2]
    <3> DEFINE written == {m \in DOMAIN added : Metas!KeyOf(added[m]) = k}
    <3>1. written = {} <=> \A m \in 1..p : Metas!KeyOf(added[m]) # k
      BY <1>0, <2>1
    <3>2. \A m \in written : m \in 1..p /\ Metas!KeyOf(added[m]) = k
      BY <1>0, <2>1
    <3> HIDE DEF written
    <3>3. IF written = {} THEN metaDraft[k] = metaRecords[k]
          ELSE /\ metaRecords[k] \in {NoEntry, Bare}
               /\ \A m \in written : metaDraft[k] = added[m].metaData /\ metaDraft[k].nonce = k[2]
      BY <1>3, <3>1, <3>2 DEF ItemsAdded
    <3> QED BY <3>3 DEF written
  <2>3. ListAdds
    BY <1>1, <1>3, <2>1, <2>2 DEF ListAdds
  <2> QED BY <1>3, <2>1, <2>3 DEF ListInv, ListGoesOn, ListDeletes
<1>6. CASE Metas!Fail
  BY <1>6, ListFails
<1>7. CASE /\ ~(p >= Len(added)) /\ Metas!MayAdd(metaItems[listIndex + 1])
           /\ metaDraft' = [metaDraft EXCEPT ![Metas!KeyOf(metaItems[listIndex + 1])]
                              = metaItems[listIndex + 1].metaData]
           /\ listIndex' = listIndex + 1 /\ UNCHANGED <<Metas!frame, loop, pairIndex, nonceIndex>>
  <2>1. PICK item : item = added[p + 1]
    OBVIOUS
  <2>2. metaDraft' = [metaDraft EXCEPT ![Metas!KeyOf(item)] = item.metaData] /\ Metas!MayAdd(item)
    BY <1>1, <1>2, <1>7, <2>1
  <2>3. metaDraft' \in Records /\ ItemsAdded(added, p + 1, metaDraft', metaRecords)
    <3>1. p < Len(added)
      BY <1>4, <1>7
    <3>2. /\ item.nonce # 0 /\ item.metaData.nonce = item.nonce
          /\ metaDraft[Metas!KeyOf(item)] \in {NoEntry, Bare}
      BY <2>2 DEF Metas!MayAdd
    <3>3. /\ [metaDraft EXCEPT ![Metas!KeyOf(item)] = item.metaData] \in Records
          /\ ItemsAdded(added, p + 1, [metaDraft EXCEPT ![Metas!KeyOf(item)] = item.metaData], metaRecords)
      BY <1>3, <2>1, <3>1, <3>2, ItemAdded
    <3> QED BY <2>2, <3>3
  <2>4. /\ metaItems' = added /\ metaRecords' = metaRecords /\ loop' = "items" /\ listIndex' = p + 1
    BY <1>1, <1>2, <1>3, <1>7 DEF Metas!frame
  <2>5. p + 1 \in 0..Len(added)
    BY <1>4, <1>7
  <2> QED BY <1>3, <2>3, <2>4, <2>5 DEF ListInv, ListGoesOn, ListDeletes, ListAdds
<1> QED BY <1>1, <1>2, <1>5, <1>6, <1>7 DEF Metas!NextItem

LEMMA NextIntervalKeeps ==
  ASSUME Metas!CountsFit(arguments), ListInv, Metas!NextInterval PROVE ListGoesOn
<1>0. loop = "intervals"
  BY DEF Metas!NextInterval
<1>1. PICK list \in Lists : list = arguments
  BY <1>0 DEF ListInv
<1>2. PICK h \in 0..Len(list), m \in 0..Len(list) :
        listIndex = h + 1 /\ pairIndex = listIndex + 2 * m
        /\ AtInterval(list, h, m, metaDraft, metaRecords)
  BY <1>0, <1>1 DEF ListInv
<1>3. PICK count : count = Metas!NumberIn(list, h + 1)
  OBVIOUS
<1>4. /\ Len(list) \in Nat /\ h \in Nat /\ m \in 0..count /\ h + 2 <= Len(list)
      /\ h \in Metas!Places(list) /\ h < Len(list) /\ h + 1 + 2 * m <= Len(list)
  BY <1>2, <1>3, LengthIs DEF AtInterval, InToken
<1>5. count \in Nat /\ Len(list) + 2 * count < Metas!Modulus - 1
  BY <1>1, <1>3, <1>4, ListFits
<1>6. Metas!Stop = h + 1 + 2 * count
  <2>1. Metas!Count = count
    BY <1>1, <1>2, <1>3, <1>4 DEF Metas!Count, Metas!Number
  <2>2. count + count < Metas!Modulus /\ h + 1 + (count + count) < Metas!Modulus
    BY <1>4, <1>5, ListConstants
  <2> QED BY <1>2, <1>4, <1>5, <2>1, <2>2, ListConstants DEF Metas!Stop, Metas!Add
<1>7. CASE /\ pairIndex >= Metas!Stop /\ listIndex' = Metas!Stop /\ loop' = "tokens"
           /\ UNCHANGED <<Metas!frame, metaDraft, pairIndex, nonceIndex>>
  <2>1. m = count
    BY <1>2, <1>4, <1>5, <1>6, <1>7
  <2>2. AtToken(list, Metas!Behind(list, h), metaDraft, metaRecords)
    BY <1>2, <1>3, <2>1, IntervalsRead
  <2>3. Metas!Behind(list, h) = h + 2 + 2 * count
    BY <1>3, <1>4, BehindIs
  <2>4. listIndex' \in Nat /\ listIndex' + 1 = Metas!Behind(list, h)
    BY <1>4, <1>5, <1>6, <1>7, <2>3
  <2>5. /\ arguments' = list /\ metaDraft' = metaDraft /\ metaRecords' = metaRecords
    BY <1>1, <1>7 DEF Metas!frame
  <2>6. AtToken(arguments', listIndex' + 1, metaDraft', metaRecords')
    BY <2>2, <2>4, <2>5
  <2> QED BY <1>0, <1>7, <2>4, <2>5, <2>6 DEF ListInv, ListGoesOn, ListDeletes, ListAdds
<1>8. CASE Metas!Fail
  BY <1>8, ListFails
<1>9. CASE /\ ~(pairIndex >= Metas!Stop)
           /\ ~(pairIndex > Len(arguments) - 2 \/ Metas!Number(pairIndex + 1) < Metas!Number(pairIndex)
                   \/ Metas!Number(pairIndex) = 0)
           /\ nonceIndex' = Metas!Number(pairIndex) /\ loop' = "nonces"
           /\ UNCHANGED <<Metas!frame, metaDraft, listIndex, pairIndex>>
  <2>1. m < count /\ h + 3 + 2 * m <= Len(list)
    BY <1>1, <1>2, <1>4, <1>5, <1>6, <1>9
  <2>2. pairIndex + 1 = h + 2 * m + 2 /\ pairIndex + 1 + 1 = h + 2 * m + 3
    BY <1>2, <1>4
  <2>3. /\ Metas!Number(pairIndex) = Metas!NumberIn(list, h + 2 * m + 2)
        /\ Metas!Number(pairIndex + 1) = Metas!NumberIn(list, h + 2 * m + 3)
    BY <1>1, <2>2 DEF Metas!Number
  <2>4. Metas!NumberIn(list, h + 2 * m + 2) <= Metas!NumberIn(list, h + 2 * m + 3)
    <3>1. /\ Metas!NumberIn(list, h + 2 * m + 2) \in 0..(Metas!Modulus - 1)
          /\ Metas!NumberIn(list, h + 2 * m + 3) \in 0..(Metas!Modulus - 1)
      BY <1>4, <2>1, NumbersAre
    <3> QED BY <1>9, <2>3, <3>1, ListConstants
  <2>5. InInterval(list, h, m, Metas!NumberIn(list, h + 2 * m + 2), metaDraft, metaRecords)
    BY <1>2, <1>3, <2>1, <2>4, IntervalEntered
  <2>6. /\ arguments' = list /\ metaDraft' = metaDraft /\ metaRecords' = metaRecords
        /\ listIndex' = listIndex /\ pairIndex' = pairIndex
        /\ nonceIndex' = Metas!NumberIn(list, h + 2 * m + 2)
    BY <1>1, <1>9, <2>3 DEF Metas!frame
  <2>7. InInterval(arguments', h, m, nonceIndex', metaDraft', metaRecords')
    BY <2>5, <2>6
  <2>8. \E g, k \in 0..Len(arguments') :
          listIndex' = g + 1 /\ pairIndex' = listIndex' + 2 * k
          /\ InInterval(arguments', g, k, nonceIndex', metaDraft', metaRecords')
    BY <1>2, <2>6, <2>7
  <2> QED BY <1>0, <1>1, <1>9, <2>6, <2>8 DEF ListInv, ListGoesOn, ListDeletes, ListAdds
<1> QED BY <1>7, <1>8, <1>9 DEF Metas!NextInterval

LEMMA NextNonceKeeps ==
  ASSUME Metas!CountsFit(arguments), ListInv, Metas!NextNonce PROVE ListGoesOn
<1>0. loop = "nonces"
  BY DEF Metas!NextNonce
<1>1. PICK list \in Lists : list = arguments
  BY <1>0 DEF ListInv
<1>2. PICK h \in 0..Len(list), m \in 0..Len(list) :
        listIndex = h + 1 /\ pairIndex = listIndex + 2 * m
        /\ InInterval(list, h, m, nonceIndex, metaDraft, metaRecords)
  BY <1>0, <1>1 DEF ListInv
<1>3. PICK x : x = nonceIndex
  OBVIOUS
<1>4. /\ Len(list) \in Nat /\ h \in Nat /\ m \in Nat /\ h + 3 + 2 * m <= Len(list)
      /\ h \in Metas!Places(list)
  BY <1>2, LengthIs DEF InInterval, InToken
<1>5. Len(list) < Metas!Modulus - 1
  <2>1. h < Len(list)
    BY <1>4
  <2> QED BY <1>1, <1>4, <2>1, ListFits
<1>6. Metas!Number(pairIndex + 1) = Metas!NumberIn(list, h + 2 * m + 3)
  <2>1. pairIndex + 1 + 1 = h + 2 * m + 3
    BY <1>2, <1>4
  <2> QED BY <1>1, <2>1 DEF Metas!Number
<1>7. Metas!Token = list[h]
  <2>1. listIndex - 2 + 1 = h
    BY <1>2, <1>4
  <2> QED BY <1>1, <2>1 DEF Metas!Token, Metas!Arg
<1>8. CASE /\ nonceIndex <= Metas!Number(pairIndex + 1)
           /\ metaDraft' = [k \in Metas!Keys |->
                              IF k = <<Metas!Token, nonceIndex>> THEN NoEntry ELSE metaDraft[k]]
           /\ nonceIndex' = Metas!Add(nonceIndex, 1)
           /\ UNCHANGED <<Metas!frame, loop, listIndex, pairIndex>>
  <2>1. /\ arguments' = list /\ metaRecords' = metaRecords /\ loop' = loop
        /\ listIndex' = listIndex /\ pairIndex' = pairIndex
    BY <1>1, <1>8 DEF Metas!frame
  <2>2. InInterval(list, h, m, Metas!Add(x, 1),
          [k \in Metas!Keys |-> IF k = <<list[h], x>> THEN NoEntry ELSE metaDraft[k]], metaRecords)
    BY <1>2, <1>3, <1>6, <1>8, NonceDeleted
  <2>3. InInterval(arguments', h, m, nonceIndex', metaDraft', metaRecords')
    BY <1>3, <1>7, <1>8, <2>1, <2>2
  <2>4. \E g, k \in 0..Len(arguments') :
          listIndex' = g + 1 /\ pairIndex' = listIndex' + 2 * k
          /\ InInterval(arguments', g, k, nonceIndex', metaDraft', metaRecords')
    BY <1>2, <2>1, <2>3
  <2>5. metaDraft' \in Records
    BY <1>8 DEF ListInv, Records
  <2> QED BY <1>0, <1>1, <2>1, <2>4, <2>5 DEF ListInv, ListGoesOn, ListDeletes, ListAdds
<1>9. CASE /\ ~(nonceIndex <= Metas!Number(pairIndex + 1)) /\ pairIndex' = Metas!Add(pairIndex, 2)
           /\ loop' = "intervals" /\ UNCHANGED <<Metas!frame, metaDraft, listIndex, nonceIndex>>
  <2>1. /\ arguments' = list /\ metaRecords' = metaRecords /\ metaDraft' = metaDraft
        /\ listIndex' = listIndex
    BY <1>1, <1>9 DEF Metas!frame
  <2>2. AtInterval(list, h, m + 1, metaDraft, metaRecords)
    BY <1>2, <1>3, <1>6, <1>9, IntervalLeft
  <2>3. pairIndex' = listIndex + 2 * (m + 1) /\ pairIndex' \in Nat
    BY <1>2, <1>4, <1>5, <1>9, ListConstants DEF Metas!Add
  <2>4. m + 1 \in 0..Len(list)
    BY <1>4
  <2>5. \E g, k \in 0..Len(arguments') :
          listIndex' = g + 1 /\ pairIndex' = listIndex' + 2 * k
          /\ AtInterval(arguments', g, k, metaDraft', metaRecords')
    BY <1>2, <2>1, <2>2, <2>3, <2>4
  <2> QED BY <1>0, <1>1, <1>9, <2>1, <2>3, <2>5 DEF ListInv, ListGoesOn, ListDeletes, ListAdds
<1> QED BY <1>8, <1>9 DEF Metas!NextNonce

(* With a count that wraps, the loops may read anything, but write to the draft only. *)
LEMMA StrayKeeps ==
  ASSUME ~Metas!CountsFit(arguments), ListInv,
         Metas!NextToken \/ Metas!NextInterval \/ Metas!NextNonce
  PROVE  ListGoesOn
<1>1. CASE Metas!Fail
  BY <1>1, ListFails
<1>2. CASE Metas!Finish /\ loop = "tokens"
  BY <1>2 DEF ListInv, Metas!Finish, ListGoesOn, ListDeletes, ListAdds
<1>3. CASE /\ loop \in {"tokens", "intervals", "nonces"} /\ loop' \in {"tokens", "intervals", "nonces"}
           /\ UNCHANGED Metas!frame /\ metaDraft' \in Records
  BY <1>3 DEF ListInv, Metas!frame, ListGoesOn, ListDeletes, ListAdds
<1>4. CASE Metas!NextToken
  BY <1>1, <1>2, <1>3, <1>4 DEF Metas!NextToken, ListInv
<1>5. CASE Metas!NextInterval
  BY <1>1, <1>3, <1>5 DEF Metas!NextInterval, ListInv
<1>6. CASE Metas!NextNonce
  <2>1. metaDraft' = metaDraft \/ metaDraft' = Metas!Without(metaDraft, {<<Metas!Token, nonceIndex>>})
    BY <1>6 DEF Metas!NextNonce, Metas!Without
  <2>2. metaDraft' \in Records
    BY <2>1, RecordsKept DEF ListInv
  <2> QED BY <1>3, <1>6, <2>2 DEF Metas!NextNonce
<1> QED BY <1>4, <1>5, <1>6

LEMMA ListInvInit == Metas!Init => ListInv
BY DEF Metas!Init, ListInv, Records, Metas!DeletionAssumption

LEMMA ListStepKeeps ==
  ASSUME ListInv, [TokenNext]_tokenVars PROVE ListGoesOn \/ UNCHANGED listed
<1>1. CASE Metas!Next
  BY <1>1, CallDeleteKeeps, CallAddKeeps, NextTokenKeeps, NextIntervalKeeps, NextNonceKeeps, NextItemKeeps,
     StrayKeeps
     DEF Metas!Next, Metas!Running
<1>2. CASE UNCHANGED listed
  BY <1>2
<1> QED BY <1>1, <1>2 DEF TokenNext, BatchStep, SettingStep, ListStep, tokenVars

LEMMA ListStutter == ASSUME ListInv, UNCHANGED listed PROVE ListInv'
BY DEF listed, ListInv

(* deleteMetadata deletes from the shard what its list names and nothing else, or nothing
   at all, and addMetadata adds all of its items or none and replaces no metadata: for all
   lists, nonces and widths.  Of a list with a count of intervals so large that the index
   behind them wraps it says only that the shard keeps what it had until the call ends. *)
THEOREM ListsAlwaysDoWhatTheyName == TokenSpec => ListsDoWhatTheyName
<1>1. TokenInit => ListInv
  BY ListInvInit DEF TokenInit
<1>2. ListInv /\ [TokenNext]_tokenVars => ListInv'
  BY ListStepKeeps, ListStutter DEF ListGoesOn
<1>3. ListInv /\ [TokenNext]_tokenVars => [ListDeletes]_(Metas!vars) /\ [ListAdds]_(Metas!vars)
  BY ListStepKeeps DEF ListGoesOn, listed, Metas!vars
<1>4. Metas!DeletesWhatIsNamed <=> [][ListDeletes]_(Metas!vars)
  BY DEF Metas!DeletesWhatIsNamed, ListDeletes
<1>5. Metas!AddsWhatIsListed <=> [][ListAdds]_(Metas!vars)
  BY DEF Metas!AddsWhatIsListed, ListAdds
<1> QED BY <1>1, <1>2, <1>3, <1>4, <1>5, PTL DEF TokenSpec, ListsDoWhatTheyName
=============================================================================
