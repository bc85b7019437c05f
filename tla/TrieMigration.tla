--------------------------- MODULE TrieMigration ---------------------------
(* MigrateDataTrie (migrateDataTrie.go, dataTrieMigrator.go): anybody may pay *)
(* for moving leaves of the data trie of an account to the new version, as    *)
(* many as the gas of the call allows. The trie is the node's: it visits the  *)
(* leaves, moved ones too, in an order of its own, asks the migrator for    *)
(* the gas of each load, then offers it the leaf, stops at the first answer   *)
(* that is no, and at the end writes the leaves the migrator has queued.      *)
(* Gas is an unsigned integer, below Modulus.                                 *)
EXTENDS Integers, FiniteSets

CONSTANTS
  Leaves,
  Modulus,                            \* of gas, 2^64 in the code
  TrieLoadPerNode, TrieStorePerNode,  \* the gas schedule
  GasLimits,                          \* what a call may provide
  NoLeaf

Minus(x, y) == (x - y) % Modulus
Versions == {"NotSpecified", "AutoBalanceEnabled"}

ASSUME MigrationAssumption ==
  /\ Modulus \in Nat \ {0} /\ IsFiniteSet(Leaves) /\ NoLeaf \notin Leaves
  /\ TrieLoadPerNode \in Nat \ {0} /\ TrieStorePerNode \in Nat \ {0}
  /\ GasLimits \subseteq 0..(Modulus - 1)

VARIABLES
  version,      \* the version of each leaf, as stored
  provided,     \* the gas of the running call, or of the last one
  gasRemaining,
  queued,       \* leavesToBeMigrated
  visited,      \* leaves the walk has come to
  loads,        \* loads the call has paid
  leaf,         \* the leaf that is loaded and not offered yet
  walking,      \* a call is running
  goOn          \* the last answer of the migrator
vars == <<version, provided, gasRemaining, queued, visited, loads, leaf, walking, goOn>>

Init ==
  /\ version \in [Leaves -> Versions]
  /\ provided = 0 /\ gasRemaining = 0 /\ queued = {} /\ visited = {} /\ loads = 0
  /\ leaf = NoLeaf /\ walking = FALSE /\ goOn = TRUE

(* ProcessBuiltinFunction: a call must bring the gas of one load and one      *)
(* store.                                                                     *)
Call(gas) ==
  /\ ~walking
  /\ gas >= (TrieLoadPerNode + TrieStorePerNode) % Modulus
  /\ provided' = gas /\ gasRemaining' = gas
  /\ queued' = {} /\ visited' = {} /\ loads' = 0 /\ leaf' = NoLeaf
  /\ walking' = TRUE /\ goOn' = TRUE
  /\ UNCHANGED version

ConsumeStorageLoadGas(l) ==
  /\ walking /\ goOn /\ leaf = NoLeaf /\ l \notin visited
  /\ visited' = visited \cup {l}
  /\ IF gasRemaining < TrieLoadPerNode
       THEN goOn' = FALSE /\ UNCHANGED <<gasRemaining, loads>>
       ELSE /\ gasRemaining' = Minus(gasRemaining, TrieLoadPerNode)
            /\ loads' = loads + 1
            /\ goOn' = (gasRemaining' > TrieLoadPerNode)
  /\ leaf' = IF goOn' THEN l ELSE NoLeaf
  /\ UNCHANGED <<version, provided, queued, walking>>

AddLeafToMigrationQueue_Unpaid ==
  /\ leaf # NoLeaf /\ leaf' = NoLeaf
  /\ IF gasRemaining < TrieStorePerNode THEN goOn' = FALSE /\ UNCHANGED <<gasRemaining, queued>>
     ELSE /\ UNCHANGED gasRemaining
          /\ queued' = queued \cup {leaf}
          /\ goOn' = (gasRemaining' > TrieStorePerNode)
  /\ UNCHANGED <<version, provided, visited, loads, walking>>

AddLeafToMigrationQueue_WantsMore ==
  /\ leaf # NoLeaf /\ leaf' = NoLeaf
  /\ IF gasRemaining <= TrieStorePerNode THEN goOn' = FALSE /\ UNCHANGED <<gasRemaining, queued>>
     ELSE /\ IF version[leaf] = "NotSpecified"
               THEN /\ gasRemaining' = Minus(gasRemaining, TrieStorePerNode)
                    /\ queued' = queued \cup {leaf}
               ELSE UNCHANGED <<gasRemaining, queued>>
          /\ goOn' = (gasRemaining' > TrieStorePerNode)
  /\ UNCHANGED <<version, provided, visited, loads, walking>>

AddLeafToMigrationQueue ==
  /\ leaf # NoLeaf /\ leaf' = NoLeaf
  /\ IF gasRemaining < TrieStorePerNode THEN goOn' = FALSE /\ UNCHANGED <<gasRemaining, queued>>
     ELSE /\ IF version[leaf] = "NotSpecified"
               THEN /\ gasRemaining' = Minus(gasRemaining, TrieStorePerNode)
                    /\ queued' = queued \cup {leaf}
               ELSE UNCHANGED <<gasRemaining, queued>>
          /\ goOn' = (gasRemaining' > TrieStorePerNode)
  /\ UNCHANGED <<version, provided, visited, loads, walking>>

(* The walk is over; the account writes what is queued (MigrateDataTrieLeaves,*)
(* SaveAccount), and the call returns what gas is left.                       *)
Return ==
  /\ walking /\ leaf = NoLeaf /\ (~goOn \/ visited = Leaves)
  /\ version' = [l \in Leaves |-> IF l \in queued THEN "AutoBalanceEnabled" ELSE version[l]]
  /\ walking' = FALSE
  /\ UNCHANGED <<provided, gasRemaining, queued, visited, loads, leaf, goOn>>

Next ==
  \/ \E gas \in GasLimits : Call(gas)
  \/ \E l \in Leaves : ConsumeStorageLoadGas(l)
  \/ AddLeafToMigrationQueue
  \/ Return

Spec == Init /\ [][Next]_vars

-----------------------------------------------------------------------------
TypeOK ==
  /\ version \in [Leaves -> Versions]
  /\ provided \in 0..(Modulus - 1) /\ gasRemaining \in 0..(Modulus - 1) /\ loads \in Nat
  /\ queued \in SUBSET visited /\ visited \in SUBSET Leaves
  /\ leaf \in visited \cup {NoLeaf} /\ leaf \notin queued
  /\ walking \in BOOLEAN /\ goOn \in BOOLEAN

(* Every load and every leaf moved is paid once, and the rest is returned:    *)
(* the unsigned subtractions never wrap, wherever the walk is cut off.        *)
GasIsPaid ==
  provided = gasRemaining + TrieLoadPerNode * loads + TrieStorePerNode * Cardinality(queued)

(* The gas of a call stays in its range and is accounted for: no subtraction wraps. *)
GasHolds == TypeOK /\ GasIsPaid

(* The queue holds leaves of the old version only, so that none is paid for   *)
(* twice, by calls that come one after another either.                        *)
PaidOnce ==
  [][\A l \in queued' \ queued : version[l] = "NotSpecified"]_vars

(* A call that could load every leaf, and has more than a load and the gas of *)
(* a store besides, moves a leaf where one is left to move: a walk that meets *)
(* moved leaves first does not spend it all on them.                          *)
OldLeaves == {l \in Leaves : version[l] = "NotSpecified"}
Ample ==
  LET rest == provided - TrieLoadPerNode * Cardinality(Leaves)
  IN rest > TrieLoadPerNode /\ rest >= TrieStorePerNode
AmpleGasMoves ==
  [][walking /\ ~walking' /\ Ample /\ OldLeaves # {} => OldLeaves' # OldLeaves]_vars
=============================================================================
