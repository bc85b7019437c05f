--------------------------- MODULE OutputIndices ---------------------------
(* The indices of output transfers (output.go): a contract sends transfers of *)
(* its own and calls built-in functions, whose outputs number theirs from 1.  *)
(* ReindexTransfers moves each output behind what has been numbered before,   *)
(* with the counter of the virtual machine, which hands out the next index to *)
(* the contract's own transfers too. The node carries transfers out by index. *)
EXTENDS Integers, FiniteSets, FiniteSetsExt

CONSTANTS
  Accounts,  \* where transfers go
  MaxOutput, \* bound on the transfers of one output
  MaxIndex   \* bound on the transfers altogether

IndexAssumption == MaxOutput \in Nat /\ MaxIndex \in Nat

VARIABLES
  transfers, \* what the contract puts out, with the order they were made in
  crtIndex   \* of the NextOutputTransferIndexProvider: the next one
vars == <<transfers, crtIndex>>

Init == transfers = {} /\ crtIndex = 1

Made == Cardinality(transfers)

(* NextOutputTransferIndex.                                                   *)
OwnTransfer(a) ==
  /\ Made < MaxIndex
  /\ transfers' = transfers \cup {[to |-> a, index |-> crtIndex, order |-> Made + 1]}
  /\ crtIndex' = crtIndex + 1

(* The output of a function, n transfers to accounts f[1], ..., f[n].         *)
Output(f) ==
  {[to |-> f[i], index |-> i, order |-> Made + i] : i \in DOMAIN f}

(* GetNextAvailableOutputTransferIndex.                                       *)
NextAvailable_OfAccounts(output) == 1 + Cardinality({t.to : t \in output})
NextAvailable(output) == 1 + Max({0} \cup {t.index : t \in output})

Reindexed(output) == {[t EXCEPT !.index = @ + (crtIndex - 1)] : t \in output}

(* The counter stays where it is when nothing was moved. Outputs come numbered:*)
(* one that is not is an error, which is left out.                             *)
ReindexTransfers(output) ==
  /\ Made + Cardinality(output) <= MaxIndex
  /\ transfers' = transfers \cup Reindexed(output)
  /\ crtIndex' = IF output = {} THEN crtIndex ELSE NextAvailable(Reindexed(output))

Next ==
  \/ \E a \in Accounts : OwnTransfer(a)
  \/ \E n \in 0..MaxOutput : \E f \in [1..n -> Accounts] : ReindexTransfers(Output(f))

Spec == Init /\ [][Next]_vars

-----------------------------------------------------------------------------
TypeOK ==
  /\ transfers \subseteq [to : Accounts, index : 1..MaxIndex, order : 1..MaxIndex]
  /\ crtIndex \in 1..(MaxIndex + 1)

(* The node carries the transfers out in the order in which they were made,   *)
(* whichever came from the contract and whichever from functions it called.   *)
CarriedInOrder == \A t, u \in transfers : t.order < u.order => t.index < u.index
=============================================================================
