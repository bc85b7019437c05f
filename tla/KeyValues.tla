----------------------------- MODULE KeyValues -----------------------------
(* SaveKeyValue (keyValueStorage.go): the owner of an account writes pairs of *)
(* keys and values to its storage and pays for the bytes it persists and for  *)
(* those by which the storage grows. The pairs are written one by one, and a  *)
(* pair that is refused ends the call: the node drops what it has written. A  *)
(* value is its length with a mark that tells values of one length apart; gas *)
(* is an unsigned integer below Modulus.                                      *)
EXTENDS Amounts

CONSTANTS
  Keys, KeyLength, \* keys, and how long each is
  Protected,       \* keys that are kept for the protocol
  Lengths, Marks,  \* of values
  Modulus,         \* of gas, 2^64 in the code
  SaveKeyValue, PersistPerByte, StorePerByte,  \* the gas schedule
  GasLimits,       \* what a caller may provide
  MaxItems,        \* bound on the pairs of a call
  MaxPaid,         \* bound on the gas paid altogether
  FixGasRemaining  \* the flag FixGasRemainingForSaveKeyValueFlag

Nothing == [length |-> 0, mark |-> 0]
Values == {v \in [length : Lengths, mark : Marks] : v.length = 0 => v = Nothing}
Items == [key : Keys, value : Values]

KeyValueAssumption ==
  /\ IsFiniteSet(Keys) /\ KeyLength \in [Keys -> Nat] /\ Protected \subseteq Keys
  /\ Lengths \subseteq Nat /\ 0 \in Lengths /\ 0 \in Marks
  /\ Modulus \in Nat /\ GasLimits \subseteq 0..(Modulus - 1)
  /\ {SaveKeyValue, PersistPerByte, StorePerByte} \subseteq 1..(Modulus - 1)
  /\ FixGasRemaining \in BOOLEAN /\ {MaxItems, MaxPaid} \subseteq Nat

VARIABLES
  storage,  \* the value under each key, Nothing where there is none
  paid,     \* gas used by the calls that succeeded
  working,  \* the storage as the running call has written it
  items,    \* the pairs it has written
  gas,      \* what they cost, useGas
  provided, \* GasProvided, of the running call or the last one
  running,
  returned  \* the gas the last call gave back
vars == <<storage, paid, working, items, gas, provided, running, returned>>

Init ==
  /\ storage = [k \in Keys |-> Nothing] /\ working = storage
  /\ paid = 0 /\ items = 0 /\ gas = 0 /\ provided = 0 /\ returned = 0
  /\ running = FALSE

Call(limit) ==
  /\ ~running /\ running' = TRUE
  /\ working' = storage /\ items' = 0
  /\ gas' = SaveKeyValue /\ provided' = limit /\ returned' = 0
  /\ UNCHANGED <<storage, paid>>

(* IsAllowedToSaveUnderKey.                                                   *)
MaySave(key) == key \notin Protected

Growth(old, new) == IF old.length < new.length THEN new.length - old.length ELSE 0

(* The gas so far with that of the bytes of a pair, and with that of growth.  *)
Persisted(item) ==
  (gas + (item.value.length + KeyLength[item.key]) * PersistPerByte) % Modulus
Stored(item) ==
  (Persisted(item) + StorePerByte * Growth(working[item.key], item.value)) % Modulus

(* One round of the loop: the gas is compared where something is written.     *)
Save_FreeGrowth(item) ==
  /\ running /\ items < MaxItems /\ items' = items + 1
  /\ MaySave(item.key)
  /\ gas' = Persisted(item) /\ gas' <= provided
  /\ working' = [working EXCEPT ![item.key] = item.value]
  /\ UNCHANGED <<storage, paid, provided, running, returned>>

Save(item) ==
  /\ running /\ items < MaxItems /\ items' = items + 1
  /\ MaySave(item.key)
  /\ IF working[item.key] = item.value
       THEN gas' = Persisted(item) /\ UNCHANGED working
       ELSE /\ gas' = Stored(item) /\ gas' <= provided
            /\ working' = [working EXCEPT ![item.key] = item.value]
  /\ UNCHANGED <<storage, paid, provided, running, returned>>

(* subtractGasFromVMoutput: before the flag the gas of a call is taken off    *)
(* without a look at what is there.                                           *)
MayPay == FixGasRemaining => gas <= provided

Return ==
  /\ running /\ items > 0 /\ MayPay
  /\ paid + gas <= MaxPaid
  /\ storage' = working /\ paid' = paid + gas
  /\ returned' = (provided - gas) % Modulus
  /\ running' = FALSE
  /\ UNCHANGED <<working, items, gas, provided>>

Refused(item) ==
  \/ ~MaySave(item.key)
  \/ working[item.key] # item.value /\ Stored(item) > provided

Fail ==
  /\ running
  /\ \/ items < MaxItems /\ \E item \in Items : Refused(item)
     \/ items > 0 /\ ~MayPay
  /\ running' = FALSE /\ returned' = 0
  /\ UNCHANGED <<storage, paid, working, items, gas, provided>>

Next ==
  \/ \E limit \in GasLimits : Call(limit)
  \/ \E item \in Items : Save(item)
  \/ Return \/ Fail

Spec == Init /\ [][Next]_vars

-----------------------------------------------------------------------------
(* The keys of the protocol keep what they have: here, nothing.               *)
TypeOK ==
  /\ storage \in [Keys -> Values] /\ working \in [Keys -> Values]
  /\ \A k \in Protected : storage[k] = Nothing
  /\ paid \in 0..MaxPaid /\ items \in 0..MaxItems /\ running \in BOOLEAN
  /\ {gas, provided, returned} \subseteq 0..(Modulus - 1)

(* A call never returns more gas than it was given, though it compares only   *)
(* after the pairs that change something.                                     *)
NoGasFromNowhere == returned <= provided

(* What is stored has been paid for, byte by byte, however values were grown, *)
(* cut and grown again, in one call or in many.                               *)
Bytes(store) == Total([k \in Keys |-> store[k].length])
StorageIsPaid == StorePerByte * Bytes(storage) <= paid
=============================================================================
