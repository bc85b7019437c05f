-------------------------- MODULE MetaDataDeletion --------------------------
(* ESDTDeleteMetadata and ESDTAddMetadata (esdtDeleteMetadata.go): an         *)
(* administrator deletes and adds the metadata on the system account of a     *)
(* shard. The list of a deletion is read by three nested loops whose indices  *)
(* and nonces are unsigned integers of Width bits, 64 in the code. One step   *)
(* is one round of one of the loops.                                          *)
(*                                                                            *)
(* An argument is bytes: a token identifier that is read where a number is    *)
(* expected is some number, TokenNumber. Whether the caller is the            *)
(* administrator is checked before and left out, and so are items of an       *)
(* addition that refuse it as such: with an identifier that is not valid, or  *)
(* metadata that does not decode.                                             *)
EXTENDS Integers, Sequences

CONSTANTS
  Width,
  Tokens,       \* valid token identifiers
  TokenNumber,  \* what an identifier is as a number
  Numbers,      \* the other arguments
  Lists,        \* the arguments a deletion may be called with
  Items,        \* the lists of items an addition may be called with
  Nonces,       \* nonces that may have metadata
  Contents,     \* metadata, each with the nonce in it: [nonce, content]
  NoEntry,      \* no record on the system account
  Bare,         \* a record without metadata
  Starts,       \* what may be stored before the first call
  MaxCalls      \* bound on the calls

Modulus == 2 ^ Width
Keys == Tokens \X Nonces
MetaData == [nonce: Numbers, content: Contents]
Arguments == Numbers \cup Tokens
AddItems == [token: Tokens, nonce: Nonces \cup {0}, metaData: MetaData]

DeletionAssumption ==
  /\ Width \in Nat /\ Modulus \in Nat /\ Numbers \subseteq 0..(Modulus - 1) /\ TokenNumber \in 0..(Modulus - 1)
  /\ Tokens \cap Numbers = {} /\ Nonces \subseteq Numbers
  /\ {NoEntry, Bare} \cap MetaData = {} /\ NoEntry # Bare
  /\ Starts \subseteq [Keys -> MetaData \cup {NoEntry, Bare}]
  /\ Lists \subseteq Seq(Arguments) /\ Items \subseteq Seq(AddItems)
  /\ MaxCalls \in Nat

VARIABLES
  store,    \* the records on the system account, as saved
  working,  \* the account as the call sees it
  args,     \* the arguments of the deletion that runs or was the last call
  items,    \* those of the addition
  pc,       \* the loop the call is in, or how it ended
  i, j, nonce, \* the indices of the loops, counted from 0 as in the code
  calls
vars == <<store, working, args, items, pc, i, j, nonce, calls>>
frame == <<store, args, items, calls>>

NumberIn(list, k) == IF list[k] \in Tokens THEN TokenNumber ELSE list[k]
Arg(k) == args[k + 1]
Number(k) == NumberIn(args, k + 1)
Add(x, y) == (x + y) % Modulus

Init ==
  /\ store \in Starts
  /\ working = store
  /\ args = <<>> /\ items = <<>> /\ pc = "ok" /\ i = 0 /\ j = 0 /\ nonce = 0 /\ calls = 0

Idle == pc \in {"ok", "failed"}

Fail ==
  /\ pc' = "failed" /\ working' = store
  /\ UNCHANGED <<frame, i, j, nonce>>

Finish ==
  /\ pc' = "ok" /\ store' = working
  /\ UNCHANGED <<working, args, items, i, j, nonce, calls>>

-----------------------------------------------------------------------------
(* deleteMetadata *)

CallDelete(list) ==
  /\ Idle /\ calls < MaxCalls
  /\ calls' = calls + 1 /\ args' = list /\ items' = <<>>
  /\ pc' = IF Len(list) < 4 THEN "failed" ELSE "tokens"
  /\ i' = 0 /\ j' = 0 /\ nonce' = 0
  /\ UNCHANGED <<store, working>>

Count == Number(i - 1)
Stop == Add(i, Add(Count, Count))

NextToken ==
  /\ pc = "tokens"
  /\ IF Add(i, 1) >= Len(args) THEN Finish
     ELSE IF Arg(i) \notin Tokens \/ i + 2 >= Len(args) THEN Fail
     ELSE /\ i' = i + 2 /\ j' = i + 2 /\ pc' = "intervals"
          /\ UNCHANGED <<frame, working, nonce>>

(* The token of the interval is the argument before the count.                *)
Token == Arg(i - 2)

NextInterval ==
  /\ pc = "intervals"
  /\ IF j >= Stop THEN /\ i' = Stop /\ pc' = "tokens" /\ UNCHANGED <<frame, working, j, nonce>>
     ELSE IF j > Len(args) - 2 \/ Number(j + 1) < Number(j) \/ Number(j) = 0 THEN Fail
     ELSE /\ nonce' = Number(j) /\ pc' = "nonces"
          /\ UNCHANGED <<frame, working, i, j>>

NextNonce_SkipsLast ==
  /\ pc = "nonces"
  /\ IF nonce < Number(j + 1)
       THEN /\ working' = [k \in Keys |-> IF k = <<Token, nonce>> THEN NoEntry ELSE working[k]]
            /\ nonce' = Add(nonce, 1) /\ UNCHANGED <<frame, pc, i, j>>
       ELSE /\ j' = Add(j, 2) /\ pc' = "intervals" /\ UNCHANGED <<frame, working, i, nonce>>

NextNonce_SameInterval ==
  /\ pc = "nonces"
  /\ IF nonce <= Number(j + 1)
       THEN /\ working' = [k \in Keys |-> IF k = <<Token, nonce>> THEN NoEntry ELSE working[k]]
            /\ nonce' = Add(nonce, 1) /\ UNCHANGED <<frame, pc, i, j>>
       ELSE /\ pc' = "intervals" /\ UNCHANGED <<frame, working, i, j, nonce>>

NextNonce ==
  /\ pc = "nonces"
  /\ IF nonce <= Number(j + 1)
       THEN /\ working' = [k \in Keys |-> IF k = <<Token, nonce>> THEN NoEntry ELSE working[k]]
            /\ nonce' = Add(nonce, 1) /\ UNCHANGED <<frame, pc, i, j>>
       ELSE /\ j' = Add(j, 2) /\ pc' = "intervals" /\ UNCHANGED <<frame, working, i, nonce>>

-----------------------------------------------------------------------------
(* addMetadata: what an item finds includes what the items before it wrote.   *)

CallAdd(list) ==
  /\ Idle /\ calls < MaxCalls
  /\ calls' = calls + 1 /\ items' = list /\ args' = <<>>
  /\ pc' = IF list = <<>> THEN "failed" ELSE "items"
  /\ i' = 0 /\ j' = 0 /\ nonce' = 0
  /\ UNCHANGED <<store, working>>

KeyOf(item) == <<item.token, item.nonce>>

MayAdd(item) ==
  /\ item.nonce # 0 /\ item.metaData.nonce = item.nonce
  /\ working[KeyOf(item)] \in {NoEntry, Bare}

NextItem ==
  /\ pc = "items"
  /\ IF i >= Len(items) THEN Finish
     ELSE IF ~MayAdd(items[i + 1]) THEN Fail
     ELSE /\ working' = [working EXCEPT ![KeyOf(items[i + 1])] = items[i + 1].metaData]
          /\ i' = i + 1 /\ UNCHANGED <<frame, pc, j, nonce>>

Running == NextToken \/ NextInterval \/ NextNonce \/ NextItem

Next ==
  \/ /\ Idle
     /\ \/ \E list \in Lists : CallDelete(list)
        \/ \E list \in Items : CallAdd(list)
  \/ Running

(* A call that runs goes on.                                                  *)
Fairness == WF_vars(Running)
Spec == Init /\ [][Next]_vars /\ Fairness

-----------------------------------------------------------------------------
(* The keys a list names. A list is read from its start: a token, a count of  *)
(* intervals, that many pairs, and behind them the next token; an argument    *)
(* left over at the end is dropped. The places of the tokens are the smallest *)
(* set with the start and, for each place, the one behind its pairs.          *)
Behind(list, h) == h + 2 + 2 * NumberIn(list, h + 1)

Follows(list, H) ==
  \A h \in H : h < Len(list) /\ Behind(list, h) <= Len(list) => Behind(list, h) \in H

Places(list) ==
  LET closed == {H \in SUBSET (1..Len(list)) : 1 \in H /\ Follows(list, H)}
  IN {h \in 1..Len(list) : \A H \in closed : h \in H}

(* What the first m intervals behind a token at h name.                       *)
NamedBy(list, h, m) ==
  {list[h]} \X {n \in Nonces :
                  \E k \in 1..m : n \in NumberIn(list, h + 2 * k)..NumberIn(list, h + 2 * k + 1)}

Named(list) ==
  UNION {NamedBy(list, h, NumberIn(list, h + 1)) : h \in {p \in Places(list) : p < Len(list)}}

(* No count of intervals is so large that the index behind them wraps: 2^63   *)
(* of them would fit no call.                                                 *)
CountsFit(list) ==
  \A h \in Places(list) :
    h < Len(list) => Len(list) + 2 * NumberIn(list, h + 1) < Modulus - 1

Without(book, keys) == [k \in Keys |-> IF k \in keys THEN NoEntry ELSE book[k]]

(* A deletion that succeeds has deleted what its list names and nothing else, *)
(* and until it does, and when it fails, the shard keeps what it had. Of a    *)
(* list with a count that wraps the index only the latter is said.            *)
DeletesWhatIsNamed ==
  [][IF pc = "tokens" /\ pc' = "ok"
       THEN CountsFit(args) => store' = Without(store, Named(args))
       ELSE pc = "items" \/ store' = store]_vars

(* An addition that succeeds has added all of its items and nothing else, and *)
(* none where metadata was or under another nonce than its own; one that      *)
(* fails has added nothing.                                                   *)
AddsWhatIsListed ==
  [][pc = "items" =>
       IF pc' = "ok"
         THEN \A k \in Keys :
                LET listed == {m \in DOMAIN items : KeyOf(items[m]) = k}
                IN IF listed = {} THEN store'[k] = store[k]
                   ELSE /\ store[k] \in {NoEntry, Bare}
                        /\ \A m \in listed : store'[k] = items[m].metaData /\ store'[k].nonce = k[2]
         ELSE store' = store]_vars

(* An interval that ends at the largest number: no nonce is beyond its end.   *)
Unending == pc = "nonces" /\ Number(j + 1) = Modulus - 1

(* A count so large that the index behind its intervals wraps, and a token    *)
(* may be read again.                                                         *)
Wraps == pc = "intervals" /\ i + 2 * Count >= Modulus

(* Every call ends, unless it is in an interval up to the largest number,     *)
(* which it never leaves, or comes back to a count that wraps the index:      *)
(* nothing else that the caller writes into its list keeps the loops going.   *)
CallsEnd ==
  /\ []<>(Idle \/ Unending \/ Wraps)
  /\ [](Unending => []Unending)
=============================================================================
