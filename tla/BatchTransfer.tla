---------------------------- MODULE BatchTransfer ----------------------------
(* MultiESDTNFTTransfer (multiESDTNFTTransfer.go): a batch of tokens, the     *)
(* native coin among them, taken from the sender one after the other and put  *)
(* under the receiver one after the other, in the same call when both live in *)
(* one shard, in a second call on the other shard when not.                   *)
(*                                                                            *)
(* A token here is an identifier with its nonce. Metadata, old records and    *)
(* updated entries are in NFTLiquidity, limited transfer and pause in         *)
(* ESDTLedger, the reasons of the gate in DRWAGate: here the gate refuses     *)
(* whoever is in "denied", which may change at any time.                      *)
(*                                                                            *)
(* One step is one round of the loop over the items. A call writes to the     *)
(* accounts of its shard, which are saved when it ends; a call that fails     *)
(* leaves no trace. The node executes the calls of a shard one after the      *)
(* other, and those of other shards meanwhile read and write nothing of this  *)
(* one's, so that nothing else happens here while a call runs.                *)
EXTENDS Amounts, Sequences, SequencesExt

CONSTANTS
  Accounts, Shards, ShardOf,
  Tokens,
  Native,      \* the coin: in the account's balance, without a record
  Nonced,      \* tokens with a nonce, counted in the liquidity of each shard
  Regulated,   \* pairs <<account, token>> the gate may deny
  Freezable,   \* pairs <<account, token>> that may be frozen
  NotPayable,  \* contracts that take nothing without a call
  Start,       \* what each account has of each token
  Values,      \* the amounts a call may name
  MaxItems,    \* bound on the tokens of a batch
  Gases,       \* what a call on the destination shard may have as GasProvided
  ReadCost,    \* drwaReadGas; 0, with nothing Regulated, without enforcement
  Slots, NoSlot, NoMessage, NoBook

Items == [token: Tokens, value: Values]
Batches == BoundedSeq(Items, MaxItems)
Messages == [from: Accounts, to: Accounts, items: Batches, ret: BOOLEAN]
Amounted == [from: Accounts, to: Accounts, amount: [Tokens -> Nat]]  \* one, as BatchBook sees it

BatchAssumption ==
  /\ IsFiniteSet(Accounts) /\ ShardOf \in [Accounts -> Shards]
  /\ Native \in Tokens /\ Nonced \subseteq Tokens \ {Native}
  /\ Regulated \subseteq Accounts \X Tokens /\ Freezable \subseteq Accounts \X (Tokens \ {Native})
  /\ NotPayable \subseteq Accounts
  /\ Start \in [Accounts -> [Tokens -> Nat]]
  /\ Values \subseteq Nat /\ MaxItems \in Nat
  /\ Gases \subseteq Nat /\ ReadCost \in Nat
  /\ NoMessage \notin Messages \cup Amounted /\ NoSlot \notin Slots

VARIABLES
  balance,    \* Value of the record of each token under each account
  frozen,     \* pairs <<account, token>> with the Frozen bit in the record
  liquidity,  \* per shard and token with a nonce, on the system account
  denied,     \* pairs the gate denies at this moment
  inflight,   \* the call on the other shard, until it is executed
  stranded,   \* history: how much of each token was in refunds that were refused
  call,       \* the call that runs; on the sender's shard, with the items so far
  slot,       \* of the message it executes, NoSlot on the sender's shard
  done,       \* the items it has been through
  book        \* balance, frozen and liquidity as it has written them
accounts == <<balance, frozen, liquidity>>
running == <<call, slot, done, book>>
vars == <<accounts, denied, inflight, stranded, running>>

Residents(s) == {a \in Accounts : ShardOf[a] = s}
Circulating(holdings, s, t) == Total([a \in Residents(s) |-> holdings[a][t]])

Init ==
  /\ balance = Start
  /\ frozen = {} /\ denied = {}
  /\ liquidity = [s \in Shards |-> [t \in Nonced |-> Circulating(Start, s, t)]]
  /\ inflight = [i \in Slots |-> NoMessage]
  /\ stranded = [t \in Tokens |-> 0]
  /\ call = NoMessage /\ slot = NoSlot /\ done = 0 /\ book = NoBook

Begin(m, i) ==
  /\ call = NoMessage
  /\ call' = m /\ slot' = i /\ done' = 0
  /\ book' = [balance |-> balance, frozen |-> frozen, liquidity |-> liquidity]
  /\ UNCHANGED <<accounts, denied, inflight, stranded>>

End == call' = NoMessage /\ slot' = NoSlot /\ done' = 0 /\ book' = NoBook

Idle == call = NoMessage /\ UNCHANGED running

(* SaveAccount, and the end of the call.                                      *)
Save ==
  /\ balance' = book.balance /\ frozen' = book.frozen /\ liquidity' = book.liquidity
  /\ End /\ UNCHANGED <<denied, stranded>>

-----------------------------------------------------------------------------
(* One item of a batch                                                        *)

Local(a, b) == ShardOf[a] = ShardOf[b]

(* SaveESDTNFTToken at the sender: the coin is not a record, and no gate but  *)
(* the balance itself keeps it.                                               *)
MayTake(a, item) ==
  /\ item.value > 0
  /\ <<a, item.token>> \notin denied
  /\ book.balance[a][item.token] >= item.value
  /\ <<a, item.token>> \notin book.frozen

Take_StaleRecord(a, b, item) ==
  [book EXCEPT !.balance[a][item.token] = balance[a][item.token] - item.value]
Take_NotCounted(a, b, item) == [book EXCEPT !.balance[a][item.token] = @ - item.value]
Take(a, b, item) ==
  LET t == item.token
      left == [book EXCEPT !.balance[a][t] = @ - item.value]
  IN IF t \in Nonced /\ ~Local(a, b)
       THEN [left EXCEPT !.liquidity[ShardOf[a]][t] = @ - item.value]
       ELSE left

(* A refund does not ask whether the record is frozen.                        *)
MayPut_AsksRefunds(pairs, b, item, ret) == <<b, item.token>> \notin pairs
MayPut_NeverAsks(pairs, b, item, ret) == TRUE
MayPut(pairs, b, item, ret) == ret \/ <<b, item.token>> \notin pairs

(* The record of a nonce is written with the Properties that travelled with   *)
(* it, and those are of a record that was not frozen.                         *)
Put(old, a, b, item) ==
  LET t == item.token
      put == [old EXCEPT !.balance[b][t] = @ + item.value]
      thawed == IF t \in Nonced THEN [put EXCEPT !.frozen = @ \ {<<b, t>>}] ELSE put
  IN IF t \in Nonced /\ ~Local(a, b)
       THEN [thawed EXCEPT !.liquidity[ShardOf[b]][t] = @ + item.value]
       ELSE thawed

-----------------------------------------------------------------------------
(* On the sender's shard                                                      *)

OnSender == call # NoMessage /\ slot = NoSlot

(* processESDTNFTMultiTransferOnSenderShard, up to its loop: a receiver in    *)
(* the same shard is asked whether it takes anything.                         *)
Send(a, b) ==
  /\ a # b /\ (Local(a, b) => b \notin NotPayable)
  /\ Begin([from |-> a, to |-> b, items |-> <<>>, ret |-> FALSE], NoSlot)

MayTransfer(a, b, item) ==
  /\ MayTake(a, item)
  /\ Local(a, b) => <<b, item.token>> \notin denied /\ MayPut(book.frozen, b, item, FALSE)

(* One round of the loop: transferOneTokenOnSenderShard, transferBaseToken.   *)
TransferOne(item) ==
  LET a == call.from  b == call.to
  IN /\ OnSender /\ done < MaxItems /\ done' = done + 1
     /\ MayTransfer(a, b, item)
     /\ call' = [call EXCEPT !.items = Append(@, item)]
     /\ book' = IF Local(a, b) THEN Put(Take(a, b, item), a, b, item) ELSE Take(a, b, item)
     /\ UNCHANGED <<accounts, denied, inflight, stranded, slot>>

TransferInShard ==
  /\ OnSender /\ done > 0 /\ Local(call.from, call.to)
  /\ Save /\ UNCHANGED inflight

(* One message carries the whole batch to another shard.                      *)
TransferOut(i) ==
  /\ OnSender /\ done > 0 /\ ~Local(call.from, call.to)
  /\ inflight[i] = NoMessage /\ inflight' = [inflight EXCEPT ![i] = call]
  /\ Save

-----------------------------------------------------------------------------
(* On the destination shard                                                   *)

OnDestination == call # NoMessage /\ slot # NoSlot

(* The gas has to pay for what the gate reads about every token, regulated or *)
(* not, and nobody asks whether the call is a refund.                         *)
PaysForReads(m, gas) == gas >= Len(m.items) * ReadCost

(* The gate looks at every token before the first one is credited, and at     *)
(* those of a refund too.                                                     *)
Admitted(m, gas) ==
  /\ m.ret \/ m.to \notin NotPayable
  /\ PaysForReads(m, gas)
  /\ \A k \in DOMAIN m.items : <<m.to, m.items[k].token>> \notin denied

(* ProcessBuiltinFunction, up to its loop.                                    *)
Receive(i, gas) ==
  /\ inflight[i] # NoMessage /\ Admitted(inflight[i], gas)
  /\ Begin(inflight[i], i)

CreditOne ==
  LET item == call.items[done + 1]
  IN /\ OnDestination /\ done < Len(call.items) /\ done' = done + 1
     /\ MayPut(book.frozen, call.to, item, call.ret)
     /\ book' = Put(book, call.from, call.to, item)
     /\ UNCHANGED <<accounts, denied, inflight, stranded, call, slot>>

Deliver ==
  /\ OnDestination /\ done = Len(call.items)
  /\ inflight' = [inflight EXCEPT ![slot] = NoMessage]
  /\ Save

(* An item is refused, and what the call has written is dropped.              *)
Fail ==
  /\ \/ OnSender /\ done < MaxItems
        /\ \E item \in Items : ~MayTransfer(call.from, call.to, item)
     \/ OnDestination /\ done < Len(call.items)
        /\ ~MayPut(book.frozen, call.to, call.items[done + 1], call.ret)
  /\ End /\ UNCHANGED <<accounts, denied, inflight, stranded>>

-----------------------------------------------------------------------------
(* How much of a token is in the first n items of a batch.                    *)
InFirst(n, items, t) ==
  Total([k \in 1..MaxItems |-> IF k <= n /\ items[k].token = t THEN items[k].value ELSE 0])
AmountsOf(items) == [t \in Tokens |-> InFirst(Len(items), items, t)]

(* The node returns what was refused, or what a call after it failed on, once. *)
SendBack(i) ==
  LET m == inflight[i]
  IN /\ Idle /\ m # NoMessage /\ ~m.ret
     /\ inflight' = [inflight EXCEPT ![i] = [@ EXCEPT !.from = m.to, !.to = m.from, !.ret = TRUE]]
     /\ UNCHANGED <<accounts, denied, stranded>>

Refused(m, gas) ==
  ~Admitted(m, gas) \/ \E k \in DOMAIN m.items : ~MayPut(frozen, m.to, m.items[k], m.ret)

Strand(i, gas) ==
  LET m == inflight[i]
  IN /\ Idle /\ m # NoMessage /\ m.ret /\ Refused(m, gas)
     /\ inflight' = [inflight EXCEPT ![i] = NoMessage]
     /\ stranded' = [t \in Tokens |-> stranded[t] + AmountsOf(m.items)[t]]
     /\ UNCHANGED <<accounts, denied>>

Freeze(a, t) ==
  /\ Idle /\ frozen' = frozen \cup {<<a, t>>}
  /\ UNCHANGED <<balance, liquidity, denied, inflight, stranded>>
Unfreeze(a, t) ==
  /\ Idle /\ frozen' = frozen \ {<<a, t>>}
  /\ UNCHANGED <<balance, liquidity, denied, inflight, stranded>>

(* A registry writes a record: the gate's verdict on one pair changes.        *)
ChangeStanding(a, t) ==
  /\ Idle
  /\ denied' = IF <<a, t>> \in denied THEN denied \ {<<a, t>>} ELSE denied \cup {<<a, t>>}
  /\ UNCHANGED <<accounts, inflight, stranded>>

Next ==
  \/ \E a, b \in Accounts : Send(a, b)
  \/ \E item \in Items : TransferOne(item)
  \/ TransferInShard \/ CreditOne \/ Deliver \/ Fail
  \/ \E i \in Slots :
       TransferOut(i) \/ SendBack(i) \/ \E gas \in Gases : Receive(i, gas) \/ Strand(i, gas)
  \/ \E p \in Freezable : Freeze(p[1], p[2]) \/ Unfreeze(p[1], p[2])
  \/ \E p \in Regulated : ChangeStanding(p[1], p[2])

Spec == Init /\ [][Next]_vars

-----------------------------------------------------------------------------
(* Every variable keeps its type: no amount goes below zero, nor in the books *)
(* of a call that runs.                                                       *)
Books ==
  [balance: [Accounts -> [Tokens -> Nat]], frozen: SUBSET Freezable,
   liquidity: [Shards -> [Nonced -> Nat]]]
TypeOK ==
  /\ balance \in [Accounts -> [Tokens -> Nat]]
  /\ liquidity \in [Shards -> [Nonced -> Nat]]
  /\ frozen \subseteq Freezable /\ denied \subseteq Regulated
  /\ inflight \in [Slots -> Messages \cup {NoMessage}]
  /\ stranded \in [Tokens -> Nat]
  /\ call \in Messages \cup {NoMessage} /\ slot \in Slots \cup {NoSlot}
  /\ done \in 0..MaxItems /\ book \in Books \cup {NoBook}

Whole == INSTANCE BatchBook WITH
  holdings <- balance,
  flight <- [i \in Slots |->
               IF inflight[i] = NoMessage THEN NoMessage
               ELSE [from |-> inflight[i].from, to |-> inflight[i].to, amount |-> AmountsOf(inflight[i].items)]],
  lost <- stranded,
  NoBatch <- NoMessage

(* Taken one by one, in any order and a token twice or more, the tokens of a  *)
(* batch leave, arrive, return and strand together, each in its full amount,  *)
(* and nobody parts with more than it has.                                    *)
BatchesAreWhole == Whole!Spec

(* The liquidity of a nonce on a shard is what its residents have of it, also *)
(* after a batch that names the nonce several times.                          *)
LiquidityCounted ==
  /\ TypeOK
  /\ \A s \in Shards, t \in Nonced : liquidity[s][t] = Circulating(balance, s, t)

(* A refund is refused by the gate only, never for a frozen record or because *)
(* the receiver takes nothing: one denied token holds up all of them, and so  *)
(* does a call whose gas does not pay for what the gate reads.                *)
OnlyTheGateStrands ==
  [][\A i \in Slots : \A given \in Gases : Strand(i, given) =>
       \/ ~PaysForReads(inflight[i], given)
       \/ \E k \in DOMAIN inflight[i].items :
            <<inflight[i].to, inflight[i].items[k].token>> \in denied]_vars

(* A frozen record stays frozen, and keeps what is in it, until the ESDT      *)
(* contract unfreezes it; the exception is a refund of a nonce, which writes  *)
(* the record anew with the Properties it had when it was not frozen.         *)
FreezeHolds ==
  [][\A p \in frozen :
       LET a == p[1]  t == p[2]
           refunded == \E i \in Slots :
             /\ inflight[i] # NoMessage /\ inflight[i].ret /\ inflight[i].to = a
             /\ \E k \in DOMAIN inflight[i].items : inflight[i].items[k].token = t
             /\ inflight'[i] = NoMessage
       IN /\ balance'[a][t] >= balance[a][t]
          /\ balance'[a][t] # balance[a][t] => refunded
          /\ p \notin frozen' => (Unfreeze(a, t) \/ (t \in Nonced /\ refunded))]_vars
=============================================================================
