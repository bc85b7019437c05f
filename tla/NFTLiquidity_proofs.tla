-------------------------- MODULE NFTLiquidity_proofs --------------------------
(***************************************************************************)
(* Proofs about NFTLiquidity for any accounts, shards and bounds: types    *)
(* and conservation without further assumptions, and that liquidity and    *)
(* metadata follow the holdings for a nonce without old holders whose      *)
(* metadata, when its type is dynamic, nobody updates; and that updates    *)
(* stay for any nonce that, when its type is dynamic, is not wiped.        *)
(***************************************************************************)
EXTENDS NFTLiquidity, Amounts_proofs, TLAPS

USE LiquidityAssumption

-----------------------------------------------------------------------------
(* Types *)

LEMMA SavedType ==
    ASSUME NEW e \in Entries \cup {NoEntry}, NEW has \in BOOLEAN,
           NEW reserved \in ReservedValues, NEW all \in BOOLEAN, NEW wasOld \in BOOLEAN
    PROVE  Saved(e, has, reserved, all, wasOld) \in Entries \cup {NoEntry}
BY DEF Saved, FreshReserved, Entries, ReservedValues

LEMMA AddedType ==
    ASSUME NEW e \in Entries \cup {NoEntry}, NEW v \in Int, NEW keep \in BOOLEAN,
           LiquidityAllows(e, v)
    PROVE  LiquidityAdded(e, v, keep) \in Entries \cup {NoEntry}
<1>1. e \in Entries /\ e.value \in Nat
  BY DEF LiquidityAllows, Entries
<1>2. CASE e.reserved = "none"
  BY <1>1, <1>2 DEF LiquidityAdded
<1>3. CASE e.reserved # "none" /\ e.value = 0 /\ v < 0
  BY <1>1, <1>3 DEF LiquidityAdded, Entries, ReservedValues
<1>4. CASE e.reserved # "none" /\ ~(e.value = 0 /\ v < 0)
  <2>1. e.value + v \in Nat
    BY <1>1, <1>4 DEF LiquidityAllows
  <2> QED BY <1>1, <1>4, <2>1 DEF LiquidityAdded, Entries
<1> QED BY <1>2, <1>3, <1>4

LEMMA ReadTypes ==
    ASSUME TypeOK, NEW a \in Accounts
    PROVE  /\ HasMetaData(a) \in BOOLEAN
           /\ ReservedOf(a) \in ReservedValues
           /\ EntryOf(a) \in Entries \cup {NoEntry}
BY DEF TypeOK, HasMetaData, ReservedOf, EntryOf, Entries, ReservedValues

LEMMA MergedType ==
    ASSUME NEW e, NEW b, NEW reserved \in ReservedValues
    PROVE  MergedReserved(e, b, reserved) \in ReservedValues
BY DEF MergedReserved, ReservedValues

(* What SaveAndCount leaves has its type when the quantity allows v. *)
LEMMA SaveAndCountType ==
    ASSUME TypeOK, NEW a \in Accounts, NEW has \in BOOLEAN, NEW reserved \in ReservedValues,
           NEW all \in BOOLEAN, NEW v \in Int, quantity[a] + v \in Nat, NEW keep \in BOOLEAN,
           SaveAndCount(a, has, reserved, all, v, keep)
    PROVE  /\ quantity' \in [Accounts -> Nat]
           /\ old' \in [Accounts -> BOOLEAN]
           /\ entry' \in [Shards -> Entries \cup {NoEntry}]
<1> DEFINE e == Saved(entry[ShardOf[a]], has, reserved, all, old[a])
<1>1. e \in Entries \cup {NoEntry}
  BY SavedType DEF TypeOK
<1>2. LiquidityAllows(e, v)
  BY DEF SaveAndCount
<1>3. entry' = [entry EXCEPT ![ShardOf[a]] = LiquidityAdded(e, v, keep)]
  BY DEF SaveAndCount
<1> HIDE DEF e
<1>4. LiquidityAdded(e, v, keep) \in Entries \cup {NoEntry}
  BY <1>1, <1>2, AddedType
<1>5. entry' \in [Shards -> Entries \cup {NoEntry}]
  BY <1>3, <1>4 DEF TypeOK
<1> QED BY <1>5 DEF SaveAndCount, TypeOK

LEMMA TypeInit == Init => TypeOK
<1>1. Total(OldQuantity) \in Nat
  BY TotalType
<1> QED BY <1>1 DEF Init, TypeOK

LEMMA TypeStep == TypeOK /\ [Next]_vars => TypeOK'
<1> SUFFICES ASSUME TypeOK, [Next]_vars PROVE TypeOK'
  OBVIOUS
<1>1. ASSUME NEW v \in Values, Create(v) PROVE TypeOK'
  <2>1. Creator \in Accounts /\ v \in Nat /\ v \in Int /\ "none" \in ReservedValues
    BY DEF ReservedValues
  <2>2. quantity[Creator] + v \in Nat
    BY <2>1 DEF TypeOK
  <2>3. /\ quantity' \in [Accounts -> Nat] /\ old' \in [Accounts -> BOOLEAN]
        /\ entry' \in [Shards -> Entries \cup {NoEntry}]
    BY <1>1, <2>1, <2>2, SaveAndCountType DEF Create
  <2> QED BY <1>1, <2>1, <2>3 DEF Create, TypeOK
<1>2. ASSUME NEW v \in Values, AddQuantity(v) PROVE TypeOK'
  <2>1. Creator \in Accounts /\ v \in Nat /\ v \in Int
    OBVIOUS
  <2>2. quantity[Creator] + v \in Nat
    BY <2>1 DEF TypeOK
  <2>3. /\ quantity' \in [Accounts -> Nat] /\ old' \in [Accounts -> BOOLEAN]
        /\ entry' \in [Shards -> Entries \cup {NoEntry}]
    BY <1>2, <2>1, <2>2, SaveAndCountType, ReadTypes DEF AddQuantity
  <2> QED BY <1>2, <2>1, <2>3 DEF AddQuantity, TypeOK
<1>3. ASSUME NEW v \in Values, NEW a \in Accounts, Burn(a, v) PROVE TypeOK'
  <2>1. v \in Nat /\ -v \in Int
    OBVIOUS
  <2>2. quantity[a] + (-v) \in Nat
    BY <1>3, <2>1 DEF TypeOK, Burn
  <2>3. /\ quantity' \in [Accounts -> Nat] /\ old' \in [Accounts -> BOOLEAN]
        /\ entry' \in [Shards -> Entries \cup {NoEntry}]
    BY <1>3, <2>1, <2>2, SaveAndCountType, ReadTypes DEF Burn
  <2> QED BY <1>3, <2>1, <2>3 DEF Burn, TypeOK
<1>4. ASSUME NEW v \in Values, NEW a \in Accounts, NEW b \in Accounts, TransferInShard(a, b, v)
      PROVE  TypeOK'
  <2> DEFINE debited == Saved(entry[ShardOf[a]], HasMetaData(a), ReservedOf(a), FALSE, old[a])
             reserved == MergedReserved(debited, b, ReservedOf(a))
             credited == Saved(debited, HasMetaData(a), reserved, FALSE, old[b])
  <2>1. debited \in Entries \cup {NoEntry}
    BY ReadTypes, SavedType DEF TypeOK
  <2>2. reserved \in ReservedValues
    BY ReadTypes, MergedType
  <2>3. entry' = [entry EXCEPT ![ShardOf[a]] = credited]
    BY <1>4 DEF TransferInShard
  <2>4. old[b] \in BOOLEAN /\ HasMetaData(a) \in BOOLEAN
    BY ReadTypes DEF TypeOK
  <2> HIDE DEF debited, reserved
  <2>5. credited \in Entries \cup {NoEntry}
    BY <2>1, <2>2, <2>4, SavedType
  <2>6. entry' \in [Shards -> Entries \cup {NoEntry}]
    BY <2>3, <2>5 DEF TypeOK
  <2>7. quantity' \in [Accounts -> Nat]
    BY <1>4 DEF TypeOK, TransferInShard
  <2> QED BY <1>4, <2>6, <2>7 DEF TransferInShard, TypeOK, totals
<1>5. ASSUME NEW v \in Values, NEW a \in Accounts, NEW b \in Accounts, NEW i \in Slots,
             TransferOut(a, b, v, i)
      PROVE  TypeOK'
  <2>1. v \in Nat /\ -v \in Int /\ (Dynamic \/ a \in Updaters) \in BOOLEAN
    OBVIOUS
  <2>2. quantity[a] + (-v) \in Nat
    BY <1>5, <2>1 DEF TypeOK, TransferOut
  <2>3. /\ quantity' \in [Accounts -> Nat] /\ old' \in [Accounts -> BOOLEAN]
        /\ entry' \in [Shards -> Entries \cup {NoEntry}]
    BY <1>5, <2>1, <2>2, SaveAndCountType, ReadTypes DEF TransferOut
  <2>4. [from |-> a, to |-> b, value |-> v, reserved |-> ReservedOf(a), ret |-> FALSE]
        \in Messages
    BY <2>1, ReadTypes DEF Messages
  <2>5. inflight' \in [Slots -> Messages \cup {NoMessage}]
    BY <1>5, <2>4 DEF TransferOut, TypeOK
  <2> QED BY <1>5, <2>3, <2>5 DEF TransferOut, TypeOK, totals
<1>6. ASSUME NEW a \in Updaters, UpdateMetaData(a) PROVE TypeOK'
  <2>1. a \in Accounts /\ "updated" \in ReservedValues
    BY DEF ReservedValues
  <2>2. Saved(entry[ShardOf[a]], TRUE, "updated", TRUE, old[a]) \in Entries \cup {NoEntry}
    BY <2>1, SavedType DEF TypeOK
  <2>3. entry' \in [Shards -> Entries \cup {NoEntry}]
    BY <1>6, <2>1, <2>2 DEF UpdateMetaData, TypeOK
  <2> QED BY <1>6, <2>3 DEF UpdateMetaData, TypeOK, totals
<1>7. ASSUME NEW a \in Updaters, RecreateMetaData(a) PROVE TypeOK'
  <2>1. entry' \in [Shards -> Entries \cup {NoEntry}]
    BY <1>7 DEF RecreateMetaData, TypeOK, Entries, ReservedValues
  <2> QED BY <1>7, <2>1 DEF RecreateMetaData, TypeOK, totals
<1>8. ASSUME NEW i \in Slots, Deliver(i) PROVE TypeOK'
  <2> DEFINE m == inflight[i]
             reserved == MergedReserved(EntryOf(m.to), m.to, m.reserved)
  <2>1. m \in Messages
    BY <1>8 DEF Deliver, Free, TypeOK
  <2>2. m.to \in Accounts /\ m.value \in Nat /\ m.reserved \in ReservedValues
    BY <2>1 DEF Messages
  <2>3. reserved \in ReservedValues
    BY <2>2, MergedType
  <2>4. quantity[m.to] + m.value \in Nat /\ m.value \in Int
    BY <2>2 DEF TypeOK
  <2>5. SaveAndCount(m.to, TRUE, reserved, FALSE, m.value, FALSE)
    BY <1>8 DEF Deliver
  <2>6. /\ inflight' \in [Slots -> Messages \cup {NoMessage}]
        /\ frozen' \in [Accounts -> BOOLEAN] /\ UNCHANGED totals
    BY <1>8, <2>2 DEF Deliver, TypeOK
  <2> HIDE DEF m, reserved
  <2>7. /\ quantity' \in [Accounts -> Nat] /\ old' \in [Accounts -> BOOLEAN]
        /\ entry' \in [Shards -> Entries \cup {NoEntry}]
    BY <2>2, <2>3, <2>4, <2>5, SaveAndCountType
  <2> QED BY <2>6, <2>7 DEF TypeOK, totals
<1>9. ASSUME NEW i \in Slots, SendBack(i) PROVE TypeOK'
  <2>1. inflight[i] \in Messages
    BY <1>9 DEF SendBack, Free, TypeOK
  <2>2. [inflight[i] EXCEPT !.from = inflight[i].to, !.to = inflight[i].from, !.ret = TRUE]
        \in Messages
    BY <2>1 DEF Messages
  <2>3. inflight' \in [Slots -> Messages \cup {NoMessage}]
    BY <1>9, <2>2 DEF SendBack, TypeOK
  <2> QED BY <1>9, <2>3 DEF SendBack, TypeOK, totals
<1>10. ASSUME NEW i \in Slots, Strand(i) PROVE TypeOK'
  <2>1. inflight[i].value \in Nat
    BY <1>10 DEF Strand, Free, TypeOK, Messages
  <2> QED BY <1>10, <2>1 DEF Strand, TypeOK
<1>11. ASSUME NEW a \in Managed, NEW freeze \in BOOLEAN, ToggleFreeze(a, freeze)
       PROVE  TypeOK'
  BY <1>11 DEF ToggleFreeze, TypeOK, totals
<1>12. ASSUME NEW a \in Managed, Wipe(a) PROVE TypeOK'
  <2>1. a \in Accounts /\ quantity[a] \in Nat /\ -quantity[a] \in Int
    BY DEF TypeOK
  <2>2. entry' \in [Shards -> Entries \cup {NoEntry}]
    <3>1. CASE quantity[a] = 0
      BY <1>12, <3>1 DEF Wipe, TypeOK
    <3>2. CASE quantity[a] # 0
      <4>1. LiquidityAdded(EntryOf(a), -quantity[a], FALSE) \in Entries \cup {NoEntry}
        BY <1>12, <2>1, <3>2, ReadTypes, AddedType DEF Wipe
      <4> QED BY <1>12, <3>2, <4>1 DEF Wipe, TypeOK, EntryOf
    <3> QED BY <3>1, <3>2
  <2>3. quantity' \in [Accounts -> Nat] /\ wiped' \in Nat
    BY <1>12, <2>1 DEF Wipe, TypeOK
  <2> QED BY <1>12, <2>2, <2>3 DEF Wipe, TypeOK
<1>13. CASE UNCHANGED vars
  BY <1>13 DEF vars, TypeOK, totals
<1> QED BY <1>1, <1>2, <1>3, <1>4, <1>5, <1>6, <1>7, <1>8, <1>9, <1>10, <1>11, <1>12, <1>13
        DEF Next, UserCall, MetaDataCall, Delivery, SystemCall

(* Every reachable state has the types TypeOK gives: no liquidity and no quantity
   is ever negative, for every type of token and any old holdings. *)
THEOREM TypeCorrect == Spec => []TypeOK
BY TypeInit, TypeStep, PTL DEF Spec

-----------------------------------------------------------------------------
(* Liquidity and metadata *)

(* A dynamic nonce has no calls with a quantity of zero, and nobody freezes or
   wipes it. *)
UpdatesUndisturbed == Dynamic => 0 \notin Values /\ Managed = {}

(* No units are older than the entries, and dynamic metadata is not updated, or is
   undisturbed. *)
Regular ==
    /\ UpdatesUndisturbed \/ Updaters = {}
    /\ OldQuantity = [a \in Accounts |-> 0]

MayBeUpdated == Dynamic /\ Updaters # {}

(* No record keeps metadata of its own.  What says "updated" is dynamic, and then
   no account is frozen and no message is empty. *)
SteadyStates ==
    /\ \A a \in Accounts : ~old[a]
    /\ \A s \in Shards : entry[s] # NoEntry /\ entry[s].reserved = "updated" => MayBeUpdated
    /\ \A i \in Slots : ~Free(i) /\ inflight[i].reserved = "updated" => MayBeUpdated
    /\ MayBeUpdated => /\ \A a \in Accounts : ~frozen[a]
                      /\ \A i \in Slots : ~Free(i) => inflight[i].value > 0

LiquidityInv == TypeOK /\ SteadyStates /\ LiquidityMatches /\ HeldTokensHaveMetaData

(* A sum over one shard, for any quantities q. *)
LEMMA SumOnShard ==
    ASSUME NEW q \in [Accounts -> Nat], NEW s, NEW n,
           n = Total([a \in {b \in Accounts : ShardOf[b] = s} |-> q[a]])
    PROVE  n \in Nat /\ \A a \in Accounts : ShardOf[a] = s => q[a] <= n
<1> DEFINE S == {b \in Accounts : ShardOf[b] = s}
           f == [a \in S |-> q[a]]
<1>1. IsFiniteSet(S)
  BY FS_Subset
<1>2. f \in [S -> Nat] /\ \A a \in S : f[a] = q[a]
  OBVIOUS
<1>3. n = Total(f)
  OBVIOUS
<1>4. \A a \in Accounts : ShardOf[a] = s => a \in S
  OBVIOUS
<1> HIDE DEF S, f
<1>5. Total(f) \in Nat /\ \A a \in S : f[a] <= Total(f)
  BY <1>1, <1>2, TotalType, TotalBounds
<1> QED BY <1>2, <1>3, <1>4, <1>5

(* Metadata is where units are, so a missing entry means that nothing is held. *)
LEMMA NothingHeld ==
    ASSUME NEW s, \A a \in Accounts : ShardOf[a] = s => quantity[a] = 0
    PROVE  Held(s) = 0
<1> DEFINE S == {b \in Accounts : ShardOf[b] = s}
           f == [a \in S |-> quantity[a]]
<1>1. f = [a \in S |-> 0]
  OBVIOUS
<1>2. Held(s) = Total(f)
  BY DEF Held
<1> HIDE DEF S, f
<1> QED BY <1>1, <1>2, TotalZero

(* One quantity changed: the sum of its shard follows, the others stay. *)
LEMMA HeldChange ==
    ASSUME TypeOK, NEW a \in Accounts, NEW w \in Nat,
           quantity' = [quantity EXCEPT ![a] = w]
    PROVE  /\ Held(ShardOf[a])' = Held(ShardOf[a]) - quantity[a] + w
           /\ \A s : s # ShardOf[a] => Held(s)' = Held(s)
<1>1. Held(ShardOf[a])' = Held(ShardOf[a]) - quantity[a] + w
  <2> DEFINE S == {b \in Accounts : ShardOf[b] = ShardOf[a]}
             f == [b \in S |-> quantity[b]]
             h == [b \in S |-> quantity'[b]]
  <2>1. IsFiniteSet(S) /\ a \in S
    BY FS_Subset
  <2>2. f \in [S -> Nat] /\ f[a] = quantity[a]
    BY DEF TypeOK
  <2>3. h \in [S -> Nat] /\ h[a] = w /\ \A y \in S : y # a => h[y] = f[y]
    BY DEF TypeOK
  <2>4. Held(ShardOf[a]) = Total(f) /\ Held(ShardOf[a])' = Total(h)
    BY DEF Held
  <2> HIDE DEF S, f, h
  <2>5. Total(h) = Total(f) - f[a] + h[a]
    BY <2>1, <2>2, <2>3, TotalChange
  <2> QED BY <2>2, <2>3, <2>4, <2>5
<1>2. ASSUME NEW s, s # ShardOf[a] PROVE Held(s)' = Held(s)
  <2> DEFINE S == {b \in Accounts : ShardOf[b] = s}
  <2>1. \A b \in S : quantity'[b] = quantity[b]
    BY <1>2 DEF TypeOK
  <2>2. [b \in S |-> quantity'[b]] = [b \in S |-> quantity[b]]
    BY <2>1
  <2> QED BY <2>2 DEF Held
<1> QED BY <1>1, <1>2

(* The heart: an entry e that counts right before v is added counts right after
   it, and is deleted only when nothing is held.  One that is updated stays. *)
LEMMA CountStep ==
    ASSUME LiquidityInv, NEW a \in Accounts, NEW e \in Entries, NEW v \in Int,
           NEW keep \in BOOLEAN, quantity[a] + v \in Nat,
           e.reserved = "updated" => MayBeUpdated /\ e.value = 0 /\ v # 0,
           e.reserved = "counted" => e.value = Held(ShardOf[a]),
           quantity' = [quantity EXCEPT ![a] = quantity[a] + v],
           entry' = [entry EXCEPT ![ShardOf[a]] = LiquidityAdded(e, v, keep)],
           \A b \in Accounts : ~old'[b]
    PROVE  /\ \A s \in Shards :
                 entry'[s] # NoEntry /\ entry'[s].reserved = "updated" => MayBeUpdated
           /\ LiquidityMatches'
           /\ HeldTokensHaveMetaData'
<1> DEFINE here == ShardOf[a]
           new == LiquidityAdded(e, v, keep)
           w == quantity[a] + v
<1>1. /\ here \in Shards /\ entry'[here] = new
      /\ \A s \in Shards : s # here => entry'[s] = entry[s]
  BY DEF LiquidityInv, TypeOK
<1>2. /\ Held(here)' = Held(here) - quantity[a] + w
      /\ \A s : s # here => Held(s)' = Held(s)
  BY HeldChange DEF LiquidityInv
<1>3. /\ Held(here) \in Nat /\ quantity[a] \in Nat /\ quantity[a] <= Held(here)
  <2>1. quantity \in [Accounts -> Nat]
    BY DEF LiquidityInv, TypeOK
  <2> QED BY <2>1, SumOnShard DEF Held
<1>4. Held(here)' = Held(here) + v
  BY <1>2, <1>3
<1>5. e # NoEntry /\ e.value \in Nat
  BY DEF Entries
<1>6. e.reserved = "counted" => ~(e.value = 0 /\ v < 0)
  BY <1>3
<1>7. e.reserved = "none" => new = e
  BY DEF LiquidityAdded
<1>8. ASSUME e.reserved = "counted"
      PROVE  \/ new = NoEntry /\ e.value + v = 0
             \/ new = [e EXCEPT !.value = e.value + v]
  BY <1>6, <1>8 DEF LiquidityAdded
<1>9. e.reserved \in {"none", "counted", "updated"}
  BY DEF Entries, ReservedValues
<1>u. ASSUME e.reserved = "updated" PROVE new \in Entries /\ new.reserved = "updated"
  BY <1>u DEF LiquidityAdded, Entries
<1>10. \A s \in Shards :
          entry'[s] # NoEntry /\ entry'[s].reserved = "updated" => MayBeUpdated
  <2>1. new # NoEntry /\ new.reserved = "updated" => MayBeUpdated
    BY <1>7, <1>8, <1>9 DEF Entries
  <2> HIDE DEF new, here
  <2> QED BY <1>1, <2>1 DEF LiquidityInv, SteadyStates
<1>11. LiquidityMatches'
  <2>1. new # NoEntry /\ new.reserved = "counted" => new.value = Held(here) + v
    BY <1>3, <1>5, <1>7, <1>8, <1>9, <1>u DEF Entries
  <2> HIDE DEF new, here
  <2>2. ASSUME NEW s \in Shards, entry'[s] # NoEntry, entry'[s].reserved = "counted"
        PROVE  entry'[s].value = Held(s)'
    <3>1. CASE s = here
      BY <1>1, <1>4, <2>1, <2>2, <3>1
    <3>2. CASE s # here
      BY <1>1, <1>2, <2>2, <3>2 DEF LiquidityInv, LiquidityMatches
    <3> QED BY <3>1, <3>2
  <2> QED BY <2>2 DEF LiquidityMatches
<1>12. HeldTokensHaveMetaData'
  <2>1. ASSUME NEW b \in Accounts, quantity'[b] > 0 PROVE entry'[ShardOf[b]] # NoEntry
    <3>1. CASE ShardOf[b] = here
      <4>1. Held(here)' >= quantity'[b]
        <5>1. quantity' \in [Accounts -> Nat]
          BY DEF LiquidityInv, TypeOK
        <5> QED BY <3>1, <5>1, SumOnShard DEF Held
      <4>2. quantity'[b] \in Nat
        BY DEF LiquidityInv, TypeOK
      <4>3. ASSUME e.reserved = "counted" PROVE new # NoEntry
        <5>1. e.value + v > 0
          BY <1>3, <1>4, <2>1, <4>1, <4>2, <4>3
        <5>2. [e EXCEPT !.value = e.value + v] \in Entries
          BY <1>5, <5>1 DEF Entries
        <5> QED BY <1>8, <4>3, <5>1, <5>2
      <4>4. new # NoEntry
        BY <1>5, <1>7, <1>9, <1>u, <4>3
      <4> QED BY <1>1, <3>1, <4>4
    <3>2. CASE ShardOf[b] # here
      <4>1. b # a /\ quantity'[b] = quantity[b]
        BY <3>2 DEF LiquidityInv, TypeOK
      <4>2. entry[ShardOf[b]] # NoEntry
        BY <2>1, <4>1 DEF LiquidityInv, HeldTokensHaveMetaData, HasMetaData, EntryOf, SteadyStates
      <4> QED BY <1>1, <3>2, <4>2
    <3> QED BY <3>1, <3>2
  <2> QED BY <2>1 DEF HeldTokensHaveMetaData, HasMetaData, EntryOf
<1> QED BY <1>10, <1>11, <1>12

(* A shard without an entry holds nothing, since nothing has metadata there. *)
LEMMA NoEntryNothingHeld ==
    ASSUME LiquidityInv, NEW s \in Shards, entry[s] = NoEntry
    PROVE  Held(s) = 0
<1>1. ASSUME NEW a \in Accounts, ShardOf[a] = s PROVE quantity[a] = 0
  <2>1. ~HasMetaData(a)
    BY <1>1 DEF LiquidityInv, SteadyStates, HasMetaData, EntryOf
  <2>2. quantity[a] \in Nat /\ ~(quantity[a] > 0)
    BY <2>1 DEF LiquidityInv, TypeOK, HeldTokensHaveMetaData
  <2> QED BY <2>2
<1> QED BY <1>1, NothingHeld

(* What a call read for a tells whether the entry of its shard is updated. *)
KnowsUpdate(a, has, reserved) ==
    /\ reserved = "updated" => MayBeUpdated
    /\ EntryOf(a) # NoEntry /\ EntryOf(a).reserved = "updated" => has /\ reserved = "updated"

(* What a save leaves counts right, unless it forces the fields anew; what is
   updated counts from zero. *)
LEMMA SavedCounts ==
    ASSUME LiquidityInv, NEW a \in Accounts, NEW has \in BOOLEAN, NEW all \in BOOLEAN,
           NEW reserved \in ReservedValues,
           IF all THEN has /\ reserved = "none" ELSE KnowsUpdate(a, has, reserved),
           NEW e, e = Saved(entry[ShardOf[a]], has, reserved, all, old[a]), e # NoEntry
    PROVE  /\ e \in Entries
           /\ e.reserved = "updated" => MayBeUpdated /\ e.value = 0
           /\ e.reserved = "counted" => e.value = Held(ShardOf[a])
<1> DEFINE here == ShardOf[a]
<1>1. here \in Shards /\ ~old[a]
  BY DEF LiquidityInv, SteadyStates
<1>2. e \in Entries
  <2>1. entry[here] \in Entries \cup {NoEntry} /\ old[a] \in BOOLEAN
    BY DEF LiquidityInv, TypeOK
  <2> QED BY <2>1, SavedType
<1>3. CASE entry[here] = NoEntry
  <2>1. e.value = 0 /\ (e.reserved = "updated" => reserved = "updated")
    BY <1>3 DEF Saved, FreshReserved
  <2>2. reserved = "updated" => MayBeUpdated
    BY DEF KnowsUpdate
  <2> QED BY <1>1, <1>2, <1>3, <2>1, <2>2, NoEntryNothingHeld
<1>4. CASE entry[here] # NoEntry
  <2>1. CASE all
    <3>1. e.reserved = "none"
      BY <1>4, <2>1 DEF Saved
    <3> QED BY <1>2, <3>1
  <2>2. CASE ~all /\ has /\ reserved = "updated"
    <3>1. MayBeUpdated
      BY <2>2 DEF KnowsUpdate
    <3>2. e.value = 0 /\ e.reserved = "updated"
      BY <1>4, <2>2, <3>1 DEF Saved, MayBeUpdated
    <3> QED BY <1>2, <3>1, <3>2
  <2>3. CASE ~all /\ ~(has /\ reserved = "updated")
    <3>1. e = entry[here]
      BY <1>4, <2>3 DEF Saved
    <3>2. e.reserved # "updated"
      BY <1>4, <2>3, <3>1 DEF KnowsUpdate, EntryOf
    <3> QED BY <1>1, <1>2, <3>1, <3>2 DEF LiquidityInv, LiquidityMatches
  <2> QED BY <2>1, <2>2, <2>3
<1> QED BY <1>3, <1>4

LEMMA SaveStep ==
    ASSUME LiquidityInv, NEW a \in Accounts, NEW has \in BOOLEAN, NEW all \in BOOLEAN,
           NEW reserved \in ReservedValues,
           IF all THEN has /\ reserved = "none" ELSE KnowsUpdate(a, has, reserved),
           NEW v \in Int, quantity[a] + v \in Nat, MayBeUpdated => v # 0,
           NEW keep \in BOOLEAN,
           SaveAndCount(a, has, reserved, all, v, keep)
    PROVE  /\ \A b \in Accounts : ~old'[b]
           /\ \A s \in Shards :
                 entry'[s] # NoEntry /\ entry'[s].reserved = "updated" => MayBeUpdated
           /\ LiquidityMatches'
           /\ HeldTokensHaveMetaData'
<1> DEFINE e == Saved(entry[ShardOf[a]], has, reserved, all, old[a])
<1>1. /\ e # NoEntry
      /\ entry' = [entry EXCEPT ![ShardOf[a]] = LiquidityAdded(e, v, keep)]
      /\ quantity' = [quantity EXCEPT ![a] = quantity[a] + v]
  BY DEF SaveAndCount, LiquidityAllows
<1>2. \A b \in Accounts : ~old'[b]
  BY DEF SaveAndCount, LiquidityInv, SteadyStates, TypeOK
<1>3. /\ e \in Entries
      /\ e.reserved = "updated" => MayBeUpdated /\ e.value = 0
      /\ e.reserved = "counted" => e.value = Held(ShardOf[a])
  BY <1>1, SavedCounts
<1> HIDE DEF e
<1> QED BY <1>1, <1>2, <1>3, CountStep

(* A sender knows of an update from the entry, a recipient from entry or message. *)
LEMMA SenderKnows ==
    ASSUME LiquidityInv, NEW a \in Accounts
    PROVE  KnowsUpdate(a, HasMetaData(a), ReservedOf(a))
<1>1. EntryOf(a) # NoEntry /\ EntryOf(a).reserved = "updated" => MayBeUpdated
  BY DEF LiquidityInv, SteadyStates, TypeOK, EntryOf
<1>2. MayBeUpdated => Dynamic
  BY DEF MayBeUpdated
<1> QED BY <1>1, <1>2 DEF KnowsUpdate, ReservedOf, HasMetaData

LEMMA RecipientKnows ==
    ASSUME LiquidityInv, NEW a \in Accounts, NEW reserved \in ReservedValues,
           reserved = "updated" => MayBeUpdated
    PROVE  KnowsUpdate(a, TRUE, MergedReserved(EntryOf(a), a, reserved))
<1>1. EntryOf(a) # NoEntry /\ EntryOf(a).reserved = "updated" => MayBeUpdated
  BY DEF LiquidityInv, SteadyStates, TypeOK, EntryOf
<1>2. MayBeUpdated => Dynamic /\ ~frozen[a]
  BY DEF MayBeUpdated, LiquidityInv, SteadyStates
<1> QED BY <1>1, <1>2 DEF KnowsUpdate, MergedReserved

(* Inside a shard units only change hands: for a holder the entry is there, and
   neither save touches it, except that an updated one is written anew. *)
LEMMA InShardStep ==
    ASSUME LiquidityInv, NEW a \in Accounts, NEW b \in Accounts, NEW v \in Nat,
           TransferInShard(a, b, v)
    PROVE  /\ entry[ShardOf[a]] # NoEntry
           /\ \A s \in Shards :
                 \/ entry'[s] = entry[s]
                 \/ /\ entry[s] # NoEntry /\ entry[s].reserved = "updated"
                    /\ entry'[s] = [value |-> 0, reserved |-> "updated"]
           /\ \A s : Held(s)' = Held(s)
<1> DEFINE here == ShardOf[a]
<1>1. entry[here] # NoEntry /\ HasMetaData(a)
  BY DEF TransferInShard, LiquidityInv, HeldTokensHaveMetaData, HasMetaData, EntryOf,
         SteadyStates, TypeOK
<1>2. \A s \in Shards :
         \/ entry'[s] = entry[s]
         \/ /\ entry[s] # NoEntry /\ entry[s].reserved = "updated"
            /\ entry'[s] = [value |-> 0, reserved |-> "updated"]
  <2>1. CASE entry[here].reserved # "updated"
    <3>1. ReservedOf(a) # "updated"
      BY <1>1, <2>1 DEF ReservedOf, EntryOf
    <3>2. Saved(entry[here], HasMetaData(a), ReservedOf(a), FALSE, old[a]) = entry[here]
      BY <1>1, <3>1 DEF Saved
    <3>3. MergedReserved(entry[here], b, ReservedOf(a)) # "updated"
      BY <1>1, <2>1, <3>1 DEF MergedReserved
    <3>4. Saved(entry[here], HasMetaData(a),
                MergedReserved(entry[here], b, ReservedOf(a)), FALSE, old[b]) = entry[here]
      BY <1>1, <3>3 DEF Saved
    <3>5. entry' = [entry EXCEPT ![here] = entry[here]]
      BY <3>2, <3>4 DEF TransferInShard
    <3> QED BY <3>5 DEF LiquidityInv, TypeOK
  <2>2. CASE entry[here].reserved = "updated"
    <3> DEFINE u == [value |-> 0, reserved |-> "updated"]
    <3>1. Dynamic /\ ReservedOf(a) = "updated"
      BY <1>1, <2>2 DEF LiquidityInv, SteadyStates, TypeOK, MayBeUpdated, ReservedOf, EntryOf
    <3>2. Saved(entry[here], HasMetaData(a), ReservedOf(a), FALSE, old[a]) = u
      BY <1>1, <3>1 DEF Saved
    <3>3. u # NoEntry
      BY DEF Entries, ReservedValues
    <3> HIDE DEF u
    <3>4. MergedReserved(u, b, ReservedOf(a)) = "updated"
      BY <3>1 DEF MergedReserved
    <3>5. Saved(u, HasMetaData(a), "updated", FALSE, old[b]) = u
      BY <1>1, <3>1, <3>3 DEF Saved, u
    <3>6. entry' = [entry EXCEPT ![here] = u]
      BY <3>2, <3>4, <3>5 DEF TransferInShard
    <3> QED BY <1>1, <2>2, <3>6 DEF LiquidityInv, TypeOK, u
  <2> QED BY <2>1, <2>2
<1>6. ASSUME NEW s PROVE Held(s)' = Held(s)
  <2> DEFINE S == {c \in Accounts : ShardOf[c] = s}
             f == [c \in S |-> quantity[c]]
             g == [c \in S |-> IF c = a THEN quantity[a] - v ELSE quantity[c]]
             h == [c \in S |-> quantity'[c]]
  <2>1. IsFiniteSet(S) /\ (s = here <=> a \in S) /\ (s = here <=> b \in S)
    BY FS_Subset DEF TransferInShard
  <2>2. Held(s) = Total(f) /\ Held(s)' = Total(h)
    BY DEF Held
  <2>3. /\ quantity \in [Accounts -> Nat] /\ quantity[a] - v \in Nat /\ a # b
        /\ quantity' = [quantity EXCEPT ![a] = quantity[a] - v, ![b] = quantity[b] + v]
    BY DEF TransferInShard, LiquidityInv, TypeOK
  <2>4. CASE s # here
    <3>1. f = h
      BY <2>1, <2>3, <2>4
    <3> QED BY <2>2, <3>1
  <2>5. CASE s = here
    <3>1. a \in S /\ b \in S
      BY <2>1, <2>5
    <3>2. f \in [S -> Nat] /\ g \in [S -> Nat] /\ h \in [S -> Nat]
      BY <2>3
    <3>3. /\ f[a] = quantity[a] /\ g[a] = quantity[a] - v
          /\ g[b] = quantity[b] /\ h[b] = quantity[b] + v
      BY <2>3, <3>1
    <3>4. /\ \A y \in S : y # a => g[y] = f[y]
          /\ \A y \in S : y # b => h[y] = g[y]
      BY <2>3
    <3>5. quantity[a] \in Nat /\ quantity[b] \in Nat
      BY <2>3
    <3> HIDE DEF S, f, g, h, here
    <3>6. Total(g) = Total(f) - f[a] + g[a] /\ Total(h) = Total(g) - g[b] + h[b]
      BY <2>1, <3>1, <3>2, <3>4, TotalChange
    <3>7. Total(f) \in Nat
      BY <2>1, <3>2, TotalType
    <3> QED BY <2>2, <3>3, <3>5, <3>6, <3>7
  <2> QED BY <2>4, <2>5
<1> QED BY <1>1, <1>2, <1>6

LEMMA LiquidityInit == Regular /\ Init => LiquidityInv
<1> SUFFICES ASSUME Regular, Init PROVE LiquidityInv
  OBVIOUS
<1>1. TypeOK
  BY TypeInit
<1>2. SteadyStates
  <2>1. \A a \in Accounts : OldQuantity[a] = 0
    BY DEF Regular
  <2>2. ASSUME NEW a \in Accounts PROVE ~old[a]
    <3>1. old[a] <=> OldQuantity[a] > 0
      BY Zenon DEF Init
    <3>2. ~(OldQuantity[a] > 0)
      BY <2>1, SMT
    <3> QED BY <3>1, <3>2
  <2>3. /\ \A s \in Shards : entry[s] = NoEntry
        /\ \A i \in Slots : Free(i)
        /\ \A a \in Accounts : ~frozen[a]
    BY DEF Init, Free
  <2> QED BY <2>2, <2>3 DEF SteadyStates
<1>3. LiquidityMatches /\ HeldTokensHaveMetaData
  BY DEF Regular, Init, LiquidityMatches, HeldTokensHaveMetaData
<1> QED BY <1>1, <1>2, <1>3 DEF LiquidityInv

(* What CountStep and SaveStep conclude, and the messages. *)
NextGood ==
    /\ \A b \in Accounts : ~old'[b]
    /\ \A s \in Shards : entry'[s] # NoEntry /\ entry'[s].reserved = "updated" => MayBeUpdated
    /\ LiquidityMatches'
    /\ HeldTokensHaveMetaData'

MessageGood(m) ==
    /\ m.reserved = "updated" => MayBeUpdated
    /\ MayBeUpdated => m.value > 0

MessagesGood == \A i \in Slots : inflight'[i] # NoMessage => MessageGood(inflight'[i])

(* Nobody is frozen while metadata may be updated. *)
FrozenGood == MayBeUpdated => \A a \in Accounts : ~frozen'[a]

(* Steps that leave entries and quantities alone. *)
LEMMA NothingCounted ==
    ASSUME LiquidityInv, entry' = entry, quantity' = quantity, \A b \in Accounts : ~old'[b]
    PROVE  NextGood
<1>1. \A s : Held(s)' = Held(s)
  BY DEF Held
<1> QED BY <1>1 DEF NextGood, LiquidityInv, SteadyStates, LiquidityMatches,
                    HeldTokensHaveMetaData, HasMetaData, EntryOf

LEMMA LiquidityStep ==
    ASSUME Regular, LiquidityInv, [Next]_vars
    PROVE  LiquidityInv'
<1> DEFINE Goal == NextGood /\ MessagesGood /\ FrozenGood
<1>t. /\ TypeOK /\ TypeOK'
      /\ \A i \in Slots : inflight[i] # NoMessage => MessageGood(inflight[i])
      /\ \A b \in Accounts : ~old[b]
      /\ MayBeUpdated => \A b \in Accounts : ~frozen[b]
  BY TypeStep DEF LiquidityInv, SteadyStates, Free, MessageGood
<1>c. MayBeUpdated => Dynamic /\ 0 \notin Values /\ Managed = {}
  BY DEF Regular, UpdatesUndisturbed, MayBeUpdated
<1>m. UNCHANGED <<inflight, frozen>> => MessagesGood /\ FrozenGood
  BY <1>t DEF MessagesGood, FrozenGood
<1>r. \A a \in Accounts : /\ ReservedOf(a) \in ReservedValues /\ HasMetaData(a) \in BOOLEAN
                         /\ KnowsUpdate(a, HasMetaData(a), ReservedOf(a))
  BY <1>t, SenderKnows, ReadTypes
<1>1. ASSUME NEW v \in Values, Create(v) PROVE Goal
  <2>1. /\ Creator \in Accounts /\ v \in Int /\ quantity[Creator] + v \in Nat
        /\ "none" \in ReservedValues
    BY <1>t DEF TypeOK, ReservedValues
  <2>2. v # 0
    BY <1>1, <2>1 DEF Create
  <2>3. NextGood
    BY <1>1, <2>1, <2>2, SaveStep DEF Create, NextGood
  <2>4. MessagesGood /\ FrozenGood
    BY <1>1, <1>t DEF Create, MessagesGood, FrozenGood, TypeOK
  <2> QED BY <2>3, <2>4
<1>2. ASSUME NEW v \in Values, AddQuantity(v) PROVE Goal
  <2>1. Creator \in Accounts /\ v \in Int /\ quantity[Creator] + v \in Nat
    BY <1>t DEF TypeOK
  <2>2. SaveAndCount(Creator, HasMetaData(Creator), ReservedOf(Creator), FALSE, v, FALSE)
    BY <1>2 DEF AddQuantity
  <2>3. NextGood
    BY <1>c, <1>r, <2>1, <2>2, SaveStep DEF NextGood
  <2> QED BY <1>2, <1>m, <2>3 DEF AddQuantity
<1>3. ASSUME NEW v \in Values, NEW a \in Accounts, Burn(a, v) PROVE Goal
  <2>1. -v \in Int /\ quantity[a] + (-v) \in Nat /\ (v # 0 => -v # 0)
    BY <1>3, <1>t DEF TypeOK, Burn
  <2>2. SaveAndCount(a, HasMetaData(a), ReservedOf(a), FALSE, -v, FALSE)
    BY <1>3 DEF Burn
  <2>3. NextGood
    BY <1>c, <1>r, <2>1, <2>2, SaveStep DEF NextGood
  <2> QED BY <1>3, <1>m, <2>3 DEF Burn
<1>4. ASSUME NEW v \in Values, NEW a \in Accounts, NEW b \in Accounts, TransferInShard(a, b, v)
      PROVE  Goal
  <2> DEFINE here == ShardOf[a]
             u == [value |-> 0, reserved |-> "updated"]
  <2>1. /\ v \in Nat /\ entry[here] # NoEntry
        /\ \A s \in Shards :
              \/ entry'[s] = entry[s]
              \/ /\ entry[s] # NoEntry /\ entry[s].reserved = "updated"
                 /\ entry'[s] = u
        /\ \A s : Held(s)' = Held(s)
    BY <1>4, InShardStep
  <2>2. \A c \in Accounts : ~old'[c]
    BY <1>4, <1>t DEF TransferInShard, TypeOK
  <2>3. u # NoEntry /\ u.reserved = "updated"
    BY DEF Entries, ReservedValues
  <2> HIDE DEF u
  <2>4. \A s \in Shards : entry[s] # NoEntry => entry'[s] # NoEntry
    BY <2>1, <2>3
  <2>5. HeldTokensHaveMetaData'
    <3>1. ASSUME NEW c \in Accounts, quantity'[c] > 0 PROVE entry'[ShardOf[c]] # NoEntry
      <4>1. CASE c = a \/ c = b
        BY <1>4, <2>1, <2>4, <4>1 DEF TransferInShard
      <4>2. CASE c # a /\ c # b
        <5>1. quantity'[c] = quantity[c]
          BY <1>4, <1>t, <4>2 DEF TransferInShard, TypeOK
        <5> QED BY <1>t, <2>4, <3>1, <5>1
                DEF LiquidityInv, HeldTokensHaveMetaData, HasMetaData, EntryOf
      <4> QED BY <4>1, <4>2
    <3> QED BY <3>1 DEF HeldTokensHaveMetaData, HasMetaData, EntryOf
  <2>6. \A s \in Shards :
           entry'[s] # NoEntry /\ entry'[s].reserved = "updated" => MayBeUpdated
    BY <2>1 DEF LiquidityInv, SteadyStates
  <2>7. LiquidityMatches'
    BY <2>1, <2>3 DEF LiquidityInv, LiquidityMatches
  <2>8. NextGood
    BY <2>2, <2>5, <2>6, <2>7 DEF NextGood
  <2> QED BY <1>4, <1>m, <2>8 DEF TransferInShard
<1>5. ASSUME NEW v \in Values, NEW a \in Accounts, NEW b \in Accounts, NEW i \in Slots,
             TransferOut(a, b, v, i)
      PROVE  Goal
  <2>1. /\ -v \in Int /\ quantity[a] + (-v) \in Nat /\ -v # 0 /\ v > 0
        /\ (Dynamic \/ a \in Updaters) \in BOOLEAN
    BY <1>5, <1>t DEF TypeOK, TransferOut
  <2>2. NextGood
    <3>1. SaveAndCount(a, HasMetaData(a), ReservedOf(a), FALSE, -v, Dynamic \/ a \in Updaters)
      BY <1>5 DEF TransferOut
    <3> QED BY <1>r, <2>1, <3>1, SaveStep DEF NextGood
  <2>3. ReservedOf(a) = "updated" => MayBeUpdated
    BY <1>r DEF KnowsUpdate
  <2>4. MessagesGood
    BY <1>5, <1>t, <2>1, <2>3 DEF TransferOut, MessagesGood, MessageGood, TypeOK
  <2> QED BY <1>5, <1>t, <2>2, <2>4 DEF TransferOut, FrozenGood
<1>6. ASSUME NEW a \in Updaters, UpdateMetaData(a) PROVE Goal
  <2> DEFINE e == [value |-> 0, reserved |-> IF Dynamic THEN "updated" ELSE "none"]
  <2>1. a \in Accounts /\ (Dynamic => MayBeUpdated)
    BY DEF MayBeUpdated
  <2>2. EntryOf(a) # NoEntry
    BY <1>6, <1>t, <2>1 DEF UpdateMetaData, HasMetaData
  <2>3. entry' = [entry EXCEPT ![ShardOf[a]] = e]
    BY <1>6, <2>1, <2>2 DEF UpdateMetaData, Saved, EntryOf
  <2>4. /\ e # NoEntry /\ e.reserved # "counted"
        /\ e.reserved = "updated" => MayBeUpdated
    BY <2>1 DEF Entries, ReservedValues
  <2> HIDE DEF e
  <2>5. /\ ShardOf[a] \in Shards
        /\ entry'[ShardOf[a]] = e
        /\ \A s \in Shards : s # ShardOf[a] => entry'[s] = entry[s]
    BY <1>t, <2>1, <2>3 DEF TypeOK
  <2>6. \A s : Held(s)' = Held(s)
    BY <1>6 DEF UpdateMetaData, Held
  <2>7. /\ \A b \in Accounts : ~old'[b]
        /\ UNCHANGED <<quantity, inflight, frozen>>
    BY <1>6, <1>t DEF UpdateMetaData, TypeOK
  <2>8. \A s \in Shards :
           entry'[s] # NoEntry /\ entry'[s].reserved = "updated" => MayBeUpdated
    BY <2>4, <2>5 DEF LiquidityInv, SteadyStates
  <2>9. LiquidityMatches'
    BY <2>4, <2>5, <2>6 DEF LiquidityInv, LiquidityMatches
  <2>10. HeldTokensHaveMetaData'
    BY <1>t, <2>4, <2>5, <2>7
       DEF LiquidityInv, HeldTokensHaveMetaData, HasMetaData, EntryOf
  <2> QED BY <1>m, <2>7, <2>8, <2>9, <2>10 DEF NextGood
<1>7. ASSUME NEW a \in Updaters, RecreateMetaData(a) PROVE Goal
  <2>1. a \in Accounts /\ MayBeUpdated
    BY <1>7 DEF MayBeUpdated, RecreateMetaData
  <2>2. PICK n \in Nat : entry' = [entry EXCEPT ![ShardOf[a]] = [value |-> n, reserved |-> "updated"]]
    BY <1>7, <1>t, <2>1 DEF RecreateMetaData, TypeOK, Entries
  <2> DEFINE e == [value |-> n, reserved |-> "updated"]
  <2>3. e # NoEntry /\ e.reserved = "updated"
    BY DEF Entries, ReservedValues
  <2>4. /\ ShardOf[a] \in Shards
        /\ entry'[ShardOf[a]] = e
        /\ \A s \in Shards : s # ShardOf[a] => entry'[s] = entry[s]
    BY <1>t, <2>1, <2>2 DEF TypeOK
  <2> HIDE DEF e
  <2>5. UNCHANGED <<quantity, old, inflight, frozen>> /\ \A s : Held(s)' = Held(s)
    BY <1>7 DEF RecreateMetaData, Held
  <2>6. LiquidityMatches'
    BY <2>3, <2>4, <2>5 DEF LiquidityInv, LiquidityMatches
  <2>7. HeldTokensHaveMetaData'
    BY <1>t, <2>3, <2>4, <2>5
       DEF LiquidityInv, HeldTokensHaveMetaData, HasMetaData, EntryOf
  <2> QED BY <1>m, <1>t, <2>1, <2>5, <2>6, <2>7 DEF NextGood
<1>8. ASSUME NEW i \in Slots, Deliver(i) PROVE Goal
  <2> DEFINE n == inflight[i]
             reserved == MergedReserved(EntryOf(n.to), n.to, n.reserved)
  <2>1. n \in Messages /\ MessageGood(n)
    BY <1>8, <1>t DEF Deliver, Free, TypeOK
  <2>2. n.to \in Accounts /\ n.value \in Nat /\ n.value \in Int /\ n.reserved \in ReservedValues
    BY <2>1 DEF Messages
  <2>3. reserved \in ReservedValues /\ KnowsUpdate(n.to, TRUE, reserved)
    <3>1. n.reserved = "updated" => MayBeUpdated
      BY <2>1 DEF MessageGood
    <3> QED BY <1>t, <2>2, <3>1, MergedType, RecipientKnows
  <2>4. quantity[n.to] + n.value \in Nat /\ (MayBeUpdated => n.value # 0)
    BY <1>t, <2>1, <2>2 DEF TypeOK, MessageGood
  <2>5. SaveAndCount(n.to, TRUE, reserved, FALSE, n.value, FALSE)
    BY <1>8 DEF Deliver
  <2>6. MessagesGood
    BY <1>8, <1>t DEF Deliver, MessagesGood, TypeOK
  <2>7. FrozenGood
    BY <1>8, <1>t DEF Deliver, FrozenGood, TypeOK
  <2> HIDE DEF n, reserved
  <2>8. NextGood
    BY <2>2, <2>3, <2>4, <2>5, SaveStep DEF NextGood
  <2> QED BY <2>6, <2>7, <2>8
<1>9. ASSUME NEW i \in Slots, SendBack(i) PROVE Goal
  <2> DEFINE back == [inflight[i] EXCEPT !.from = inflight[i].to, !.to = inflight[i].from,
                                         !.ret = TRUE]
  <2>1. inflight[i] \in Messages /\ MessageGood(inflight[i])
    BY <1>9, <1>t DEF SendBack, Free, TypeOK
  <2>2. back.reserved = inflight[i].reserved /\ back.value = inflight[i].value
    BY <2>1 DEF Messages
  <2>3. MessageGood(back) /\ inflight' = [inflight EXCEPT ![i] = back]
    BY <1>9, <2>1, <2>2 DEF SendBack, MessageGood
  <2> HIDE DEF back
  <2>4. MessagesGood
    BY <1>t, <2>3 DEF MessagesGood, TypeOK
  <2>5. FrozenGood
    BY <1>9, <1>t DEF SendBack, FrozenGood
  <2> QED BY <1>9, <1>t, <2>4, <2>5, NothingCounted DEF SendBack
<1>10. ASSUME NEW i \in Slots, Strand(i) PROVE Goal
  <2>1. MessagesGood /\ FrozenGood
    BY <1>10, <1>t DEF Strand, MessagesGood, FrozenGood, TypeOK
  <2> QED BY <1>10, <1>t, <2>1, NothingCounted DEF Strand
<1>11. ASSUME NEW a \in Managed, NEW freeze \in BOOLEAN, ToggleFreeze(a, freeze) PROVE Goal
  <2>1. MessagesGood /\ FrozenGood
    BY <1>11, <1>c, <1>t DEF ToggleFreeze, MessagesGood, FrozenGood
  <2> QED BY <1>11, <1>t, <2>1, NothingCounted DEF ToggleFreeze
<1>12. ASSUME NEW a \in Managed, Wipe(a) PROVE Goal
  <2>1. /\ a \in Accounts /\ quantity[a] \in Nat /\ UNCHANGED inflight
        /\ ~MayBeUpdated
    BY <1>12, <1>c, <1>t DEF TypeOK, Wipe
  <2>2. \A b \in Accounts : ~old'[b]
    BY <1>12, <1>t DEF Wipe, TypeOK
  <2>m. MessagesGood /\ FrozenGood
    BY <1>t, <2>1 DEF MessagesGood, FrozenGood
  <2>3. CASE quantity[a] = 0
    <3>1. quantity' = quantity /\ entry' = entry
      BY <1>12, <1>t, <2>3 DEF Wipe, TypeOK
    <3> QED BY <2>2, <2>m, <3>1, NothingCounted
  <2>4. CASE quantity[a] # 0
    <3> DEFINE e == entry[ShardOf[a]]
               v == -quantity[a]
    <3>1. /\ e \in Entries /\ e.reserved # "updated"
          /\ e.reserved = "counted" => e.value = Held(ShardOf[a])
      BY <1>12, <2>1, <2>4 DEF Wipe, LiquidityAllows, EntryOf, LiquidityInv, TypeOK,
                               SteadyStates, LiquidityMatches
    <3>2. v \in Int /\ quantity[a] + v \in Nat /\ quantity[a] + v = 0
      BY <2>1
    <3>3. quantity' = [quantity EXCEPT ![a] = quantity[a] + v]
      BY <1>12, <3>2 DEF Wipe
    <3>4. entry' = [entry EXCEPT ![ShardOf[a]] = LiquidityAdded(e, v, FALSE)]
      BY <1>12, <2>4 DEF Wipe
    <3> HIDE DEF e, v
    <3>5. NextGood
      BY <2>1, <2>2, <3>1, <3>2, <3>3, <3>4, CountStep DEF NextGood
    <3> QED BY <2>m, <3>5
  <2> QED BY <2>3, <2>4
<1>13. ASSUME UNCHANGED vars PROVE Goal
  BY <1>13, <1>t, <1>m, NothingCounted DEF vars
<1>14. Goal
  <2>1. Next \/ UNCHANGED vars
    OBVIOUS
  <2> HIDE DEF Goal
  <2> QED BY <2>1, <1>1, <1>2, <1>3, <1>4, <1>5, <1>6, <1>7, <1>8, <1>9, <1>10, <1>11, <1>12, <1>13
          DEF Next, UserCall, MetaDataCall, Delivery, SystemCall
<1>15. SteadyStates'
  BY <1>14 DEF SteadyStates, NextGood, MessagesGood, MessageGood, FrozenGood, Free
<1> QED BY <1>t, <1>14, <1>15 DEF LiquidityInv, NextGood

(* The liquidity of every shard is what its accounts hold, for any accounts, shards
   and quantities, if no holder is old; for a dynamic nonce whose metadata is updated,
   if no call has quantity zero and nobody freezes or wipes. *)
THEOREM LiquidityIsHeld == ASSUME Regular PROVE Spec => []LiquidityMatches
<1>1. LiquidityInv /\ [Next]_vars => LiquidityInv'
  BY LiquidityStep
<1>2. LiquidityInv => LiquidityMatches
  BY DEF LiquidityInv
<1> QED BY <1>1, <1>2, LiquidityInit, PTL DEF Spec

(* Under the same conditions whoever holds units finds their metadata. *)
THEOREM MetaDataIsThere == ASSUME Regular PROVE Spec => []HeldTokensHaveMetaData
<1>1. LiquidityInv /\ [Next]_vars => LiquidityInv'
  BY LiquidityStep
<1>2. LiquidityInv => HeldTokensHaveMetaData
  BY DEF LiquidityInv
<1> QED BY <1>1, <1>2, LiquidityInit, PTL DEF Spec

-----------------------------------------------------------------------------
(* Conservation *)

AmountOf(m) == IF m = NoMessage THEN 0 ELSE m.value

LEMMA QuantityTotal ==
    ASSUME TypeOK, NEW a \in Accounts, NEW v \in Int, quantity[a] + v \in Nat,
           quantity' = [quantity EXCEPT ![a] = quantity[a] + v]
    PROVE  Total(quantity') = Total(quantity) + v
<1> DEFINE f == quantity
           h == quantity'
           w == quantity[a] + v
<1>1. IsFiniteSet(Accounts) /\ f \in [Accounts -> Nat] /\ f[a] \in Nat
  BY DEF TypeOK
<1>2. /\ h \in [Accounts -> Nat] /\ h[a] = w
      /\ \A y \in Accounts : y # a => h[y] = f[y]
  BY <1>1
<1>3. w = f[a] + v
  OBVIOUS
<1> HIDE DEF f, h, w
<1>4. Total(h) = Total(f) - f[a] + h[a] /\ Total(f) \in Nat
  BY <1>1, <1>2, TotalChange, TotalType
<1>5. Total(h) = Total(f) + v
  BY <1>1, <1>2, <1>3, <1>4
<1> QED BY <1>5 DEF f, h

LEMMA FlightType ==
    ASSUME TypeOK
    PROVE  ValueInFlight \in [Slots -> Nat] /\ Total(ValueInFlight) \in Nat
<1>1. ValueInFlight \in [Slots -> Nat]
  BY DEF TypeOK, ValueInFlight, Free, Messages
<1> QED BY <1>1, TotalType

LEMMA FlightTotal ==
    ASSUME TypeOK, NEW i \in Slots, NEW m \in Messages \cup {NoMessage},
           inflight' = [inflight EXCEPT ![i] = m]
    PROVE  Total(ValueInFlight') = Total(ValueInFlight) - AmountOf(inflight[i]) + AmountOf(m)
<1> DEFINE V == ValueInFlight
           W == ValueInFlight'
<1>1. AmountOf(m) \in Nat
  BY DEF AmountOf, Messages
<1>2. W = [V EXCEPT ![i] = AmountOf(m)] /\ V[i] = AmountOf(inflight[i])
  BY DEF ValueInFlight, Free, AmountOf, TypeOK
<1>3. IsFiniteSet(Slots) /\ V \in [Slots -> Nat]
  BY FlightType
<1> HIDE DEF V, W
<1>4. /\ W \in [Slots -> Nat] /\ W[i] = AmountOf(m)
      /\ \A j \in Slots : j # i => W[j] = V[j]
  BY <1>1, <1>2, <1>3
<1>5. Total(W) = Total(V) - V[i] + W[i]
  BY <1>3, <1>4, TotalChange
<1> QED BY <1>2, <1>4, <1>5 DEF V, W

LEMMA ConservedInit == Init => QuantityConserved
<1> SUFFICES ASSUME Init PROVE QuantityConserved
  OBVIOUS
<1>1. Total(quantity) = minted /\ Total(quantity) \in Nat
  BY TotalType DEF Init
<1>2. ValueInFlight = [i \in Slots |-> 0]
  BY DEF Init, ValueInFlight, Free
<1>3. Total(ValueInFlight) = 0
  BY <1>2, TotalZero
<1> QED BY <1>1, <1>3 DEF Init, QuantityConserved

LEMMA ConservedStep ==
    ASSUME TypeOK, QuantityConserved, [Next]_vars
    PROVE  QuantityConserved'
<1> DEFINE T == Total(quantity)
           F == Total(ValueInFlight)
           Goal == minted' = Total(quantity') + Total(ValueInFlight') + burned' + wiped' + stranded'
<1>a. /\ T \in Nat /\ F \in Nat
      /\ minted \in Nat /\ burned \in Nat /\ wiped \in Nat /\ stranded \in Nat
      /\ minted = T + F + burned + wiped + stranded
      /\ \A a \in Accounts : quantity[a] \in Nat
  BY FlightType, TotalType DEF TypeOK, QuantityConserved
<1>b. /\ inflight' = inflight => Total(ValueInFlight') = F
      /\ quantity' = quantity => Total(quantity') = T
  BY DEF ValueInFlight, Free
<1>s. ASSUME NEW a \in Accounts, NEW has, NEW reserved, NEW all, NEW v \in Int, NEW keep,
             quantity[a] + v \in Nat, SaveAndCount(a, has, reserved, all, v, keep)
      PROVE  Total(quantity') = T + v
  <2>1. quantity' = [quantity EXCEPT ![a] = quantity[a] + v]
    BY <1>s DEF SaveAndCount
  <2> QED BY <1>s, <2>1, QuantityTotal
<1>1. ASSUME NEW v \in Values, Create(v) PROVE Goal
  <2>1. v \in Int /\ v \in Nat /\ Creator \in Accounts
    OBVIOUS
  <2>2. quantity[Creator] + v \in Nat
    BY <1>a, <2>1
  <2>3. Total(quantity') = T + v
    BY <1>1, <1>s, <2>1, <2>2 DEF Create
  <2>4. minted = 0 /\ minted' = v /\ UNCHANGED <<inflight, burned, wiped, stranded>>
    BY <1>1 DEF Create
  <2> HIDE DEF T, F
  <2> QED BY <1>a, <1>b, <2>1, <2>3, <2>4
<1>2. ASSUME NEW v \in Values, AddQuantity(v) PROVE Goal
  <2>1. v \in Int /\ v \in Nat /\ Creator \in Accounts
    OBVIOUS
  <2>2. quantity[Creator] + v \in Nat
    BY <1>a, <2>1
  <2>3. Total(quantity') = T + v
    BY <1>2, <1>s, <2>1, <2>2 DEF AddQuantity
  <2>4. minted' = minted + v /\ UNCHANGED <<inflight, burned, wiped, stranded>>
    BY <1>2 DEF AddQuantity
  <2> HIDE DEF T, F
  <2> QED BY <1>a, <1>b, <2>1, <2>3, <2>4
<1>3. ASSUME NEW v \in Values, NEW a \in Accounts, Burn(a, v) PROVE Goal
  <2>1. v \in Nat /\ -v \in Int /\ quantity[a] + (-v) \in Nat
    <3>1. v \in Nat /\ -v \in Int
      OBVIOUS
    <3>2. quantity[a] >= v
      BY <1>3 DEF Burn
    <3>3. quantity[a] \in Nat
      BY <1>a
    <3> QED BY <3>1, <3>2, <3>3
  <2>2. Total(quantity') = T + (-v)
    BY <1>3, <1>s, <2>1 DEF Burn
  <2>3. burned' = burned + v /\ UNCHANGED <<inflight, minted, wiped, stranded>>
    BY <1>3 DEF Burn
  <2> HIDE DEF T, F
  <2> QED BY <1>a, <1>b, <2>1, <2>2, <2>3
<1>4. ASSUME NEW v \in Values, NEW a \in Accounts, NEW b \in Accounts, TransferInShard(a, b, v)
      PROVE  Goal
  <2> DEFINE f == quantity
             g == [quantity EXCEPT ![a] = quantity[a] - v]
             h == quantity'
  <2>1. v \in Nat /\ quantity[a] - v \in Nat /\ a # b
    BY <1>4, <1>a DEF TransferInShard
  <2>2. h = [quantity EXCEPT ![a] = quantity[a] - v, ![b] = quantity[b] + v]
    BY <1>4, <1>a DEF TransferInShard
  <2>3. /\ f \in [Accounts -> Nat] /\ g \in [Accounts -> Nat] /\ h \in [Accounts -> Nat]
        /\ g[a] = f[a] - v /\ h[b] = g[b] + v
        /\ \A y \in Accounts : y # a => g[y] = f[y]
        /\ \A y \in Accounts : y # b => h[y] = g[y]
    BY <2>1, <2>2 DEF TypeOK
  <2>4. UNCHANGED <<inflight, totals>>
    BY <1>4 DEF TransferInShard
  <2>5. T = Total(f) /\ Total(quantity') = Total(h)
    OBVIOUS
  <2> HIDE DEF f, g, h, T, F
  <2>6. Total(g) = Total(f) - f[a] + g[a] /\ Total(h) = Total(g) - g[b] + h[b]
    BY <2>3, TotalChange
  <2>7. f[a] \in Nat /\ g[b] \in Nat /\ Total(f) \in Nat
    BY <2>3, TotalType
  <2>8. Total(quantity') = T
    BY <2>1, <2>3, <2>5, <2>6, <2>7
  <2> QED BY <1>a, <1>b, <2>4, <2>8 DEF totals
<1>5. ASSUME NEW v \in Values, NEW a \in Accounts, NEW b \in Accounts, NEW i \in Slots,
             TransferOut(a, b, v, i)
      PROVE  Goal
  <2> DEFINE m == [from |-> a, to |-> b, value |-> v, reserved |-> ReservedOf(a), ret |-> FALSE]
  <2>1. v \in Nat /\ -v \in Int /\ quantity[a] + (-v) \in Nat
    <3>1. v \in Nat /\ -v \in Int
      OBVIOUS
    <3>2. quantity[a] >= v
      BY <1>5 DEF TransferOut
    <3>3. quantity[a] \in Nat
      BY <1>a
    <3> QED BY <3>1, <3>2, <3>3
  <2>2. Total(quantity') = T + (-v)
    BY <1>5, <1>s, <2>1 DEF TransferOut
  <2>3. m \in Messages /\ m.value = v
    BY <2>1, ReadTypes DEF Messages
  <2>4. inflight' = [inflight EXCEPT ![i] = m] /\ inflight[i] = NoMessage /\ UNCHANGED totals
    BY <1>5 DEF TransferOut, Free
  <2>5. m # NoMessage
    BY <2>3
  <2> HIDE DEF m
  <2>6. Total(ValueInFlight') = F - AmountOf(inflight[i]) + AmountOf(m)
    BY <2>3, <2>4, FlightTotal
  <2>7. AmountOf(inflight[i]) = 0 /\ AmountOf(m) = v
    BY <2>3, <2>4, <2>5 DEF AmountOf
  <2> HIDE DEF T, F
  <2> QED BY <1>a, <2>1, <2>2, <2>4, <2>6, <2>7 DEF totals
<1>6. ASSUME NEW a \in Updaters, UpdateMetaData(a) \/ RecreateMetaData(a) PROVE Goal
  <2>1. UNCHANGED <<quantity, inflight, totals>>
    BY <1>6 DEF UpdateMetaData, RecreateMetaData
  <2> QED BY <1>a, <1>b, <2>1 DEF totals
<1>7. ASSUME NEW i \in Slots, Deliver(i) PROVE Goal
  <2> DEFINE a == inflight[i].to
             v == inflight[i].value
  <2>1. inflight[i] \in Messages /\ inflight[i] # NoMessage
    BY <1>7 DEF Deliver, Free, TypeOK
  <2>2. a \in Accounts /\ v \in Nat /\ v \in Int
    BY <2>1 DEF Messages
  <2>3. quantity' = [quantity EXCEPT ![a] = quantity[a] + v]
    BY <1>7 DEF Deliver, SaveAndCount
  <2>4. Total(ValueInFlight') = F - AmountOf(inflight[i]) + AmountOf(NoMessage)
    BY <1>7, FlightTotal DEF Deliver
  <2>5. AmountOf(inflight[i]) = v /\ AmountOf(NoMessage) = 0
    BY <2>1 DEF AmountOf
  <2>6. UNCHANGED totals
    BY <1>7 DEF Deliver
  <2> HIDE DEF a, v
  <2>7. quantity[a] + v \in Nat
    BY <1>a, <2>2
  <2>8. Total(quantity') = T + v
    BY <2>2, <2>3, <2>7, QuantityTotal
  <2> HIDE DEF T, F
  <2> QED BY <1>a, <2>2, <2>4, <2>5, <2>6, <2>8 DEF totals
<1>8. ASSUME NEW i \in Slots, SendBack(i) PROVE Goal
  <2> DEFINE m == [inflight[i] EXCEPT !.from = inflight[i].to, !.to = inflight[i].from,
                                      !.ret = TRUE]
  <2>1. inflight[i] \in Messages /\ inflight[i] # NoMessage
    BY <1>8 DEF SendBack, Free, TypeOK
  <2>2. m \in Messages /\ m.value = inflight[i].value
    BY <2>1 DEF Messages
  <2>3. inflight' = [inflight EXCEPT ![i] = m] /\ UNCHANGED <<quantity, totals>>
    BY <1>8 DEF SendBack
  <2>4. m # NoMessage
    BY <2>2
  <2> HIDE DEF m
  <2>5. Total(ValueInFlight') = F - AmountOf(inflight[i]) + AmountOf(m)
    BY <2>2, <2>3, FlightTotal
  <2>6. AmountOf(m) = AmountOf(inflight[i]) /\ AmountOf(m) \in Nat
    BY <2>1, <2>2, <2>4 DEF AmountOf, Messages
  <2> HIDE DEF T, F
  <2> QED BY <1>a, <1>b, <2>3, <2>5, <2>6 DEF totals
<1>9. ASSUME NEW i \in Slots, Strand(i) PROVE Goal
  <2>1. inflight[i] \in Messages /\ inflight[i] # NoMessage
    BY <1>9 DEF Strand, Free, TypeOK
  <2>2. Total(ValueInFlight') = F - AmountOf(inflight[i]) + AmountOf(NoMessage)
    BY <1>9, FlightTotal DEF Strand
  <2>3. AmountOf(inflight[i]) = inflight[i].value /\ AmountOf(NoMessage) = 0
    BY <2>1 DEF AmountOf
  <2>4. inflight[i].value \in Nat
    BY <2>1 DEF Messages
  <2>5. /\ stranded' = stranded + inflight[i].value
        /\ UNCHANGED <<quantity, minted, burned, wiped>>
    BY <1>9 DEF Strand
  <2> HIDE DEF T, F
  <2> QED BY <1>a, <1>b, <2>2, <2>3, <2>4, <2>5
<1>10. ASSUME NEW a \in Managed, NEW freeze \in BOOLEAN, ToggleFreeze(a, freeze) PROVE Goal
  <2>1. UNCHANGED <<quantity, inflight, totals>>
    BY <1>10 DEF ToggleFreeze
  <2> QED BY <1>a, <1>b, <2>1 DEF totals
<1>11. ASSUME NEW a \in Managed, Wipe(a) PROVE Goal
  <2> DEFINE v == -quantity[a]
  <2>1. a \in Accounts /\ quantity[a] \in Nat
    BY <1>a
  <2>2. v \in Int /\ quantity[a] + v \in Nat /\ quantity[a] + v = 0
    BY <2>1
  <2>3. quantity' = [quantity EXCEPT ![a] = quantity[a] + v]
    BY <1>11, <2>2 DEF Wipe
  <2>4. wiped' = wiped + quantity[a] /\ UNCHANGED <<inflight, minted, burned, stranded>>
    BY <1>11 DEF Wipe
  <2> HIDE DEF v
  <2>5. Total(quantity') = T + v
    BY <2>1, <2>2, <2>3, QuantityTotal
  <2> HIDE DEF T, F
  <2> QED BY <1>a, <1>b, <2>1, <2>2, <2>4, <2>5
<1>12. ASSUME UNCHANGED vars PROVE Goal
  BY <1>12, <1>a, <1>b DEF vars, totals
<1>13. Goal
  <2>1. Next \/ UNCHANGED vars
    OBVIOUS
  <2> HIDE DEF Goal
  <2> QED BY <2>1, <1>1, <1>2, <1>3, <1>4, <1>5, <1>6, <1>7, <1>8, <1>9, <1>10, <1>11, <1>12
          DEF Next, UserCall, MetaDataCall, Delivery, SystemCall
<1> QED BY <1>13 DEF QuantityConserved

(* No unit is made or lost, for every type of token and any old holdings, although
   a transfer is two calls in two shards and may come back. *)
THEOREM Conservation == Spec => []QuantityConserved
<1>1. TypeOK /\ QuantityConserved /\ [Next]_vars => QuantityConserved'
  BY ConservedStep
<1> QED BY <1>1, ConservedInit, TypeCorrect, PTL DEF Spec

(* Quantities are naturals and every unit is accounted for, in every reachable state. *)
THEOREM QuantitiesAlwaysHold == Spec => []QuantitiesHold
<1>1. TypeOK /\ QuantityConserved => QuantitiesHold
  BY DEF QuantitiesHold
<1> QED BY <1>1, TypeCorrect, Conservation, PTL

-----------------------------------------------------------------------------
(* Updates survive: for every nonce that is not dynamic, and for a dynamic one that
   is undisturbed, once it is created.  Three calls can lose one on shard s: the
   creation of the nonce by an account of s, a call that moves nothing, and a wipe of
   as many units as the entry counts. *)
LostUpdate(s) ==
    \/ Created /\ s = ShardOf[Creator]
    \/ 0 \in Values /\ UNCHANGED <<quantity, inflight, totals>>
    \/ \E a \in Managed : /\ ShardOf[a] = s /\ frozen[a]
                          /\ quantity[a] = entry[s].value /\ quantity'[a] = 0

Updated(e) == e # NoEntry /\ e.reserved = "updated"

(* A nonce that is not dynamic never has an updated entry. *)
NeverUpdated ==
    /\ \A s \in Shards : ~Updated(entry[s])
    /\ \A i \in Slots : ~Free(i) => inflight[i].reserved # "updated"

(* No message is empty. *)
DynamicStates == \A i \in Slots : ~Free(i) => inflight[i].value > 0

UpdatesInv ==
    /\ TypeOK
    /\ ~Dynamic => NeverUpdated
    /\ Dynamic => DynamicStates

(* Without a dynamic type nothing writes "updated" into an entry. *)
LEMMA NothingUpdated ==
    ASSUME ~Dynamic, NEW e, ~Updated(e), NEW has, NEW reserved, NEW all, NEW wasOld,
           NEW v, NEW keep
    PROVE  /\ ~Updated(Saved(e, has, reserved, all, wasOld))
           /\ e \in Entries => ~Updated(LiquidityAdded(e, v, keep))
<1>1. ~Updated(Saved(e, has, reserved, all, wasOld))
  BY DEF Saved, FreshReserved, Updated
<1>2. ASSUME e \in Entries PROVE ~Updated(LiquidityAdded(e, v, keep))
  BY <1>2 DEF LiquidityAdded, Updated, Entries
<1> QED BY <1>1, <1>2

LEMMA SaveAndCountPlain ==
    ASSUME TypeOK, ~Dynamic, \A s \in Shards : ~Updated(entry[s]), NEW a \in Accounts,
           NEW has \in BOOLEAN, NEW reserved \in ReservedValues, NEW all \in BOOLEAN,
           NEW v, NEW keep, SaveAndCount(a, has, reserved, all, v, keep)
    PROVE  \A s \in Shards : ~Updated(entry'[s])
<1> DEFINE e == Saved(entry[ShardOf[a]], has, reserved, all, old[a])
<1>1. ShardOf[a] \in Shards
  OBVIOUS
<1>2. ~Updated(e) /\ e \in Entries \cup {NoEntry}
  BY <1>1, NothingUpdated, SavedType DEF TypeOK
<1> HIDE DEF e
<1>5. e # NoEntry
  BY DEF SaveAndCount, LiquidityAllows, e
<1>3. ~Updated(LiquidityAdded(e, v, keep))
  BY <1>2, <1>5, NothingUpdated
<1>4. entry' = [entry EXCEPT ![ShardOf[a]] = LiquidityAdded(e, v, keep)]
  BY DEF SaveAndCount, e
<1> QED BY <1>1, <1>3, <1>4 DEF TypeOK

LEMMA PlainStep ==
    ASSUME TypeOK, ~Dynamic, NeverUpdated, [Next]_vars
    PROVE  NeverUpdated'
<1> DEFINE Kept == \A s \in Shards : ~Updated(entry'[s])
           Quiet == \A i \in Slots : inflight'[i] # NoMessage => inflight'[i].reserved # "updated"
<1>a. SUFFICES Kept /\ Quiet
  BY DEF NeverUpdated, Updated, Free
<1>t. /\ entry \in [Shards -> Entries \cup {NoEntry}]
      /\ inflight \in [Slots -> Messages \cup {NoMessage}]
      /\ \A a \in Accounts : ShardOf[a] \in Shards
  BY DEF TypeOK
<1>m. inflight' = inflight => Quiet
  BY DEF NeverUpdated, Free
<1>e. entry' = entry => Kept
  BY DEF NeverUpdated, Updated
<1>s. ASSUME NEW a \in Accounts, NEW has \in BOOLEAN, NEW reserved \in ReservedValues,
             NEW all \in BOOLEAN, NEW v, NEW keep,
             SaveAndCount(a, has, reserved, all, v, keep)
      PROVE  Kept
  BY <1>s, SaveAndCountPlain DEF NeverUpdated
<1>1. ASSUME NEW v \in Values, Create(v) \/ AddQuantity(v) PROVE Kept /\ Quiet
  <2>1. Creator \in Accounts /\ "none" \in ReservedValues
    BY DEF ReservedValues
  <2>2. HasMetaData(Creator) \in BOOLEAN /\ ReservedOf(Creator) \in ReservedValues
    BY <2>1, ReadTypes
  <2> QED BY <1>1, <1>m, <1>s, <2>1, <2>2 DEF Create, AddQuantity
<1>2. ASSUME NEW v \in Values, NEW a \in Accounts, Burn(a, v) PROVE Kept /\ Quiet
  BY <1>2, <1>m, <1>s, ReadTypes DEF Burn
<1>3. ASSUME NEW v \in Values, NEW a \in Accounts, NEW b \in Accounts, TransferInShard(a, b, v)
      PROVE  Kept /\ Quiet
  <2> DEFINE s == ShardOf[a]
             debited == Saved(entry[s], HasMetaData(a), ReservedOf(a), FALSE, old[a])
             saved == Saved(debited, HasMetaData(a), MergedReserved(debited, b, ReservedOf(a)),
                            FALSE, old[b])
  <2>1. ~Updated(debited)
    BY <1>t, NothingUpdated DEF NeverUpdated
  <2> HIDE DEF debited
  <2>2. ~Updated(saved)
    BY <2>1, NothingUpdated
  <2>3. entry' = [entry EXCEPT ![s] = saved] /\ UNCHANGED inflight
    BY <1>3 DEF TransferInShard, debited
  <2> HIDE DEF saved
  <2>4. Kept
    BY <1>t, <2>2, <2>3 DEF NeverUpdated
  <2> QED BY <1>m, <2>3, <2>4
<1>4. ASSUME NEW v \in Values, NEW a \in Accounts, NEW b \in Accounts, NEW i \in Slots,
             TransferOut(a, b, v, i)
      PROVE  Kept /\ Quiet
  <2> DEFINE m == [from |-> a, to |-> b, value |-> v, reserved |-> ReservedOf(a), ret |-> FALSE]
  <2>1. m.reserved = "none"
    BY DEF ReservedOf
  <2>2. inflight' = [inflight EXCEPT ![i] = m]
    BY <1>4 DEF TransferOut
  <2> HIDE DEF m
  <2>3. Quiet
    BY <1>t, <2>1, <2>2 DEF NeverUpdated, Free
  <2> QED BY <1>4, <1>s, <2>3, ReadTypes DEF TransferOut
<1>5. ASSUME NEW a \in Updaters, UpdateMetaData(a) PROVE Kept /\ Quiet
  <2>1. ~Updated(Saved(entry[ShardOf[a]], TRUE, "updated", TRUE, old[a]))
    BY <1>t, NothingUpdated DEF NeverUpdated
  <2>2. Kept
    BY <1>5, <1>t, <2>1 DEF NeverUpdated, UpdateMetaData
  <2> QED BY <1>5, <1>m, <2>2 DEF UpdateMetaData
<1>6. ASSUME NEW i \in Slots, Deliver(i) PROVE Kept /\ Quiet
  <2>1. inflight[i].to \in Accounts
    BY <1>6, <1>t DEF Deliver, Free, Messages
  <2> DEFINE reserved == MergedReserved(EntryOf(inflight[i].to), inflight[i].to, inflight[i].reserved)
  <2>4. reserved \in ReservedValues
    BY <1>6, <1>t, <2>1, MergedType DEF Deliver, Free, Messages, EntryOf
  <2> HIDE DEF reserved
  <2>5. SaveAndCount(inflight[i].to, TRUE, reserved, FALSE, inflight[i].value, FALSE)
    BY <1>6 DEF Deliver, reserved
  <2>2. Kept
    BY <1>s, <2>1, <2>4, <2>5
  <2>3. Quiet
    BY <1>6, <1>t DEF Deliver, NeverUpdated, Free
  <2> QED BY <2>2, <2>3
<1>7. ASSUME NEW i \in Slots, SendBack(i) PROVE Kept /\ Quiet
  <2>1. inflight[i] \in Messages /\ inflight[i].reserved # "updated"
    BY <1>7, <1>t DEF SendBack, Free, NeverUpdated
  <2> DEFINE m == [inflight[i] EXCEPT !.from = inflight[i].to, !.to = inflight[i].from, !.ret = TRUE]
  <2>2. m.reserved # "updated"
    BY <2>1 DEF Messages
  <2>3. inflight' = [inflight EXCEPT ![i] = m]
    BY <1>7 DEF SendBack
  <2> HIDE DEF m
  <2>4. Quiet
    BY <1>t, <2>2, <2>3 DEF NeverUpdated, Free
  <2> QED BY <1>7, <1>e, <2>4 DEF SendBack
<1>8. ASSUME NEW i \in Slots, Strand(i) PROVE Kept /\ Quiet
  BY <1>8, <1>e, <1>t DEF Strand, NeverUpdated, Free
<1>9. ASSUME NEW a \in Managed, NEW freeze \in BOOLEAN, ToggleFreeze(a, freeze) PROVE Kept /\ Quiet
  BY <1>9, <1>e, <1>m DEF ToggleFreeze
<1>10. ASSUME NEW a \in Managed, Wipe(a) PROVE Kept /\ Quiet
  <2> DEFINE e == LiquidityAdded(entry[ShardOf[a]], -quantity[a], FALSE)
  <2>1. \/ entry' = entry
        \/ /\ entry[ShardOf[a]] # NoEntry
           /\ entry' = [entry EXCEPT ![ShardOf[a]] = e]
    BY <1>10 DEF Wipe, LiquidityAllows, EntryOf
  <2>2. entry[ShardOf[a]] # NoEntry => ~Updated(e)
    BY <1>t, NothingUpdated DEF NeverUpdated
  <2> HIDE DEF e
  <2>3. Kept
    BY <1>t, <2>1, <2>2 DEF NeverUpdated
  <2> QED BY <1>10, <1>m, <2>3 DEF Wipe
<1>11. ASSUME UNCHANGED vars PROVE Kept /\ Quiet
  BY <1>11, <1>e, <1>m DEF vars
<1>12. \A a : ~RecreateMetaData(a)
  BY DEF RecreateMetaData
<1> HIDE DEF Kept, Quiet
<1> QED BY <1>1, <1>2, <1>3, <1>4, <1>5, <1>6, <1>7, <1>8, <1>9, <1>10, <1>11, <1>12
        DEF Next, UserCall, MetaDataCall, Delivery, SystemCall

(* Whoever reads an updated entry of a dynamic nonce reads that it is updated. *)
LEMMA ReadsUpdate ==
    ASSUME Dynamic, NEW a \in Accounts, Updated(EntryOf(a))
    PROVE  HasMetaData(a) /\ ReservedOf(a) = "updated"
BY DEF Updated, HasMetaData, ReservedOf

LEMMA SavedUpdated ==
    ASSUME Dynamic, NEW e \in Entries, Updated(e), NEW all, NEW wasOld
    PROVE  /\ Saved(e, TRUE, "updated", all, wasOld) \in Entries
           /\ Saved(e, TRUE, "updated", all, wasOld).value = 0
           /\ Updated(Saved(e, TRUE, "updated", all, wasOld))
BY DEF Saved, Updated, Entries, ReservedValues

LEMMA SaveAndCountKeeps ==
    ASSUME TypeOK, Dynamic, NEW a \in Accounts, NEW has, NEW reserved, NEW all,
           NEW v \in Int, v # 0, NEW keep, SaveAndCount(a, has, reserved, all, v, keep),
           Updated(EntryOf(a)) => \/ has = TRUE /\ reserved = "updated"
                                  \/ all = FALSE /\ v > 0
    PROVE  \A s \in Shards : Updated(entry[s]) => Updated(entry'[s])
<1> SUFFICES ASSUME NEW s \in Shards, Updated(entry[s]) PROVE Updated(entry'[s])
  OBVIOUS
<1> DEFINE e == Saved(entry[ShardOf[a]], has, reserved, all, old[a])
<1>1. entry' = [entry EXCEPT ![ShardOf[a]] = LiquidityAdded(e, v, keep)]
  BY DEF SaveAndCount
<1>2. CASE s # ShardOf[a]
  BY <1>1, <1>2 DEF TypeOK
<1>3. CASE s = ShardOf[a]
  <2>1. entry[s] \in Entries
    BY DEF TypeOK, Updated
  <2>2. CASE has = TRUE /\ reserved = "updated"
    <3>1. e \in Entries /\ e.value = 0 /\ Updated(e)
      BY <1>3, <2>1, <2>2, SavedUpdated
    <3> HIDE DEF e
    <3>2. Updated(LiquidityAdded(e, v, keep))
      BY <3>1 DEF LiquidityAdded, Updated, Entries
    <3> QED BY <1>1, <1>3, <3>2 DEF TypeOK
  <2>3. CASE ~(has = TRUE /\ reserved = "updated") /\ all = FALSE /\ v > 0
    <3>1. e = entry[s] \/ (has = TRUE /\ reserved = "updated")
      BY <1>3, <2>3 DEF Saved, Updated
    <3>2. e = entry[s]
      BY <2>3, <3>1
    <3> HIDE DEF e
    <3>3. Updated(LiquidityAdded(e, v, keep))
      BY <2>1, <2>3, <3>2 DEF LiquidityAdded, Updated, Entries
    <3> QED BY <1>1, <1>3, <3>3 DEF TypeOK
  <2> QED BY <1>3, <2>2, <2>3 DEF EntryOf
<1> QED BY <1>2, <1>3

LEMMA DynamicStep ==
    ASSUME TypeOK, Dynamic, DynamicStates, [Next]_vars
    PROVE  /\ DynamicStates'
           /\ \A s \in Shards : Updated(entry[s]) => Updated(entry'[s]) \/ LostUpdate(s)
<1> DEFINE Kept == \A s \in Shards : Updated(entry[s]) => Updated(entry'[s])
           Known == \A s \in Shards : Updated(entry[s]) => Updated(entry'[s]) \/ LostUpdate(s)
           Full == \A i \in Slots : inflight'[i] # NoMessage => inflight'[i].value > 0
           Goal == Known /\ Full
<1>t. /\ entry \in [Shards -> Entries \cup {NoEntry}]
      /\ inflight \in [Slots -> Messages \cup {NoMessage}]
      /\ quantity \in [Accounts -> Nat]
      /\ \A a \in Accounts : ShardOf[a] \in Shards /\ quantity[a] \in Nat
      /\ minted \in Nat /\ burned \in Nat /\ Creator \in Accounts
      /\ \A v \in Values : v \in Nat /\ -v \in Int /\ (v # 0 => v > 0 /\ -v # 0)
  BY DEF TypeOK
<1>f. inflight' = inflight => Full
  BY DEF DynamicStates, Free
<1>e. entry' = entry => Kept
  OBVIOUS
<1>k. Kept => Known
  OBVIOUS
<1>z. 0 \in Values /\ UNCHANGED <<quantity, inflight, totals>> => Known
  BY DEF LostUpdate
<1>1. ASSUME NEW v \in Values, Create(v) PROVE Goal
  <2>1. Created /\ UNCHANGED inflight
    BY <1>1 DEF Create, Created
  <2>2. \A s \in Shards : s # ShardOf[Creator] => entry'[s] = entry[s]
    BY <1>1, <1>t DEF Create, SaveAndCount
  <2>3. Known
    BY <2>1, <2>2 DEF LostUpdate
  <2> HIDE DEF Known
  <2> QED BY <1>f, <2>1, <2>3
<1> HIDE DEF Known
<1>2. ASSUME NEW v \in Values, AddQuantity(v) PROVE Goal
  <2>1. minted' = minted + v /\ UNCHANGED inflight
    BY <1>2 DEF AddQuantity
  <2>2. v \in Int
    BY <1>t
  <2>3. Updated(EntryOf(Creator)) => HasMetaData(Creator) = TRUE /\ ReservedOf(Creator) = "updated"
    BY <1>t, ReadsUpdate DEF HasMetaData
  <2>4. CASE v # 0
    <3>1. Kept
      BY <1>2, <1>t, <2>2, <2>3, <2>4, SaveAndCountKeeps DEF AddQuantity
    <3> QED BY <1>f, <1>k, <2>1, <3>1
  <2>5. CASE v = 0
    <3>1. quantity' = quantity
      BY <1>2, <1>t, <2>5 DEF AddQuantity, SaveAndCount
    <3>2. 0 \in Values /\ UNCHANGED <<quantity, inflight, totals>>
      BY <1>2, <1>t, <2>1, <2>5, <3>1 DEF AddQuantity, totals
    <3> QED BY <1>f, <1>z, <2>1, <3>2
  <2> QED BY <2>4, <2>5
<1>3. ASSUME NEW v \in Values, NEW a \in Accounts, Burn(a, v) PROVE Goal
  <2>1. UNCHANGED <<inflight, minted>>
    BY <1>3 DEF Burn
  <2>2. Updated(EntryOf(a)) => HasMetaData(a) = TRUE /\ ReservedOf(a) = "updated"
    BY ReadsUpdate DEF HasMetaData
  <2>3. CASE v # 0
    <3>1. Kept
      BY <1>3, <1>t, <2>2, <2>3, SaveAndCountKeeps DEF Burn
    <3> QED BY <1>f, <1>k, <2>1, <3>1
  <2>4. CASE v = 0
    <3>1. quantity' = quantity
      BY <1>3, <1>t, <2>4 DEF Burn, SaveAndCount
    <3>2. 0 \in Values /\ UNCHANGED <<quantity, inflight, totals>>
      BY <1>3, <1>t, <2>1, <2>4, <3>1 DEF Burn, totals
    <3> QED BY <1>f, <1>z, <2>1, <3>2
  <2> QED BY <2>3, <2>4
<1>4. ASSUME NEW v \in Values, NEW a \in Accounts, NEW b \in Accounts, TransferInShard(a, b, v)
      PROVE  Goal
  <2> DEFINE s == ShardOf[a]
             debited == Saved(entry[s], HasMetaData(a), ReservedOf(a), FALSE, old[a])
             saved == Saved(debited, HasMetaData(a), MergedReserved(debited, b, ReservedOf(a)),
                            FALSE, old[b])
  <2>1. UNCHANGED inflight
    BY <1>4 DEF TransferInShard
  <2>2. entry' = [entry EXCEPT ![s] = saved]
    BY <1>4 DEF TransferInShard
  <2>3. ASSUME Updated(entry[s]) PROVE Updated(saved)
    <3>1. HasMetaData(a) = TRUE /\ ReservedOf(a) = "updated" /\ entry[s] \in Entries
      BY <1>t, <2>3, ReadsUpdate DEF EntryOf, Updated, HasMetaData
    <3>2. debited \in Entries /\ Updated(debited)
      BY <2>3, <3>1, SavedUpdated
    <3> HIDE DEF debited
    <3>3. MergedReserved(debited, b, "updated") = "updated"
      BY DEF MergedReserved
    <3> QED BY <3>1, <3>2, <3>3, SavedUpdated
  <2> HIDE DEF saved
  <2>4. Kept
    BY <1>t, <2>2, <2>3
  <2> QED BY <1>f, <1>k, <2>1, <2>4
<1>5. ASSUME NEW v \in Values, NEW a \in Accounts, NEW b \in Accounts, NEW i \in Slots,
             TransferOut(a, b, v, i)
      PROVE  Goal
  <2> DEFINE m == [from |-> a, to |-> b, value |-> v, reserved |-> ReservedOf(a), ret |-> FALSE]
  <2>2. Updated(EntryOf(a)) => HasMetaData(a) = TRUE /\ ReservedOf(a) = "updated"
    BY ReadsUpdate DEF HasMetaData
  <2>3. Kept
    <3>1. -v \in Int /\ -v # 0
      BY <1>5, <1>t DEF TransferOut
    <3> QED BY <1>5, <1>t, <2>2, <3>1, SaveAndCountKeeps DEF TransferOut
  <2>4. inflight' = [inflight EXCEPT ![i] = m] /\ m.value > 0
    BY <1>5, <1>t DEF TransferOut
  <2> HIDE DEF m
  <2>5. Full
    BY <1>t, <2>4 DEF DynamicStates, Free
  <2> QED BY <1>k, <2>3, <2>5
<1>6. ASSUME NEW a \in Updaters, UpdateMetaData(a) PROVE Goal
  <2>1. a \in Accounts /\ UNCHANGED inflight
    BY <1>6, <1>t DEF UpdateMetaData
  <2>2. Updated(Saved(entry[ShardOf[a]], TRUE, "updated", TRUE, old[a]))
    BY NoEntry \notin Entries DEF Saved, FreshReserved, Updated, Entries, ReservedValues
  <2>3. Kept
    BY <1>6, <1>t, <2>2 DEF UpdateMetaData
  <2> QED BY <1>f, <1>k, <2>1, <2>3
<1>7. ASSUME NEW a \in Updaters, RecreateMetaData(a) PROVE Goal
  <2>1. a \in Accounts /\ UNCHANGED inflight
    BY <1>7, <1>t DEF RecreateMetaData
  <2> DEFINE e == [value |-> IF entry[ShardOf[a]] = NoEntry THEN 0 ELSE entry[ShardOf[a]].value,
                   reserved |-> "updated"]
  <2>2. e \in Entries /\ e.reserved = "updated"
    BY <1>t, <2>1 DEF Entries, ReservedValues
  <2>3. Updated(e)
    BY <2>2 DEF Updated
  <2>4. entry' = [entry EXCEPT ![ShardOf[a]] = e]
    BY <1>7 DEF RecreateMetaData
  <2> HIDE DEF e
  <2>5. Kept
    BY <1>t, <2>3, <2>4
  <2> QED BY <1>f, <1>k, <2>1, <2>5
<1>8. ASSUME NEW i \in Slots, Deliver(i) PROVE Goal
  <2> DEFINE b == inflight[i].to
             v == inflight[i].value
             reserved == MergedReserved(EntryOf(b), b, inflight[i].reserved)
  <2>1. inflight[i] \in Messages /\ inflight[i] # NoMessage /\ v > 0
    BY <1>8, <1>t DEF Deliver, Free, DynamicStates
  <2>2. b \in Accounts /\ v \in Int /\ v # 0
    BY <2>1 DEF Messages
  <2>4. SaveAndCount(b, TRUE, reserved, FALSE, v, FALSE)
    BY <1>8 DEF Deliver
  <2> HIDE DEF reserved, v
  <2>5. Kept
    BY <2>1, <2>2, <2>4, SaveAndCountKeeps
  <2>6. Full
    BY <1>8, <1>t DEF Deliver, DynamicStates, Free
  <2> QED BY <1>k, <2>5, <2>6
<1>9. ASSUME NEW i \in Slots, SendBack(i) PROVE Goal
  <2> DEFINE m == [inflight[i] EXCEPT !.from = inflight[i].to, !.to = inflight[i].from, !.ret = TRUE]
  <2>1. inflight[i] \in Messages /\ ~Free(i) /\ inflight[i].value > 0
    BY <1>9, <1>t DEF SendBack, Free, DynamicStates
  <2>2. m.value > 0
    BY <2>1 DEF Messages
  <2>3. inflight' = [inflight EXCEPT ![i] = m] /\ UNCHANGED entry
    BY <1>9 DEF SendBack
  <2> HIDE DEF m
  <2>5. Full
    BY <1>t, <2>2, <2>3 DEF DynamicStates, Free
  <2> QED BY <1>e, <1>k, <2>3, <2>5
<1>10. ASSUME NEW i \in Slots, Strand(i) PROVE Goal
  <2>2. Full
    BY <1>10, <1>t DEF Strand, DynamicStates, Free
  <2> QED BY <1>10, <1>e, <1>k, <2>2 DEF Strand
<1>11. ASSUME NEW a \in Managed, Wipe(a) PROVE Goal
  <2> DEFINE e == entry[ShardOf[a]]
  <2>1. a \in Accounts /\ quantity[a] \in Nat /\ quantity'[a] = 0 /\ frozen[a]
    BY <1>11, <1>t DEF Wipe
  <2>4. Full
    BY <1>11, <1>f DEF Wipe
  <2>2. CASE quantity[a] = 0
    BY <1>11, <1>e, <1>k, <2>2, <2>4 DEF Wipe
  <2>3. CASE quantity[a] # 0
    <3>1. entry' = [entry EXCEPT ![ShardOf[a]] = LiquidityAdded(e, -quantity[a], FALSE)]
      BY <1>11, <2>3 DEF Wipe
    <3>2. ASSUME Updated(e), ~Updated(LiquidityAdded(e, -quantity[a], FALSE))
          PROVE  quantity[a] = e.value
      <4> DEFINE w == -quantity[a]
      <4>1. e \in Entries /\ w \in Int
        BY <1>t, <2>1, <3>2 DEF Updated
      <4>2. LiquidityAllows(e, w)
        BY <1>11, <2>3 DEF Wipe, EntryOf
      <4>3. e.value + w = 0 => quantity[a] = e.value
        BY <2>1, <4>1 DEF Entries
      <4> HIDE DEF w, e
      <4>4. e.value + w = 0
        BY <3>2, <4>1, <4>2 DEF LiquidityAdded, LiquidityAllows, Updated, Entries, w
      <4> QED BY <4>3, <4>4
    <3>3. ASSUME NEW s \in Shards, Updated(entry[s]), ~Updated(entry'[s])
          PROVE  ShardOf[a] = s /\ quantity[a] = entry[s].value
      <4>1. ShardOf[a] = s
        BY <1>t, <2>1, <3>1, <3>3
      <4>2. entry'[s] = LiquidityAdded(e, -quantity[a], FALSE)
        BY <1>t, <2>1, <3>1, <4>1
      <4> QED BY <3>2, <3>3, <4>1, <4>2
    <3>4. Known
      BY <2>1, <3>3 DEF Known, LostUpdate
    <3> QED BY <2>4, <3>4
  <2> QED BY <2>1, <2>2, <2>3
<1>12. ASSUME SystemCall PROVE Goal
  <2>1. ASSUME NEW a \in Managed, NEW freeze \in BOOLEAN, ToggleFreeze(a, freeze) PROVE Goal
    BY <1>e, <1>f, <1>k, <2>1 DEF ToggleFreeze
  <2> QED BY <1>11, <1>12, <2>1 DEF SystemCall
<1>13. UNCHANGED vars => Goal
  BY <1>e, <1>f, <1>k DEF vars
<1>14. Goal => DynamicStates' /\ Known
  BY DEF DynamicStates, Free
<1> HIDE DEF Goal
<1>15. Next => Goal
  BY <1>1, <1>2, <1>3, <1>4, <1>5, <1>6, <1>7, <1>8, <1>9, <1>10, <1>12
     DEF Next, UserCall, MetaDataCall, Delivery
<1>16. DynamicStates' /\ Known
  BY <1>13, <1>14, <1>15
<1> QED BY <1>16 DEF Known

LEMMA UpdatesInit == Init => UpdatesInv
<1> SUFFICES ASSUME Init PROVE UpdatesInv
  OBVIOUS
<1>1. TypeOK
  BY TypeInit
<1>2. /\ \A s \in Shards : entry[s] = NoEntry
      /\ \A i \in Slots : Free(i)
  BY DEF Init, Free
<1> QED BY <1>1, <1>2 DEF UpdatesInv, NeverUpdated, DynamicStates, Updated

LEMMA UpdatesStep ==
    ASSUME UpdatesInv, [Next]_vars
    PROVE  /\ UpdatesInv'
           /\ \A s \in Shards : Updated(entry[s]) => Updated(entry'[s]) \/ LostUpdate(s)
<1>1. TypeOK /\ TypeOK'
  BY TypeStep DEF UpdatesInv
<1>2. CASE Dynamic
  BY <1>1, <1>2, DynamicStep DEF UpdatesInv
<1>3. CASE ~Dynamic
  BY <1>1, <1>3, PlainStep DEF UpdatesInv, NeverUpdated
<1> QED BY <1>2, <1>3

(* Whatever calls are made, an update is only lost by the creation of the nonce on
   that shard, by a call that moves nothing, or by a wipe of as many units as the
   updated entry counts: for any accounts, shards, quantities and old holdings,
   frozen or not. *)
THEOREM UpdatesGoOnlyThus ==
    Spec => [][\A s \in Shards : Updated(entry[s]) => Updated(entry'[s]) \/ LostUpdate(s)]_vars
<1>1. UpdatesInv /\ [Next]_vars => UpdatesInv'
  BY UpdatesStep
<1>2. UpdatesInv /\ [Next]_vars =>
        [\A s \in Shards : Updated(entry[s]) => Updated(entry'[s]) \/ LostUpdate(s)]_vars
  BY UpdatesStep
<1> QED BY <1>1, <1>2, UpdatesInit, PTL DEF Spec

(* An updated entry stays, marked as updated, from the creation of the nonce on, for
   any accounts, shards, quantities and old holdings, if nobody disturbs a dynamic
   nonce. *)
THEOREM UpdatesStay == ASSUME UpdatesUndisturbed PROVE Spec => UpdatesSurvive
<1>1. UpdatesInv /\ [Next]_vars => UpdatesInv'
  BY UpdatesStep
<1>2. UpdatesInv /\ [Next]_vars =>
        [~Created =>
            \A s \in Shards :
                entry[s] # NoEntry /\ entry[s].reserved = "updated"
                => entry'[s] # NoEntry /\ entry'[s].reserved = "updated"]_vars
  <2>1. ASSUME UpdatesInv, [Next]_vars, ~Created, NEW s \in Shards, Updated(entry[s])
        PROVE  Updated(entry'[s])
    <3>1. CASE Dynamic
      <4>1. ~LostUpdate(s)
        BY <2>1, <3>1 DEF UpdatesUndisturbed, LostUpdate
      <4> QED BY <2>1, <4>1, UpdatesStep
    <3>2. CASE ~Dynamic
      BY <2>1, <3>2 DEF UpdatesInv, NeverUpdated
    <3> QED BY <3>1, <3>2
  <2> QED BY <2>1 DEF Updated
<1> QED BY <1>1, <1>2, UpdatesInit, PTL DEF Spec, UpdatesSurvive

-----------------------------------------------------------------------------
(* The book: what an account owns is what it holds and what it has on the way, so
   a change of one quantity or of one message place changes it by that amount. *)

OwnerOf(m) == IF m.ret THEN m.to ELSE m.from

AmountFor(a, m) == IF m = NoMessage \/ OwnerOf(m) # a THEN 0 ELSE m.value

OwnedBy(a) == quantity[a] + Total(InFlightOf(a))

Owned == [a \in Accounts |-> OwnedBy(a)]

Issued == minted - Total(OldQuantity)

Retired == burned + wiped + stranded

LEMMA FlightOfType ==
    ASSUME TypeOK, NEW a
    PROVE  /\ InFlightOf(a) \in [Slots -> Nat]
           /\ \A i \in Slots : InFlightOf(a)[i] = AmountFor(a, inflight[i])
           /\ Total(InFlightOf(a)) \in Nat
<1>1. /\ InFlightOf(a) \in [Slots -> Nat]
      /\ \A i \in Slots : InFlightOf(a)[i] = AmountFor(a, inflight[i])
  BY DEF TypeOK, InFlightOf, Free, Messages, AmountFor, OwnerOf, OwnerInFlight
<1> QED BY <1>1, TotalType

LEMMA OwnedType ==
    ASSUME TypeOK, NEW a \in Accounts
    PROVE  quantity[a] \in Nat /\ OwnedBy(a) \in Nat /\ quantity[a] <= OwnedBy(a)
<1>1. quantity[a] \in Nat /\ Total(InFlightOf(a)) \in Nat
  BY FlightOfType DEF TypeOK
<1> QED BY <1>1 DEF OwnedBy

(* What is on its way is owned. *)
LEMMA FlightIsOwned ==
    ASSUME TypeOK, NEW a \in Accounts, NEW i \in Slots
    PROVE  AmountFor(a, inflight[i]) <= OwnedBy(a) /\ AmountFor(a, inflight[i]) \in Nat
<1> DEFINE V == InFlightOf(a)
           v == AmountFor(a, inflight[i])
<1>1. V \in [Slots -> Nat] /\ V[i] = v /\ Total(V) \in Nat /\ IsFiniteSet(Slots)
  BY FlightOfType
<1>2. quantity[a] \in Nat /\ OwnedBy(a) = quantity[a] + Total(V)
  BY DEF TypeOK, OwnedBy
<1> HIDE DEF V, v
<1>3. v <= Total(V) /\ v \in Nat
  BY <1>1, TotalBounds
<1>4. v <= OwnedBy(a)
  BY <1>1, <1>2, <1>3
<1> QED BY <1>3, <1>4 DEF v

(* A message place is filled, emptied or rewritten. *)
LEMMA OwnedSlot ==
    ASSUME TypeOK, TypeOK', NEW a \in Accounts, NEW i \in Slots,
           NEW m \in Messages \cup {NoMessage}, inflight' = [inflight EXCEPT ![i] = m]
    PROVE  OwnedBy(a)' = OwnedBy(a) - quantity[a] + quantity'[a]
                           - AmountFor(a, inflight[i]) + AmountFor(a, m)
<1> DEFINE V == InFlightOf(a)
           W == InFlightOf(a)'
<1>1. V \in [Slots -> Nat] /\ V[i] = AmountFor(a, inflight[i]) /\ Total(V) \in Nat
  BY FlightOfType
<1>2. /\ \A j \in Slots : W[j] = IF j = i THEN AmountFor(a, m) ELSE V[j]
      /\ AmountFor(a, m) \in Nat
      /\ W = [j \in Slots |-> W[j]]
  BY DEF TypeOK, InFlightOf, Free, Messages, AmountFor, OwnerOf, OwnerInFlight
<1>3. IsFiniteSet(Slots)
  OBVIOUS
<1>4. /\ OwnedBy(a) = quantity[a] + Total(V) /\ quantity[a] \in Nat
      /\ OwnedBy(a)' = quantity'[a] + Total(W) /\ quantity'[a] \in Nat
  BY DEF TypeOK, OwnedBy
<1> HIDE DEF V, W
<1>5. W \in [Slots -> Nat] /\ \A y \in Slots : y # i => W[y] = V[y]
  BY <1>1, <1>2
<1>6. Total(W) = Total(V) - V[i] + W[i]
  BY <1>1, <1>3, <1>5, TotalChange
<1> QED BY <1>1, <1>2, <1>4, <1>6

(* No message moves. *)
LEMMA OwnedQuantity ==
    ASSUME TypeOK, TypeOK', NEW a \in Accounts, inflight' = inflight
    PROVE  OwnedBy(a)' = OwnedBy(a) - quantity[a] + quantity'[a]
<1>1. InFlightOf(a)' = InFlightOf(a)
  BY DEF InFlightOf, Free, OwnerInFlight
<1>2. OwnedBy(a)' = quantity'[a] + Total(InFlightOf(a)') /\ quantity'[a] \in Nat
  BY DEF TypeOK, OwnedBy
<1>3. /\ OwnedBy(a) = quantity[a] + Total(InFlightOf(a))
      /\ quantity[a] \in Nat /\ Total(InFlightOf(a)) \in Nat
  BY FlightOfType DEF TypeOK, OwnedBy
<1> QED BY <1>1, <1>2, <1>3

LEMMA BookInit == Init => Book!Init
<1> SUFFICES ASSUME Init PROVE Book!Init
  OBVIOUS
<1>1. ASSUME NEW a \in Accounts PROVE OwnedBy(a) = OldQuantity[a]
  <2>1. InFlightOf(a) = [i \in Slots |-> 0]
    BY DEF Init, InFlightOf, Free
  <2>2. Total(InFlightOf(a)) = 0
    BY <2>1, TotalZero
  <2>3. OldQuantity[a] \in Nat
    OBVIOUS
  <2> QED BY <2>2, <2>3 DEF Init, OwnedBy
<1>2. Owned = OldQuantity
  BY <1>1 DEF Owned
<1>3. Total(OldQuantity) \in Nat
  BY TotalType
<1>4. Issued = 0 /\ Retired = 0
  BY <1>3 DEF Init, Issued, Retired
<1> QED BY <1>2, <1>4 DEF Init, Book!Init, Owned, OwnedBy, Issued, Retired

(* The book allows a step whose amount is owned. *)
LEMMA OwnedIs ==
    ASSUME NEW a \in Accounts
    PROVE  [o \in Accounts |-> quantity[o] + Total(InFlightOf(o))][a] = OwnedBy(a)
BY DEF OwnedBy

LEMMA BookIssues ==
    ASSUME NEW a \in Accounts, NEW v, v \in 0..MaxSupply, Book!Issue(a, v)
    PROVE  Book!Next
BY DEF Book!Next

LEMMA BookOpens ==
    ASSUME NEW v, v \in 0..MaxSupply, Book!Open(Creator, v)
    PROVE  Book!Next
BY DEF Book!Next

LEMMA BookRetires ==
    ASSUME NEW a \in Accounts, NEW v, v \in 0..OwnedBy(a), Book!Retire(a, v)
    PROVE  Book!Next
BY OwnedIs DEF Book!Next

LEMMA BookSeizes ==
    ASSUME NEW a \in Accounts, NEW v, v \in 0..OwnedBy(a), Book!Seize(a, v)
    PROVE  Book!Next
BY OwnedIs DEF Book!Next

LEMMA BookMoves ==
    ASSUME NEW a \in Accounts, NEW b \in Accounts, NEW v, v \in 0..OwnedBy(a), Book!Move(a, b, v)
    PROVE  Book!Next
BY OwnedIs DEF Book!Next

(* As long as nothing was created, nobody owns a unit and none is gone. *)
LEMMA NothingBeforeCreation ==
    ASSUME TypeOK, QuantityConserved, minted = 0
    PROVE  Retired = 0 /\ \A a \in Accounts : OwnedBy(a) = 0
<1>1. /\ IsFiniteSet(Accounts) /\ quantity \in [Accounts -> Nat]
      /\ IsFiniteSet(Slots) /\ ValueInFlight \in [Slots -> Nat]
      /\ Total(quantity) \in Nat /\ Total(ValueInFlight) \in Nat
  BY FlightType, TotalType DEF TypeOK
<1>2. Total(quantity) = 0 /\ Total(ValueInFlight) = 0 /\ Retired = 0
  BY <1>1 DEF TypeOK, QuantityConserved, Retired
<1>3. ASSUME NEW a \in Accounts PROVE OwnedBy(a) = 0
  <2>1. quantity[a] = 0
    <3>1. quantity[a] <= Total(quantity) /\ quantity[a] \in Nat
      BY <1>1, TotalBounds
    <3> QED BY <1>2, <3>1
  <2>2. ASSUME NEW i \in Slots PROVE InFlightOf(a)[i] = 0
    <3>1. ValueInFlight[i] <= Total(ValueInFlight) /\ ValueInFlight[i] \in Nat
      BY <1>1, TotalBounds
    <3>2. ValueInFlight[i] = 0
      BY <1>2, <3>1
    <3> QED BY <3>2 DEF InFlightOf, ValueInFlight
  <2>3. InFlightOf(a) = [i \in Slots |-> 0]
    BY <2>2 DEF InFlightOf
  <2> QED BY <2>1, <2>3, TotalZero DEF OwnedBy
<1> QED BY <1>2, <1>3

(* One action of the book, or none, for each action on the nonce: an arrival is the
   book's move, a return that arrives at most an unfreezing. *)
LEMMA BookStep == TypeOK /\ QuantityConserved /\ [Next]_vars => [Book!Next]_(Book!vars)
<1> SUFFICES ASSUME TypeOK, QuantityConserved, [Next]_vars PROVE [Book!Next]_(Book!vars)
  OBVIOUS
<1> DEFINE Goal == [Book!Next]_(Book!vars)
<1>a. /\ TypeOK'
      /\ quantity \in [Accounts -> Nat] /\ frozen \in [Accounts -> BOOLEAN]
      /\ minted \in Nat /\ burned \in Nat /\ wiped \in Nat /\ stranded \in Nat
      /\ Total(OldQuantity) \in Nat
  BY TypeStep, TotalType DEF TypeOK
<1>b. \A o \in Accounts : quantity[o] \in Nat /\ OwnedBy(o) \in Nat /\ quantity[o] <= OwnedBy(o)
  BY OwnedType
<1>c. ASSUME Owned' = Owned, UNCHANGED <<frozen, totals>> PROVE Goal
  BY <1>c DEF Owned, OwnedBy, totals, Book!vars
<1>d. SUFFICES Goal
  OBVIOUS
<1>s. ASSUME NEW a \in Accounts, NEW has, NEW reserved, NEW all, NEW v \in Int, NEW keep,
             SaveAndCount(a, has, reserved, all, v, keep)
      PROVE  \A o \in Accounts : quantity'[o] = IF o = a THEN quantity[o] + v ELSE quantity[o]
  BY <1>s, <1>a DEF SaveAndCount
<1>i. ASSUME NEW a \in Accounts, NEW v \in Nat, v <= MaxSupply, ~frozen[a],
             \A o \in Accounts : quantity'[o] = IF o = a THEN quantity[o] + v ELSE quantity[o],
             minted' = minted + v, UNCHANGED <<frozen, inflight, burned, wiped, stranded>>
      PROVE  Goal
  <2>1. \A o \in Accounts : OwnedBy(o)' = IF o = a THEN OwnedBy(o) + v ELSE OwnedBy(o)
    BY <1>i, <1>a, <1>b, OwnedQuantity
  <2>2. Owned' = [Owned EXCEPT ![a] = @ + v]
    BY <2>1 DEF Owned
  <2>3. Issued' = Issued + v /\ v \in 0..MaxSupply
    BY <1>i, <1>a DEF Issued
  <2>4. Book!Issue(a, v)
    BY <1>i, <2>2, <2>3 DEF Book!Issue, Book!Unfrozen, Owned, OwnedBy, Issued
  <2>5. Book!Next
    BY <2>3, <2>4, BookIssues
  <2> QED BY <2>5
<1>1. ASSUME NEW v \in Values, Create(v) PROVE Goal
  <2>1. v \in Nat /\ v \in Int /\ Creator \in Accounts /\ v \in 0..MaxSupply
    BY <1>1 DEF Create
  <2>2. /\ minted = 0 /\ minted' = minted + v
        /\ frozen' = [frozen EXCEPT ![Creator] = FALSE]
        /\ UNCHANGED <<inflight, burned, wiped, stranded>>
    BY <1>1, <2>1 DEF Create
  <2>3. \A o \in Accounts :
          quantity'[o] = IF o = Creator THEN quantity[o] + v ELSE quantity[o]
    BY <1>1, <1>s, <2>1 DEF Create
  <2>4. \A o \in Accounts :
          OwnedBy(o)' = IF o = Creator THEN OwnedBy(o) + v ELSE OwnedBy(o)
    BY <1>a, <1>b, <2>1, <2>2, <2>3, OwnedQuantity
  <2>5. Owned' = [Owned EXCEPT ![Creator] = @ + v]
    BY <2>4 DEF Owned
  <2>6. Issued' = Issued + v /\ Retired' = Retired
    BY <1>a, <2>1, <2>2 DEF Issued, Retired
  <2>7. Retired = 0 /\ \A o \in Accounts : Owned[o] = 0
    BY <2>2, NothingBeforeCreation DEF Owned
  <2>8. Book!Open(Creator, v)
    BY <2>2, <2>5, <2>6, <2>7 DEF Book!Open, Owned, OwnedBy, Issued, Retired
  <2> QED BY <2>1, <2>8, BookOpens
<1>2. ASSUME NEW v \in Values, AddQuantity(v) PROVE Goal
  <2>1. v \in Nat /\ v \in Int /\ Creator \in Accounts /\ v <= MaxSupply /\ ~frozen[Creator]
    BY <1>2, <1>a DEF AddQuantity, MayUse
  <2>2. minted' = minted + v /\ UNCHANGED <<frozen, inflight, burned, wiped, stranded>>
    BY <1>2 DEF AddQuantity
  <2>3. \A o \in Accounts :
          quantity'[o] = IF o = Creator THEN quantity[o] + v ELSE quantity[o]
    BY <1>2, <1>s, <2>1 DEF AddQuantity
  <2> HIDE DEF Goal
  <2> QED BY <1>i, <2>1, <2>2, <2>3
<1>3. ASSUME NEW v \in Values, NEW a \in Accounts, Burn(a, v) PROVE Goal
  <2>1. v \in Nat /\ -v \in Int /\ v <= quantity[a]
    BY <1>3, <1>a DEF Burn
  <2>2. \A o \in Accounts : quantity'[o] = IF o = a THEN quantity[o] + (-v) ELSE quantity[o]
    BY <1>3, <1>s, <2>1 DEF Burn
  <2>3. burned' = burned + v /\ UNCHANGED <<frozen, inflight, minted, wiped, stranded>>
    BY <1>3 DEF Burn
  <2>4. \A o \in Accounts : OwnedBy(o)' = IF o = a THEN OwnedBy(o) - v ELSE OwnedBy(o)
    BY <1>a, <1>b, <2>1, <2>2, <2>3, OwnedQuantity
  <2>5. Owned' = [Owned EXCEPT ![a] = @ - v]
    BY <2>4 DEF Owned
  <2>6. Retired' = Retired + v /\ v \in 0..OwnedBy(a)
    BY <1>a, <1>b, <2>1, <2>3 DEF Retired
  <2>7. Book!Retire(a, v)
    BY <2>3, <2>5, <2>6 DEF Book!Retire, Owned, OwnedBy, Retired
  <2>8. Book!Next
    BY <2>6, <2>7, BookRetires
  <2> QED BY <2>8
<1>4. ASSUME NEW v \in Values, NEW a \in Accounts, NEW b \in Accounts, TransferInShard(a, b, v)
      PROVE  Goal
  <2> DEFINE mid == [Owned EXCEPT ![a] = @ - v]
  <2>1. v \in Nat /\ v <= quantity[a] /\ a # b /\ ~frozen[b]
    BY <1>4, <1>a DEF TransferInShard
  <2>2. \A o \in Accounts :
          quantity'[o] = quantity[o] - (IF o = a THEN v ELSE 0) + (IF o = b THEN v ELSE 0)
    BY <1>4, <1>a, <2>1 DEF TransferInShard
  <2>3. UNCHANGED <<frozen, inflight, totals>>
    BY <1>4 DEF TransferInShard
  <2>4. \A o \in Accounts :
          OwnedBy(o)' = OwnedBy(o) - (IF o = a THEN v ELSE 0) + (IF o = b THEN v ELSE 0)
    BY <1>a, <1>b, <2>1, <2>2, <2>3, OwnedQuantity
  <2>5. Owned' = [mid EXCEPT ![b] = @ + v]
    BY <1>b, <2>1, <2>4 DEF Owned
  <2>6. v \in 0..OwnedBy(a)
    BY <1>b, <2>1
  <2>7. Book!Move(a, b, v)
    BY <2>1, <2>3, <2>5, <2>6 DEF totals, Book!Move, Owned, OwnedBy
  <2>8. Book!Next
    BY <2>6, <2>7, BookMoves
  <2> QED BY <2>8
<1>5. ASSUME NEW v \in Values, NEW a \in Accounts, NEW b \in Accounts, NEW i \in Slots,
             TransferOut(a, b, v, i)
      PROVE  Goal
  <2> DEFINE m == [from |-> a, to |-> b, value |-> v, reserved |-> ReservedOf(a), ret |-> FALSE]
  <2>1. v \in Nat /\ -v \in Int
    OBVIOUS
  <2>2. \A o \in Accounts : quantity'[o] = IF o = a THEN quantity[o] + (-v) ELSE quantity[o]
    BY <1>5, <1>s, <2>1 DEF TransferOut
  <2>3. m \in Messages
    BY <2>1, ReadTypes DEF Messages
  <2>4. inflight' = [inflight EXCEPT ![i] = m] /\ inflight[i] = NoMessage /\ UNCHANGED <<frozen, totals>>
    BY <1>5 DEF TransferOut, Free
  <2>5. m # NoMessage
    BY <2>3
  <2>6. \A o \in Accounts : AmountFor(o, m) = IF o = a THEN v ELSE 0
    BY <2>5 DEF AmountFor, OwnerOf
  <2>7. \A o : AmountFor(o, inflight[i]) = 0
    BY <2>4 DEF AmountFor
  <2> HIDE DEF m
  <2>8. \A o \in Accounts :
          OwnedBy(o)' = OwnedBy(o) - quantity[o] + quantity'[o]
                          - AmountFor(o, inflight[i]) + AmountFor(o, m)
    BY <1>a, <2>3, <2>4, OwnedSlot
  <2>9. \A o \in Accounts : OwnedBy(o)' = OwnedBy(o)
    BY <1>b, <2>1, <2>2, <2>6, <2>7, <2>8
  <2> HIDE DEF Goal
  <2> QED BY <1>c, <2>4, <2>9 DEF Owned
<1>6. ASSUME UNCHANGED <<quantity, frozen, inflight, totals>> PROVE Goal
  <2>1. \A o \in Accounts : OwnedBy(o)' = OwnedBy(o)
    BY <1>6, <1>a, <1>b, OwnedQuantity
  <2> HIDE DEF Goal
  <2> QED BY <1>6, <1>c, <2>1 DEF Owned
<1>7. ASSUME NEW i \in Slots, Deliver(i) PROVE Goal
  <2>1. PICK m \in Messages : m = inflight[i] /\ m # NoMessage
    BY <1>7 DEF Deliver, Free, TypeOK
  <2> DEFINE a == m.to
             v == m.value
             from == OwnerOf(m)
             mid == [Owned EXCEPT ![from] = @ - v]
  <2>2. v \in Nat /\ v \in Int /\ a \in Accounts /\ from \in Accounts
    BY <2>1 DEF Messages, OwnerOf
  <2>3. /\ inflight' = [inflight EXCEPT ![i] = NoMessage] /\ NoMessage \in Messages \cup {NoMessage}
        /\ frozen' = [frozen EXCEPT ![a] = FALSE] /\ UNCHANGED totals
    BY <1>7, <2>1 DEF Deliver
  <2>4. \A o \in Accounts : quantity'[o] = IF o = a THEN quantity[o] + v ELSE quantity[o]
    <3>1. \E has, reserved, all, keep : SaveAndCount(a, has, reserved, all, v, keep)
      BY <1>7, <2>1 DEF Deliver
    <3> HIDE DEF a, v
    <3> QED BY <1>s, <2>2, <3>1
  <2>5. \A o \in Accounts : AmountFor(o, m) = IF o = from THEN v ELSE 0
    BY <2>1 DEF AmountFor
  <2>6. \A o : AmountFor(o, NoMessage) = 0
    BY DEF AmountFor
  <2>7. \A o \in Accounts :
          OwnedBy(o)' = OwnedBy(o) - quantity[o] + quantity'[o]
                          - AmountFor(o, m) + AmountFor(o, NoMessage)
    BY <1>a, <2>1, <2>3, OwnedSlot
  <2>8. v <= OwnedBy(from)
    BY <2>1, <2>2, <2>5, FlightIsOwned
  <2>9. m.ret => from = a
    BY DEF OwnerOf
  <2>10. ~m.ret => ~frozen[a]
    BY <1>7, <2>1 DEF Deliver
  <2> HIDE DEF a, v, from
  <2>11. CASE m.ret
    <3>1. \A o \in Accounts : OwnedBy(o)' = OwnedBy(o)
      BY <1>b, <2>2, <2>4, <2>5, <2>6, <2>7, <2>9, <2>11
    <3>2. Owned' = Owned
      BY <3>1 DEF Owned
    <3>3. Book!Unfreeze(a)
      BY <2>3, <3>2 DEF totals, Book!Unfreeze, Owned, OwnedBy
    <3> QED BY <2>2, <3>3 DEF Book!Next
  <2>12. CASE ~m.ret
    <3>1. \A o \in Accounts :
            OwnedBy(o)' = OwnedBy(o) - (IF o = from THEN v ELSE 0) + (IF o = a THEN v ELSE 0)
      BY <1>b, <2>2, <2>4, <2>5, <2>6, <2>7
    <3>2. Owned' = [mid EXCEPT ![a] = @ + v]
      BY <1>b, <2>2, <3>1 DEF Owned
    <3>3. v \in 0..OwnedBy(from)
      BY <1>b, <2>2, <2>8
    <3>4. UNCHANGED frozen
      BY <1>a, <2>2, <2>3, <2>10, <2>12
    <3>5. Book!Move(from, a, v)
      BY <2>2, <2>3, <2>10, <2>12, <3>2, <3>3, <3>4 DEF totals, Book!Move, Owned, OwnedBy
    <3>6. Book!Next
      BY <2>2, <3>3, <3>5, BookMoves
    <3> QED BY <3>6
  <2> QED BY <2>11, <2>12
<1>8. ASSUME NEW i \in Slots, SendBack(i) PROVE Goal
  <2> DEFINE n == inflight[i]
             m == [n EXCEPT !.from = n.to, !.to = n.from, !.ret = TRUE]
  <2>1. n \in Messages /\ n # NoMessage /\ ~n.ret
    BY <1>8 DEF SendBack, Free, TypeOK
  <2>2. m \in Messages /\ m.value = n.value /\ m.to = n.from /\ m.ret
    BY <2>1 DEF Messages
  <2>3. inflight' = [inflight EXCEPT ![i] = m] /\ UNCHANGED <<quantity, frozen, totals>>
    BY <1>8 DEF SendBack
  <2>4. m # NoMessage
    BY <2>2
  <2> HIDE DEF m
  <2>5. \A o : AmountFor(o, m) = AmountFor(o, n) /\ AmountFor(o, n) \in Nat
    BY <2>1, <2>2, <2>4 DEF AmountFor, OwnerOf, Messages
  <2>6. \A o \in Accounts :
          OwnedBy(o)' = OwnedBy(o) - quantity[o] + quantity'[o] - AmountFor(o, n) + AmountFor(o, m)
    BY <1>a, <2>2, <2>3, OwnedSlot
  <2>7. \A o \in Accounts : OwnedBy(o)' = OwnedBy(o)
    BY <1>b, <2>3, <2>5, <2>6
  <2> HIDE DEF Goal
  <2> QED BY <1>c, <2>3, <2>7 DEF Owned
<1>9. ASSUME NEW i \in Slots, Strand(i) PROVE Goal
  <2>1. PICK m \in Messages : m = inflight[i] /\ m # NoMessage
    BY <1>9 DEF Strand, Free, TypeOK
  <2> DEFINE v == m.value
             from == OwnerOf(m)
  <2>2. v \in Nat /\ from \in Accounts
    BY <2>1 DEF Messages, OwnerOf
  <2>3. /\ inflight' = [inflight EXCEPT ![i] = NoMessage] /\ NoMessage \in Messages \cup {NoMessage}
        /\ stranded' = stranded + v /\ UNCHANGED <<quantity, frozen, minted, burned, wiped>>
    BY <1>9, <2>1 DEF Strand
  <2>4. \A o \in Accounts : AmountFor(o, m) = IF o = from THEN v ELSE 0
    BY <2>1 DEF AmountFor
  <2>5. \A o : AmountFor(o, NoMessage) = 0
    BY DEF AmountFor
  <2>6. \A o \in Accounts :
          OwnedBy(o)' = OwnedBy(o) - quantity[o] + quantity'[o]
                          - AmountFor(o, m) + AmountFor(o, NoMessage)
    BY <1>a, <2>1, <2>3, OwnedSlot
  <2>7. v <= OwnedBy(from)
    BY <2>1, <2>2, <2>4, FlightIsOwned
  <2> HIDE DEF v, from
  <2>8. \A o \in Accounts : OwnedBy(o)' = IF o = from THEN OwnedBy(o) - v ELSE OwnedBy(o)
    BY <1>b, <2>2, <2>3, <2>4, <2>5, <2>6
  <2>9. Owned' = [Owned EXCEPT ![from] = @ - v]
    BY <2>2, <2>8 DEF Owned
  <2>10. Retired' = Retired + v /\ v \in 0..OwnedBy(from)
    BY <1>a, <1>b, <2>2, <2>3, <2>7 DEF Retired
  <2>11. Book!Retire(from, v)
    BY <2>2, <2>3, <2>9, <2>10 DEF Book!Retire, Owned, OwnedBy, Retired
  <2>12. Book!Next
    BY <2>2, <2>10, <2>11, BookRetires
  <2> QED BY <2>12
<1>10. ASSUME NEW a \in Managed, NEW freeze \in BOOLEAN, ToggleFreeze(a, freeze) PROVE Goal
  <2>1. a \in Accounts /\ UNCHANGED <<quantity, inflight, totals>>
    BY <1>10 DEF ToggleFreeze
  <2>2. \A o \in Accounts : OwnedBy(o)' = OwnedBy(o)
    BY <1>a, <1>b, <2>1, OwnedQuantity
  <2>3. Owned' = Owned
    BY <2>2 DEF Owned
  <2>4. Book!Freeze(a) \/ Book!Unfreeze(a)
    BY <1>10, <2>1, <2>3 DEF ToggleFreeze, totals, Book!Freeze, Book!Unfreeze, Owned, OwnedBy
  <2> QED BY <2>1, <2>4 DEF Book!Next
<1>11. ASSUME NEW a \in Managed, Wipe(a) PROVE Goal
  <2>0. PICK v \in Nat : v = quantity[a]
    BY <1>a
  <2>1. a \in Accounts /\ frozen[a]
    BY <1>11 DEF Wipe
  <2>2. /\ \A o \in Accounts : quantity'[o] = IF o = a THEN 0 ELSE quantity[o]
        /\ wiped' = wiped + v /\ frozen' = [frozen EXCEPT ![a] = FALSE]
        /\ UNCHANGED <<inflight, minted, burned, stranded>>
    BY <1>11, <1>a, <2>0, <2>1 DEF Wipe
  <2>3. \A o \in Accounts : OwnedBy(o)' = IF o = a THEN OwnedBy(o) - v ELSE OwnedBy(o)
    BY <1>a, <1>b, <2>0, <2>1, <2>2, OwnedQuantity
  <2>4. Owned' = [Owned EXCEPT ![a] = @ - v]
    BY <2>1, <2>3 DEF Owned
  <2>5. Retired' = Retired + v /\ v \in 0..OwnedBy(a)
    BY <1>a, <1>b, <2>0, <2>1, <2>2 DEF Retired
  <2>6. Book!Seize(a, v)
    BY <2>1, <2>2, <2>4, <2>5 DEF Book!Seize, Owned, OwnedBy, Retired
  <2>7. Book!Next
    BY <2>1, <2>5, <2>6, BookSeizes
  <2> QED BY <2>7
<1>12. CASE UNCHANGED vars
  BY <1>12, <1>6 DEF vars
<1> HIDE DEF Goal
<1>13. CASE UserCall
  BY <1>13, <1>1, <1>2, <1>3, <1>4, <1>5 DEF UserCall
<1>14. CASE MetaDataCall
  BY <1>14, <1>6 DEF MetaDataCall, UpdateMetaData, RecreateMetaData
<1>15. CASE Delivery
  BY <1>15, <1>7, <1>8, <1>9 DEF Delivery
<1>16. CASE SystemCall
  BY <1>16, <1>10, <1>11 DEF SystemCall
<1> QED BY <1>12, <1>13, <1>14, <1>15, <1>16 DEF Next

(* A nonce of a semi-fungible token, dynamic or not, whoever held units before the
   metadata moved, implements the book of a fungible token. *)
THEOREM ImplementsBook == Spec => BookSpec
BY TypeCorrect, Conservation, BookInit, BookStep, PTL DEF Spec, BookSpec, Book!Spec
=============================================================================
