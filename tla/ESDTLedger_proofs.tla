-------------------------- MODULE ESDTLedger_proofs --------------------------
(***************************************************************************)
(* Proofs about ESDTLedger for any accounts, shards and bounds.  The       *)
(* inductive invariant is the types and the account of every unit.  Types  *)
(* come first; conservation, the action properties and the refinement of   *)
(* TokenBook rest on them.                                                 *)
(***************************************************************************)
EXTENDS ESDTLedger, Amounts_proofs, TLAPS

USE LedgerAssumption

LEMMA ValuesPositive == \A v \in Values : v \in Nat /\ v > 0
BY DEF Owners

LEMMA TypeInit == Init => TypeOK
BY DEF Init, TypeOK, Settings

(* One step per action of Next. *)
LEMMA TypeStep == TypeOK /\ [Next]_vars => TypeOK'
<1> SUFFICES ASSUME TypeOK, [Next]_vars PROVE TypeOK'
  OBVIOUS
<1> USE DEF TypeOK
<1>1. ASSUME NEW a \in Accounts, NEW v \in Values, LocalMint(a, v) PROVE TypeOK'
  BY <1>1, ValuesPositive DEF LocalMint, Changed, governance
<1>2. ASSUME NEW a \in Accounts, NEW v \in Values, Burn(a, v) PROVE TypeOK'
  BY <1>2, ValuesPositive DEF Burn, Changed, governance
<1>3. ASSUME NEW a \in Accounts, NEW b \in Accounts, NEW v \in Values,
             NEW call \in BOOLEAN, TransferInShard(a, b, v, call)
      PROVE  TypeOK'
  <2>1. Changed(a, -v) \in [Accounts -> Nat]
    BY <1>3, ValuesPositive DEF TransferInShard, Changed
  <2>2. balance' = [Changed(a, -v) EXCEPT ![b] = @ + v]
    BY <1>3 DEF TransferInShard
  <2>3. balance' \in [Accounts -> Nat]
    BY <2>1, <2>2, ValuesPositive
  <2> QED BY <1>3, <2>3 DEF TransferInShard, governance, totals
<1>4. ASSUME NEW a \in Accounts, NEW b \in Accounts, NEW v \in Values,
             NEW call \in BOOLEAN, NEW i \in Slots, TransferOut(a, b, v, call, i)
      PROVE  TypeOK'
  <2>1. [from |-> a, to |-> b, value |-> v, call |-> call, ret |-> FALSE] \in Messages
    BY ValuesPositive DEF Messages, Owners
  <2>2. balance' \in [Accounts -> Nat]
    <3>1. v \in Nat /\ balance[a] >= v /\ balance' = Changed(a, -v)
      BY <1>4, ValuesPositive DEF TransferOut
    <3> QED BY <3>1 DEF Changed
  <2>3. inflight' \in [Slots -> Messages \cup {NoMessage}]
    BY <1>4, <2>1 DEF TransferOut
  <2> QED BY <1>4, <2>2, <2>3 DEF TransferOut, governance, totals
<1>5. ASSUME NEW i \in Slots, Deliver(i) PROVE TypeOK'
  <2>1. inflight[i] \in Messages
    BY <1>5 DEF Deliver, Free
  <2>2. balance' \in [Accounts -> Nat]
    BY <1>5, <2>1 DEF Deliver, Accepts, Changed, Messages
  <2> QED BY <1>5, <2>2 DEF Deliver, governance, totals
<1>6. ASSUME NEW i \in Slots, SendBack(i) PROVE TypeOK'
  <2>1. inflight[i] \in Messages
    BY <1>6 DEF SendBack, Free
  <2>2. inflight' \in [Slots -> Messages \cup {NoMessage}]
    BY <1>6, <2>1 DEF SendBack, Messages
  <2> QED BY <1>6, <2>2 DEF SendBack, recorded, governance, totals
<1>7. ASSUME NEW i \in Slots, Strand(i) PROVE TypeOK'
  <2>1. inflight[i] \in Messages
    BY <1>7 DEF Strand, Free
  <2>2. stranded' \in Nat
    BY <1>7, <2>1 DEF Strand, Messages
  <2> QED BY <1>7, <2>2 DEF Strand, recorded, governance
<1>8. ASSUME NEW a \in Accounts, NEW v \in Values, NEW i \in Slots, Issue(a, v, i)
      PROVE  TypeOK'
  <2>1. [from |-> ESDTSC, to |-> a, value |-> v, call |-> FALSE, ret |-> FALSE] \in Messages
    BY ValuesPositive DEF Messages, Owners
  <2>2. inflight' \in [Slots -> Messages \cup {NoMessage}]
    BY <1>8, <2>1 DEF Issue
  <2>3. minted' \in Nat
    <3>1. v \in Nat
      BY ValuesPositive
    <3> QED BY <1>8, <3>1 DEF Issue
  <2> QED BY <1>8, <2>2, <2>3 DEF Issue, recorded, governance
<1>9. ASSUME NEW a \in Managed, NEW freeze \in BOOLEAN, ToggleFreeze(a, freeze)
      PROVE  TypeOK'
  BY <1>9 DEF ToggleFreeze, governance, totals
<1>10. ASSUME NEW a \in Managed, Wipe(a) PROVE TypeOK'
  BY <1>10 DEF Wipe, governance
<1>11. ASSUME NEW s \in Shards, NEW setting \in Toggled, NEW set \in BOOLEAN,
              ToggleSetting(s, setting, set)
       PROVE  TypeOK'
  BY <1>11 DEF ToggleSetting, recorded, totals
<1>12. ASSUME NEW a \in Managed, NEW r \in Roles, SetRole(a, r) \/ UnSetRole(a, r)
       PROVE  TypeOK'
  <2>1. CASE SetRole(a, r)
    <3>1. roles' = [roles EXCEPT ![a][r] = roles[a][r] + 1] /\ roles[a][r] + 1 \in Nat
      BY <2>1 DEF SetRole
    <3> QED BY <2>1, <3>1 DEF SetRole, recorded, totals
  <2>2. CASE UnSetRole(a, r)
    <3>1. roles' = [roles EXCEPT ![a][r] = roles[a][r] - 1] /\ roles[a][r] - 1 \in Nat
      BY <2>2 DEF UnSetRole
    <3> QED BY <2>2, <3>1 DEF UnSetRole, recorded, totals
  <2> QED BY <1>12, <2>1, <2>2
<1>13. ASSUME NEW s \in Shards, NEW addresses \in SUBSET Managed,
              \/ SetTransferAddresses(s, addresses)
              \/ DeleteTransferAddresses(s, addresses)
       PROVE  TypeOK'
  BY <1>13 DEF SetTransferAddresses, DeleteTransferAddresses, recorded, totals
<1>14. ASSUME NEW side \in {"sender", "receiver"}, NEW a \in Screened, NewVerdict(side, a)
       PROVE  TypeOK'
  <2>1. denied' \in [{"sender", "receiver"} -> SUBSET Accounts]
    BY <1>14 DEF NewVerdict
  <2> QED BY <1>14, <2>1 DEF NewVerdict, recorded, governance, totals
<1>15. CASE UNCHANGED vars
  BY <1>15 DEF vars, recorded, governance, totals
<1> QED BY <1>1, <1>2, <1>3, <1>4, <1>5, <1>6, <1>7, <1>8, <1>9, <1>10, <1>11,
           <1>12, <1>13, <1>14, <1>15
        DEF Next, UserCall, LocalBurn, ESDTBurn, SystemCall, Delivery

(* Every reachable state has the types TypeOK gives. *)
THEOREM TypeCorrect == Spec => []TypeOK
BY TypeInit, TypeStep, PTL DEF Spec

-----------------------------------------------------------------------------
(* Conservation: how the two totals follow a change of one balance and of one
   message place. *)

AmountOf(m) == IF m = NoMessage THEN 0 ELSE m.value

LEMMA BalanceTotal ==
    ASSUME TypeOK, NEW a \in Accounts, NEW w \in Nat,
           balance' = [balance EXCEPT ![a] = w]
    PROVE  Total(balance') = Total(balance) - balance[a] + w
<1> DEFINE f == balance
           h == balance'
<1>1. IsFiniteSet(Accounts) /\ f \in [Accounts -> Nat]
  BY DEF TypeOK
<1>2. /\ h \in [Accounts -> Nat] /\ h[a] = w
      /\ \A y \in Accounts : y # a => h[y] = f[y]
  BY <1>1
<1> HIDE DEF f, h
<1>3. Total(h) = Total(f) - f[a] + h[a]
  BY <1>1, <1>2, TotalChange
<1> QED BY <1>2, <1>3 DEF f, h

LEMMA FlightType ==
    ASSUME TypeOK
    PROVE  ValueInFlight \in [Slots -> Nat] /\ Total(ValueInFlight) \in Nat
<1>1. ValueInFlight \in [Slots -> Nat]
  BY DEF TypeOK, ValueInFlight, Free, Messages
<1> QED BY <1>1, TotalType

LEMMA FlightTotal ==
    ASSUME TypeOK, NEW i \in Slots, NEW m \in Messages \cup {NoMessage},
           inflight' = [inflight EXCEPT ![i] = m]
    PROVE  Total(ValueInFlight') = Total(ValueInFlight) - AmountOf(inflight[i]) + AmountOf(m)
<1>1. AmountOf(m) \in Nat
  BY DEF AmountOf, Messages
<1>2. ValueInFlight' = [ValueInFlight EXCEPT ![i] = AmountOf(m)]
  BY DEF ValueInFlight, Free, AmountOf, TypeOK
<1>3. ValueInFlight[i] = AmountOf(inflight[i])
  BY DEF ValueInFlight, Free, AmountOf
<1>4. IsFiniteSet(Slots) /\ ValueInFlight \in [Slots -> Nat]
  BY FlightType
<1> DEFINE V == ValueInFlight
           W == ValueInFlight'
<1>5. /\ W \in [Slots -> Nat] /\ W[i] = AmountOf(m)
      /\ \A j \in Slots : j # i => W[j] = V[j]
  BY <1>1, <1>2, <1>4
<1> HIDE DEF V, W
<1>6. Total(W) = Total(V) - V[i] + W[i]
  BY <1>4, <1>5, TotalChange DEF V
<1> QED BY <1>3, <1>5, <1>6 DEF V, W

LEMMA TotalsType ==
    ASSUME TypeOK
    PROVE  Total(balance) \in Nat /\ Total(ValueInFlight) \in Nat
BY FlightType, TotalType DEF TypeOK

LEMMA ConservedInit == Init => SupplyConserved
<1> SUFFICES ASSUME Init PROVE SupplyConserved
  OBVIOUS
<1>1. Total(balance) = 0
  BY TotalZero DEF Init
<1>2. ValueInFlight = [i \in Slots |-> 0]
  BY DEF Init, ValueInFlight, Free
<1>3. Total(ValueInFlight) = 0
  BY <1>2, TotalZero
<1> QED BY <1>1, <1>3 DEF Init, SupplyConserved

LEMMA ConservedStep == TypeOK /\ SupplyConserved /\ [Next]_vars => SupplyConserved'
<1> SUFFICES ASSUME TypeOK, SupplyConserved, [Next]_vars PROVE SupplyConserved'
  OBVIOUS
<1>a. /\ Total(balance) \in Nat /\ Total(ValueInFlight) \in Nat
      /\ minted \in Nat /\ burned \in Nat /\ wiped \in Nat /\ stranded \in Nat
      /\ minted = Total(balance) + Total(ValueInFlight) + burned + wiped + stranded
      /\ \A a \in Accounts : balance[a] \in Nat
  BY TotalsType DEF TypeOK, SupplyConserved
<1>b. /\ inflight' = inflight => Total(ValueInFlight') = Total(ValueInFlight)
      /\ balance' = balance => Total(balance') = Total(balance)
  BY DEF ValueInFlight, Free
<1> DEFINE Goal == minted' = Total(balance') + Total(ValueInFlight') + burned' + wiped' + stranded'
<1>c. SUFFICES Goal
  BY DEF SupplyConserved
<1>1. ASSUME NEW a \in Accounts, NEW v \in Values, LocalMint(a, v) PROVE Goal
  <2>1. v \in Nat /\ balance[a] + v \in Nat
    BY <1>a, ValuesPositive
  <2>2. balance' = [balance EXCEPT ![a] = balance[a] + v]
    BY <1>1 DEF LocalMint, Changed
  <2>3. Total(balance') = Total(balance) - balance[a] + (balance[a] + v)
    BY <2>1, <2>2, BalanceTotal, Zenon
  <2> QED BY <1>1, <1>a, <1>b, <2>1, <2>3 DEF LocalMint
<1>2. ASSUME NEW a \in Accounts, NEW v \in Values, Burn(a, v) PROVE Goal
  <2>1. v \in Nat /\ balance[a] - v \in Nat
    <3>1. v \in Nat /\ balance[a] >= v
      BY <1>2, ValuesPositive DEF Burn
    <3> QED BY <1>a, <3>1
  <2>2. balance' = [balance EXCEPT ![a] = balance[a] - v]
    BY <1>2, <1>a, <2>1 DEF Burn, Changed
  <2>3. Total(balance') = Total(balance) - balance[a] + (balance[a] - v)
    BY <2>1, <2>2, BalanceTotal, Zenon
  <2> QED BY <1>2, <1>a, <1>b, <2>1, <2>3 DEF Burn
<1>3. ASSUME NEW a \in Accounts, NEW b \in Accounts, NEW v \in Values,
             NEW call \in BOOLEAN, TransferInShard(a, b, v, call)
      PROVE  Goal
  <2> DEFINE f == balance
             mid == [balance EXCEPT ![a] = balance[a] - v]
             h == balance'
  <2>1. v \in Nat /\ balance[a] - v \in Nat
    <3>1. v \in Nat /\ balance[a] >= v
      BY <1>3, ValuesPositive DEF TransferInShard
    <3> QED BY <1>a, <3>1
  <2>2. Changed(a, -v) = mid
    BY <1>a, <2>1 DEF Changed
  <2>3. h = [mid EXCEPT ![b] = mid[b] + v]
    BY <1>3, <2>2 DEF TransferInShard
  <2>4. /\ f \in [Accounts -> Nat] /\ mid \in [Accounts -> Nat]
        /\ mid[a] = f[a] - v
        /\ \A y \in Accounts : y # a => mid[y] = f[y]
    BY <2>1 DEF TypeOK
  <2> HIDE DEF f, mid, h
  <2>5. /\ h \in [Accounts -> Nat]
        /\ h[b] = mid[b] + v
        /\ \A y \in Accounts : y # b => h[y] = mid[y]
    BY <2>1, <2>3, <2>4
  <2>6. Total(mid) = Total(f) - f[a] + mid[a]
    BY <2>4, TotalChange
  <2>7. Total(h) = Total(mid) - mid[b] + h[b]
    BY <2>4, <2>5, TotalChange
  <2>8. Total(mid) \in Nat /\ Total(f) \in Nat /\ f[a] \in Nat /\ mid[b] \in Nat
    BY <2>4, TotalType
  <2>9. Total(h) = Total(f)
    BY <2>1, <2>4, <2>5, <2>6, <2>7, <2>8
  <2>10. Total(balance') = Total(balance)
    BY <2>9 DEF f, h
  <2> QED BY <1>3, <1>a, <1>b, <2>10 DEF TransferInShard, totals
<1>4. ASSUME NEW a \in Accounts, NEW b \in Accounts, NEW v \in Values,
             NEW call \in BOOLEAN, NEW i \in Slots, TransferOut(a, b, v, call, i)
      PROVE  Goal
  <2> DEFINE m == [from |-> a, to |-> b, value |-> v, call |-> call, ret |-> FALSE]
  <2>1. v \in Nat /\ balance[a] - v \in Nat
    <3>1. v \in Nat /\ balance[a] >= v
      BY <1>4, ValuesPositive DEF TransferOut
    <3> QED BY <1>a, <3>1
  <2>2. balance' = [balance EXCEPT ![a] = balance[a] - v]
    BY <1>4, <1>a, <2>1 DEF TransferOut, Changed
  <2>3. Total(balance') = Total(balance) - balance[a] + (balance[a] - v)
    BY <2>1, <2>2, BalanceTotal, Zenon
  <2>4. m \in Messages /\ m # NoMessage /\ m.value = v
    <3>1. m \in Messages
      BY <2>1 DEF Messages, Owners
    <3> QED BY <3>1
  <2>5. inflight' = [inflight EXCEPT ![i] = m] /\ inflight[i] = NoMessage
    BY <1>4 DEF TransferOut, Free
  <2>6. Total(ValueInFlight') = Total(ValueInFlight) - AmountOf(inflight[i]) + AmountOf(m)
    BY <2>4, <2>5, FlightTotal
  <2>7. AmountOf(inflight[i]) = 0 /\ AmountOf(m) = v
    BY <2>4, <2>5 DEF AmountOf
  <2> QED BY <1>4, <1>a, <2>1, <2>3, <2>6, <2>7 DEF TransferOut, totals
<1>5. ASSUME NEW i \in Slots, Deliver(i) PROVE Goal
  <2> DEFINE a == inflight[i].to
             v == inflight[i].value
  <2>1. inflight[i] \in Messages /\ inflight[i] # NoMessage /\ a \in Accounts
    BY <1>5 DEF Deliver, Free, Accepts, TypeOK
  <2>2. v \in Nat /\ balance[a] + v \in Nat
    BY <1>a, <2>1 DEF Messages
  <2>3. balance' = [balance EXCEPT ![a] = balance[a] + v]
    BY <1>5 DEF Deliver, Changed
  <2>4. Total(balance') = Total(balance) - balance[a] + (balance[a] + v)
    BY <2>1, <2>2, <2>3, BalanceTotal, Zenon
  <2>5. Total(ValueInFlight') = Total(ValueInFlight) - AmountOf(inflight[i]) + AmountOf(NoMessage)
    BY <1>5, FlightTotal DEF Deliver
  <2>6. AmountOf(inflight[i]) = v /\ AmountOf(NoMessage) = 0
    BY <2>1 DEF AmountOf
  <2>7. UNCHANGED totals
    BY <1>5 DEF Deliver
  <2>8. balance[a] \in Nat
    BY <1>a, <2>1
  <2> HIDE DEF a, v
  <2> QED BY <1>a, <2>2, <2>4, <2>5, <2>6, <2>7, <2>8 DEF totals
<1>6. ASSUME NEW i \in Slots, SendBack(i) PROVE Goal
  <2> DEFINE m == [from |-> inflight[i].to, to |-> inflight[i].from,
                   value |-> inflight[i].value, call |-> FALSE, ret |-> TRUE]
  <2>1. inflight[i] \in Messages /\ inflight[i] # NoMessage
    BY <1>6 DEF SendBack, Free, TypeOK
  <2>2. m \in Messages /\ m # NoMessage
    <3>1. m \in Messages
      BY <2>1 DEF Messages
    <3> QED BY <3>1
  <2>3. inflight' = [inflight EXCEPT ![i] = m]
    BY <1>6 DEF SendBack
  <2>4. Total(ValueInFlight') = Total(ValueInFlight) - AmountOf(inflight[i]) + AmountOf(m)
    BY <2>2, <2>3, FlightTotal
  <2>5. AmountOf(m) = AmountOf(inflight[i]) /\ AmountOf(m) \in Nat
    BY <2>1, <2>2 DEF AmountOf, Messages
  <2>6. UNCHANGED <<recorded, totals>>
    BY <1>6 DEF SendBack
  <2> HIDE DEF m
  <2> QED BY <1>a, <1>b, <2>4, <2>5, <2>6 DEF recorded, totals
<1>7. ASSUME NEW i \in Slots, Strand(i) PROVE Goal
  <2>1. inflight[i] \in Messages /\ inflight[i] # NoMessage
    BY <1>7 DEF Strand, Free, TypeOK
  <2>2. Total(ValueInFlight') = Total(ValueInFlight) - AmountOf(inflight[i]) + AmountOf(NoMessage)
    BY <1>7, FlightTotal DEF Strand
  <2>3. AmountOf(inflight[i]) = inflight[i].value /\ AmountOf(NoMessage) = 0
    BY <2>1 DEF AmountOf
  <2>4. inflight[i].value \in Nat
    BY <2>1 DEF Messages
  <2> QED BY <1>7, <1>a, <1>b, <2>2, <2>3, <2>4 DEF Strand, recorded
<1>8. ASSUME NEW a \in Accounts, NEW v \in Values, NEW i \in Slots, Issue(a, v, i)
      PROVE  Goal
  <2> DEFINE m == [from |-> ESDTSC, to |-> a, value |-> v, call |-> FALSE, ret |-> FALSE]
  <2>1. v \in Nat
    BY ValuesPositive
  <2>2. m \in Messages /\ m # NoMessage /\ m.value = v
    <3>1. m \in Messages
      BY <2>1 DEF Messages, Owners
    <3> QED BY <3>1
  <2>3. inflight' = [inflight EXCEPT ![i] = m] /\ inflight[i] = NoMessage
    BY <1>8 DEF Issue, Free
  <2>4. Total(ValueInFlight') = Total(ValueInFlight) - AmountOf(inflight[i]) + AmountOf(m)
    BY <2>2, <2>3, FlightTotal
  <2>5. AmountOf(inflight[i]) = 0 /\ AmountOf(m) = v
    BY <2>2, <2>3 DEF AmountOf
  <2> QED BY <1>8, <1>a, <1>b, <2>1, <2>4, <2>5 DEF Issue, recorded
<1>9. ASSUME NEW a \in Managed, Wipe(a) PROVE Goal
  <2>1. a \in Accounts
    OBVIOUS
  <2>2. balance' = [balance EXCEPT ![a] = 0] /\ balance[a] \in Nat /\ 0 \in Nat
    BY <1>9, <1>a, <2>1 DEF Wipe
  <2>3. Total(balance') = Total(balance) - balance[a] + 0
    BY <2>1, <2>2, BalanceTotal, Zenon
  <2>4. /\ wiped' = wiped + balance[a] /\ inflight' = inflight
        /\ minted' = minted /\ burned' = burned /\ stranded' = stranded
    BY <1>9 DEF Wipe
  <2> DEFINE held == balance[a]
  <2>5. /\ Total(balance') = Total(balance) - held + 0
        /\ wiped' = wiped + held /\ held \in Nat
    BY <2>2, <2>3, <2>4
  <2> HIDE DEF held
  <2> QED BY <1>a, <1>b, <2>4, <2>5
<1>10. CASE UNCHANGED <<balance, inflight, totals>>
  BY <1>10, <1>a, <1>b DEF totals
<1> HIDE DEF Goal
<1>11. CASE UserCall
  BY <1>11, <1>1, <1>2, <1>3, <1>4 DEF UserCall, LocalBurn, ESDTBurn
<1>12. CASE SystemCall
  BY <1>12, <1>8, <1>9, <1>10
     DEF SystemCall, ToggleFreeze, ToggleSetting, SetRole, UnSetRole,
         SetTransferAddresses, DeleteTransferAddresses, recorded
<1>13. CASE \E i \in Slots : Delivery(i)
  BY <1>13, <1>5, <1>6, <1>7 DEF Delivery
<1>14. CASE \/ \E side \in {"sender", "receiver"}, a \in Screened : NewVerdict(side, a)
            \/ UNCHANGED vars
  BY <1>14, <1>10 DEF NewVerdict, vars, recorded
<1> QED BY <1>11, <1>12, <1>13, <1>14 DEF Next

(* Every unit minted is, for ever, under an account, in one message, or
   retired: no debit is lost and no message is credited twice. *)
THEOREM Conservation == Spec => []SupplyConserved
<1>1. TypeOK /\ SupplyConserved /\ [Next]_vars => (TypeOK /\ SupplyConserved)'
  BY TypeStep, ConservedStep
<1> QED BY <1>1, TypeInit, ConservedInit, PTL DEF Spec
-----------------------------------------------------------------------------
(* Action properties: what a step may do to a locked holding, to an account the
   gate refuses, and to a refund. *)

LEMMA LockedStep ==
    ASSUME TypeOK, [Next]_vars, NEW a \in Accounts, Locked(a), balance'[a] # balance[a]
    PROVE  \/ frozen[a] /\ balance'[a] = 0 /\ wiped' = wiped + balance[a]
           \/ \E i \in Slots :
                  /\ inflight[i] # NoMessage /\ inflight'[i] = NoMessage
                  /\ inflight[i].ret /\ inflight[i].to = a
                  /\ balance'[a] = balance[a] + inflight[i].value
<1> DEFINE Kept == \/ frozen[a] /\ balance'[a] = 0 /\ wiped' = wiped + balance[a]
                   \/ \E i \in Slots :
                        /\ inflight[i] # NoMessage /\ inflight'[i] = NoMessage
                        /\ inflight[i].ret /\ inflight[i].to = a
                        /\ balance'[a] = balance[a] + inflight[i].value
<1>a. /\ ~MayChange(a, FALSE)
      /\ balance \in [Accounts -> Nat]
  BY DEF Locked, MayChange, TypeOK
<1>1. ASSUME NEW b \in Accounts, NEW v \in Values, LocalMint(b, v) \/ Burn(b, v)
      PROVE  FALSE
  <2>1. b # a
    BY <1>1, <1>a DEF LocalMint, Burn
  <2> QED BY <1>1, <1>a, <2>1 DEF LocalMint, Burn, Changed
<1>2. ASSUME NEW b \in Accounts, NEW c \in Accounts, NEW v \in Values,
             NEW call \in BOOLEAN, TransferInShard(b, c, v, call)
      PROVE  FALSE
  <2>1. b # a /\ c # a
    BY <1>2, <1>a DEF TransferInShard
  <2> QED BY <1>2, <1>a, <2>1 DEF TransferInShard, Changed
<1>3. ASSUME NEW b \in Accounts, NEW c \in Accounts, NEW v \in Values,
             NEW call \in BOOLEAN, NEW i \in Slots, TransferOut(b, c, v, call, i)
      PROVE  FALSE
  <2>1. b # a
    BY <1>3, <1>a DEF TransferOut
  <2> QED BY <1>3, <1>a, <2>1 DEF TransferOut, Changed
<1>4. ASSUME NEW i \in Slots, Deliver(i) PROVE Kept
  <2>1. inflight[i].to = a
    BY <1>4, <1>a DEF Deliver, Changed
  <2>2. inflight[i].ret
    <3>1. inflight[i] \in Messages
      BY <1>4 DEF Deliver, Free, TypeOK
    <3> QED BY <1>4, <1>a, <2>1, <3>1 DEF Deliver, Accepts, MayChange, Messages
  <2>3. inflight[i] # NoMessage /\ inflight'[i] = NoMessage
    BY <1>4 DEF Deliver, Free, TypeOK
  <2>4. balance'[a] = balance[a] + inflight[i].value
    BY <1>4, <1>a, <2>1 DEF Deliver, Changed
  <2> QED BY <2>1, <2>2, <2>3, <2>4
<1>5. ASSUME NEW b \in Managed, Wipe(b) PROVE Kept
  <2>1. b = a
    BY <1>5, <1>a DEF Wipe
  <2> QED BY <1>5, <1>a, <2>1 DEF Wipe
<1>b. SUFFICES Kept
  OBVIOUS
<1> HIDE DEF Kept
<1>6. ~(UNCHANGED balance)
  OBVIOUS
<1>7. CASE UserCall
  BY <1>7, <1>1, <1>2, <1>3 DEF UserCall, LocalBurn, ESDTBurn
<1>8. CASE SystemCall
  BY <1>8, <1>5, <1>6
     DEF SystemCall, Issue, ToggleFreeze, ToggleSetting, SetRole, UnSetRole,
         SetTransferAddresses, DeleteTransferAddresses, recorded
<1>9. CASE \E i \in Slots : Delivery(i)
  BY <1>9, <1>4, <1>6 DEF Delivery, SendBack, Strand, recorded
<1>10. CASE \/ \E side \in {"sender", "receiver"}, b \in Screened : NewVerdict(side, b)
            \/ UNCHANGED vars
  BY <1>10, <1>6 DEF NewVerdict, vars, recorded
<1> QED BY <1>7, <1>8, <1>9, <1>10 DEF Next

(* A frozen or paused holding changes only by its own refund or by the wipe. *)
THEOREM LockedHoldings == Spec => LockedHoldingsKept
<1>1. TypeOK /\ [Next]_vars =>
        [\A a \in Accounts :
            Locked(a) /\ balance'[a] # balance[a] =>
                \/ frozen[a] /\ balance'[a] = 0 /\ wiped' = wiped + balance[a]
                \/ \E i \in Slots :
                        /\ inflight[i] # NoMessage /\ inflight'[i] = NoMessage
                        /\ inflight[i].ret /\ inflight[i].to = a
                        /\ balance'[a] = balance[a] + inflight[i].value]_vars
  BY LockedStep
<1> QED BY <1>1, TypeCorrect, PTL DEF Spec, LockedHoldingsKept

LEMMA RefundStep ==
    ASSUME TypeOK, [Next]_vars, stranded' # stranded
    PROVE  \E i \in Slots :
              /\ inflight[i] # NoMessage /\ inflight'[i] = NoMessage
              /\ inflight[i].ret
              /\ \/ inflight[i].to = ESDTSC
                 \/ DRWAEnforcement /\ inflight[i].to \in denied["receiver"]
<1>a. CASE UserCall
  <2>1. \A x, v : LocalMint(x, v) \/ Burn(x, v) => UNCHANGED stranded
    BY DEF LocalMint, Burn
  <2>2. \A x, y, v, call : TransferInShard(x, y, v, call) => UNCHANGED totals
    BY Zenon DEF TransferInShard
  <2>3. \A x, y, v, call, i : TransferOut(x, y, v, call, i) => UNCHANGED totals
    BY Zenon DEF TransferOut
  <2>4. UNCHANGED totals => UNCHANGED stranded
    BY DEF totals
  <2> QED BY <1>a, <2>1, <2>2, <2>3, <2>4 DEF UserCall, LocalBurn, ESDTBurn
<1>b. CASE SystemCall
  <2>1. \A x, v, i : Issue(x, v, i) \/ Wipe(x) => UNCHANGED stranded
    BY DEF Issue, Wipe
  <2>2. \A x, y, z : ToggleFreeze(x, y) \/ ToggleSetting(x, y, z) => UNCHANGED stranded
    BY DEF ToggleFreeze, ToggleSetting, totals
  <2>3. \A x, y : \/ SetRole(x, y) \/ UnSetRole(x, y)
                  \/ SetTransferAddresses(x, y) \/ DeleteTransferAddresses(x, y)
                  => UNCHANGED stranded
    BY DEF SetRole, UnSetRole, SetTransferAddresses, DeleteTransferAddresses, totals
  <2> QED BY <1>b, <2>1, <2>2, <2>3 DEF SystemCall
<1>c. CASE \/ \E side \in {"sender", "receiver"}, b \in Screened : NewVerdict(side, b)
           \/ UNCHANGED vars
  BY <1>c DEF NewVerdict, vars, totals
<1>d. CASE \E i \in Slots : Delivery(i)
  <2>1. PICK i \in Slots : Strand(i)
    BY <1>d DEF Delivery, Deliver, SendBack, totals
  <2>2. inflight[i] \in Messages /\ inflight[i] # NoMessage /\ inflight[i].ret
    BY <2>1 DEF Strand, Free, TypeOK
  <2>3. inflight'[i] = NoMessage
    BY <2>1 DEF Strand, TypeOK
  <2>4. \/ inflight[i].to = ESDTSC
        \/ DRWAEnforcement /\ inflight[i].to \in denied["receiver"]
    BY <2>1, <2>2 DEF Strand, Accepts, GateAllows, CheckPayable, MayChange, Messages, Owners
  <2> QED BY <2>2, <2>3, <2>4
<1> QED BY <1>a, <1>b, <1>c, <1>d DEF Next

(* A refund to an account fails for the DRWA gate alone. *)
THEOREM Refunds == Spec => RefundsRefusedOnlyByGate
<1>1. TypeOK /\ [Next]_vars =>
        [stranded' # stranded =>
            \E i \in Slots :
                /\ inflight[i] # NoMessage /\ inflight'[i] = NoMessage
                /\ inflight[i].ret
                /\ \/ inflight[i].to = ESDTSC
                   \/ DRWAEnforcement /\ inflight[i].to \in denied["receiver"]]_vars
  BY RefundStep
<1> QED BY <1>1, TypeCorrect, PTL DEF Spec, RefundsRefusedOnlyByGate

LEMMA DeniedStep ==
    ASSUME TypeOK, [Next]_vars, DRWAEnforcement,
           NEW a \in denied["receiver"], balance'[a] > balance[a]
    PROVE  minted' > minted
<1>a. /\ a \in Accounts /\ ~GateAllows("receiver", a)
      /\ balance \in [Accounts -> Nat] /\ minted \in Nat
  BY DEF GateAllows, TypeOK
<1> DEFINE Goal == minted' > minted
<1>b. SUFFICES Goal
  OBVIOUS
<1>1. ASSUME NEW b \in Accounts, NEW v \in Values, LocalMint(b, v)
      PROVE  Goal
  <2>1. v \in Nat /\ v > 0
    BY ValuesPositive
  <2>2. minted' = minted + v
    BY <1>1 DEF LocalMint
  <2> QED BY <1>a, <2>1, <2>2
<1>2. ASSUME NEW b \in Accounts, NEW v \in Values, Burn(b, v) PROVE FALSE
  <2>1. v \in Nat /\ v > 0
    BY ValuesPositive
  <2>2. balance' = Changed(b, -v)
    BY <1>2 DEF Burn
  <2> QED BY <1>a, <2>1, <2>2 DEF Changed
<1>3. ASSUME NEW b \in Accounts, NEW c \in Accounts, NEW v \in Values,
             NEW call \in BOOLEAN, TransferInShard(b, c, v, call)
      PROVE  FALSE
  <2>1. c # a /\ v \in Nat /\ v > 0
    BY <1>3, <1>a, ValuesPositive DEF TransferInShard
  <2>2. balance' = [Changed(b, -v) EXCEPT ![c] = @ + v]
    BY <1>3 DEF TransferInShard
  <2>3. balance'[a] = Changed(b, -v)[a]
    BY <1>a, <2>1, <2>2 DEF Changed
  <2> QED BY <1>a, <2>1, <2>3 DEF Changed
<1>4. ASSUME NEW b \in Accounts, NEW c \in Accounts, NEW v \in Values,
             NEW call \in BOOLEAN, NEW i \in Slots, TransferOut(b, c, v, call, i)
      PROVE  FALSE
  <2>1. v \in Nat /\ v > 0
    BY ValuesPositive
  <2>2. balance' = Changed(b, -v)
    BY <1>4 DEF TransferOut
  <2> QED BY <1>a, <2>1, <2>2 DEF Changed
<1>5. ASSUME NEW i \in Slots, Deliver(i) PROVE FALSE
  <2>1. inflight[i].to # a
    BY <1>5, <1>a DEF Deliver, Accepts
  <2> QED BY <1>5, <1>a, <2>1 DEF Deliver, Changed
<1>6. ASSUME NEW b \in Managed, Wipe(b) PROVE FALSE
  <2>1. balance' = [balance EXCEPT ![b] = 0] /\ balance[a] \in Nat
    BY <1>6, <1>a DEF Wipe
  <2> QED BY <1>a, <2>1
<1>7. ~(UNCHANGED balance)
  BY <1>a
<1> HIDE DEF Goal
<1>8. CASE UserCall
  BY <1>8, <1>1, <1>2, <1>3, <1>4 DEF UserCall, LocalBurn, ESDTBurn
<1>9. CASE SystemCall
  BY <1>9, <1>6, <1>7
     DEF SystemCall, Issue, ToggleFreeze, ToggleSetting, SetRole, UnSetRole,
         SetTransferAddresses, DeleteTransferAddresses, recorded
<1>10. CASE \E i \in Slots : Delivery(i)
  BY <1>10, <1>5, <1>7 DEF Delivery, SendBack, Strand, recorded
<1>11. CASE \/ \E side \in {"sender", "receiver"}, b \in Screened : NewVerdict(side, b)
            \/ UNCHANGED vars
  BY <1>11, <1>7 DEF NewVerdict, vars, recorded
<1> QED BY <1>8, <1>9, <1>10, <1>11 DEF Next

(* No transfer, delivery or refund adds to the balance of an account that the
   gate refuses as a receiver: only its own mint does. *)
THEOREM DeniedReceivers == Spec => DeniedReceiverOnlyMints
<1>1. TypeOK /\ [Next]_vars =>
        [DRWAEnforcement =>
            \A a \in denied["receiver"] :
                balance'[a] > balance[a] => minted' > minted]_vars
  BY DeniedStep
<1> QED BY <1>1, TypeCorrect, PTL DEF Spec, DeniedReceiverOnlyMints

LEMMA LimitedStep ==
    ASSUME TypeOK, [Next]_vars, NEW a \in Accounts,
           IsSet(ShardOf[a], "LimitedTransfer"), balance'[a] < balance[a],
           burned' = burned, wiped' = wiped
    PROVE  \E b \in Accounts :
              PaidBy(b) /\ \E x \in {a, b} : Authorised(x, ShardOf[a])
<1> DEFINE Goal == \E b \in Accounts :
                      PaidBy(b) /\ \E x \in {a, b} : Authorised(x, ShardOf[a])
<1>a. /\ balance \in [Accounts -> Nat] /\ burned \in Nat /\ wiped \in Nat
      /\ inflight \in [Slots -> Messages \cup {NoMessage}]
  BY DEF TypeOK
<1>b. SUFFICES Goal
  OBVIOUS
<1>c. ASSUME NEW b \in Accounts, MayLeave(a, b)
      PROVE  \E x \in {a, b} : Authorised(x, ShardOf[a])
  BY <1>c DEF MayLeave, Authorised
<1>1. ASSUME NEW b \in Accounts, NEW v \in Values, LocalMint(b, v) \/ Burn(b, v)
      PROVE  FALSE
  <2>1. v \in Nat /\ v > 0
    BY ValuesPositive
  <2>2. CASE LocalMint(b, v)
    <3>1. balance' = [balance EXCEPT ![b] = @ + v]
      BY <2>2 DEF LocalMint, Changed
    <3> QED BY <1>a, <2>1, <3>1
  <2>3. CASE Burn(b, v)
    <3>1. burned' = burned + v
      BY <2>3 DEF Burn
    <3> QED BY <1>a, <2>1, <3>1
  <2> QED BY <1>1, <2>2, <2>3
<1>2. ASSUME NEW b \in Accounts, NEW c \in Accounts, NEW v \in Values,
             NEW call \in BOOLEAN, TransferInShard(b, c, v, call)
      PROVE  Goal
  <2>1. v \in Nat /\ v > 0 /\ balance' = [Changed(b, -v) EXCEPT ![c] = @ + v]
    BY <1>2, ValuesPositive DEF TransferInShard
  <2>2. b = a /\ c # a
    BY <1>a, <2>1 DEF Changed
  <2>3. balance'[c] > balance[c]
    BY <1>a, <2>1, <2>2 DEF Changed
  <2> QED BY <1>2, <1>c, <2>2, <2>3 DEF TransferInShard, PaidBy
<1>3. ASSUME NEW b \in Accounts, NEW c \in Accounts, NEW v \in Values,
             NEW call \in BOOLEAN, NEW i \in Slots, TransferOut(b, c, v, call, i)
      PROVE  Goal
  <2> DEFINE m == [from |-> b, to |-> c, value |-> v, call |-> call, ret |-> FALSE]
  <2>1. b = a
    BY <1>3, <1>a DEF TransferOut, Changed
  <2>2. m \in Messages /\ m # NoMessage /\ m.to = c
    <3>1. m \in Messages
      BY ValuesPositive DEF Messages, Owners
    <3> QED BY <3>1
  <2>3. inflight[i] = NoMessage /\ inflight'[i] = m
    BY <1>3, <1>a DEF TransferOut, Free
  <2> HIDE DEF m
  <2>4. PaidBy(c)
    BY <2>2, <2>3 DEF PaidBy
  <2> QED BY <1>3, <1>c, <2>1, <2>4 DEF TransferOut
<1>4. ASSUME NEW i \in Slots, Deliver(i) PROVE FALSE
  <2>1. inflight[i] \in Messages
    BY <1>4, <1>a DEF Deliver, Free
  <2> QED BY <1>4, <1>a, <2>1 DEF Deliver, Changed, Messages
<1>5. ASSUME NEW b \in Managed, Wipe(b) PROVE FALSE
  BY <1>5, <1>a DEF Wipe
<1>6. ~(UNCHANGED balance)
  BY <1>a
<1> HIDE DEF Goal
<1>7. CASE UserCall
  BY <1>7, <1>1, <1>2, <1>3 DEF UserCall, LocalBurn, ESDTBurn
<1>8. CASE SystemCall
  BY <1>8, <1>5, <1>6
     DEF SystemCall, Issue, ToggleFreeze, ToggleSetting, SetRole, UnSetRole,
         SetTransferAddresses, DeleteTransferAddresses, recorded
<1>9. CASE \E i \in Slots : Delivery(i)
  BY <1>9, <1>4, <1>6 DEF Delivery, SendBack, Strand, recorded
<1>10. CASE \/ \E side \in {"sender", "receiver"}, b \in Screened : NewVerdict(side, b)
            \/ UNCHANGED vars
  BY <1>10, <1>6 DEF NewVerdict, vars, recorded
<1> QED BY <1>7, <1>8, <1>9, <1>10 DEF Next

(* While a token is limited, units leave an account only towards or from an
   account that the payer's shard knows to have the transfer role. *)
THEOREM LimitedMoves == Spec => LimitedMovesAuthorised
<1>1. TypeOK /\ [Next]_vars =>
        [\A a \in Accounts :
            /\ IsSet(ShardOf[a], "LimitedTransfer")
            /\ balance'[a] < balance[a]
            /\ burned' = burned /\ wiped' = wiped
            => \E b \in Accounts :
                    PaidBy(b) /\ \E x \in {a, b} : Authorised(x, ShardOf[a])]_vars
  BY LimitedStep
<1> QED BY <1>1, TypeCorrect, PTL DEF Spec, LimitedMovesAuthorised

(* Balances are naturals and every unit is accounted for, in every reachable state. *)
THEOREM AmountsAlwaysHold == Spec => []AmountsHold
<1>1. TypeOK /\ SupplyConserved => AmountsHold
  BY DEF AmountsHold
<1> QED BY <1>1, TypeCorrect, Conservation, PTL

-----------------------------------------------------------------------------
(* The refinement: what an account owns is what it holds and what it has on the
   way, so a change of one balance or of one message place changes what the
   accounts own by that amount. *)

BalanceOf(o) == IF o \in Accounts THEN balance[o] ELSE 0

OwnerOf(m) == IF m.ret THEN m.to ELSE m.from

AmountFor(o, m) == IF m = NoMessage \/ OwnerOf(m) # o THEN 0 ELSE m.value

LEMMA FlightOfType ==
    ASSUME TypeOK, NEW o
    PROVE  /\ InFlightOf(o) \in [Slots -> Nat]
           /\ \A i \in Slots : InFlightOf(o)[i] = AmountFor(o, inflight[i])
           /\ Total(InFlightOf(o)) \in Nat
<1>1. /\ InFlightOf(o) \in [Slots -> Nat]
      /\ \A i \in Slots : InFlightOf(o)[i] = AmountFor(o, inflight[i])
  BY DEF TypeOK, InFlightOf, Free, Messages, AmountFor, OwnerOf, OwnerInFlight
<1> QED BY <1>1, TotalType

LEMMA HeldType ==
    ASSUME TypeOK, NEW o
    PROVE  /\ BalanceOf(o) \in Nat /\ Held(o) \in Nat
           /\ Held(o) = BalanceOf(o) + Total(InFlightOf(o))
<1>1. BalanceOf(o) \in Nat /\ Held(o) = BalanceOf(o) + Total(InFlightOf(o))
  BY DEF TypeOK, BalanceOf, Held
<1> QED BY <1>1, FlightOfType

(* A message place is filled, emptied or rewritten. *)
LEMMA HeldSlot ==
    ASSUME TypeOK, TypeOK', NEW o, NEW i \in Slots, NEW m \in Messages \cup {NoMessage},
           inflight' = [inflight EXCEPT ![i] = m]
    PROVE  Held(o)' = Held(o) - BalanceOf(o) + BalanceOf(o)'
                        - AmountFor(o, inflight[i]) + AmountFor(o, m)
<1> DEFINE V == InFlightOf(o)
           W == InFlightOf(o)'
<1>1. V \in [Slots -> Nat] /\ V[i] = AmountFor(o, inflight[i])
  BY FlightOfType
<1>2. /\ \A j \in Slots : W[j] = IF j = i THEN AmountFor(o, m) ELSE V[j]
      /\ AmountFor(o, m) \in Nat
      /\ W = [j \in Slots |-> W[j]]
  BY DEF TypeOK, InFlightOf, Free, Messages, AmountFor, OwnerOf, OwnerInFlight
<1>3. IsFiniteSet(Slots)
  OBVIOUS
<1> HIDE DEF V, W
<1>4. W \in [Slots -> Nat]
  BY <1>1, <1>2
<1>5. \A y \in Slots : y # i => W[y] = V[y]
  BY <1>2
<1>6. Total(W) = Total(V) - V[i] + W[i]
  BY <1>1, <1>3, <1>4, <1>5, TotalChange
<1>7. Held(o) = BalanceOf(o) + Total(V) /\ BalanceOf(o) \in Nat /\ Total(V) \in Nat
  BY HeldType, FlightOfType DEF V
<1>8. Held(o)' = BalanceOf(o)' + Total(W) /\ BalanceOf(o)' \in Nat
  BY DEF TypeOK, BalanceOf, Held, W
<1> QED BY <1>1, <1>2, <1>6, <1>7, <1>8

(* No message moves. *)
LEMMA HeldBalance ==
    ASSUME TypeOK, TypeOK', NEW o, inflight' = inflight
    PROVE  Held(o)' = Held(o) - BalanceOf(o) + BalanceOf(o)'
<1>1. InFlightOf(o)' = InFlightOf(o)
  BY DEF InFlightOf, Free, OwnerInFlight
<1>2. Held(o)' = BalanceOf(o)' + Total(InFlightOf(o)') /\ BalanceOf(o)' \in Nat
  BY DEF TypeOK, BalanceOf, Held
<1>3. Held(o) = BalanceOf(o) + Total(InFlightOf(o)) /\ BalanceOf(o) \in Nat /\ Total(InFlightOf(o)) \in Nat
  BY HeldType, FlightOfType
<1> QED BY <1>1, <1>2, <1>3

Owned == [o \in Owners |-> Held(o)]

Retired == burned + wiped + stranded

LEMMA BookInit == Init => Book!Init
<1> SUFFICES ASSUME Init PROVE Book!Init
  OBVIOUS
<1>1. ASSUME NEW o \in Owners PROVE Held(o) = 0
  <2>1. InFlightOf(o) = [i \in Slots |-> 0]
    BY DEF Init, InFlightOf, Free
  <2>2. Total(InFlightOf(o)) = 0
    BY <2>1, TotalZero
  <2> QED BY <2>2 DEF Init, Held
<1> QED BY <1>1 DEF Init, Book!Init

(* One action of the book, or none, for each action of the ledger. *)
LEMMA BookStep == TypeOK /\ [Next]_vars => [Book!Next]_(Book!vars)
<1> SUFFICES ASSUME TypeOK, [Next]_vars PROVE [Book!Next]_(Book!vars)
  OBVIOUS
<1> DEFINE Goal == [Book!Next]_(Book!vars)
<1>a. /\ TypeOK'
      /\ balance \in [Accounts -> Nat]
      /\ minted \in Nat /\ burned \in Nat /\ wiped \in Nat /\ stranded \in Nat
  BY TypeStep DEF TypeOK
<1>b. \A o \in Owners : Held(o) \in Nat /\ BalanceOf(o) \in Nat /\ BalanceOf(o) <= Held(o)
  BY HeldType, FlightOfType
<1>c. ASSUME Owned' = Owned, UNCHANGED <<frozen, totals>> PROVE Goal
  BY <1>c DEF Owned, totals, Book!vars
<1>d. SUFFICES Goal
  OBVIOUS
<1>1. ASSUME NEW a \in Accounts, NEW v \in Values, LocalMint(a, v) PROVE Goal
  <2>1. v \in Nat /\ v \in 0..MaxSupply
    BY <1>1, <1>a, ValuesPositive DEF LocalMint
  <2>2. \A o \in Owners : BalanceOf(o)' = IF o = a THEN BalanceOf(o) + v ELSE BalanceOf(o)
    BY <1>1, <1>a DEF LocalMint, Changed, BalanceOf
  <2>3. \A o \in Owners : Held(o)' = IF o = a THEN Held(o) + v ELSE Held(o)
    BY <1>1, <1>a, <1>b, <2>1, <2>2, HeldBalance DEF LocalMint
  <2>4. a \in Owners /\ Owned' = [Owned EXCEPT ![a] = @ + v]
    BY <2>3 DEF Owned, Owners
  <2>5. Book!Issue(a, v)
    BY <1>1, <2>4 DEF LocalMint, MayChange, Book!Issue, Book!Unfrozen, Owned
  <2> QED BY <2>1, <2>4, <2>5 DEF Book!Next
<1>2. ASSUME NEW a \in Accounts, NEW v \in Values, Burn(a, v) PROVE Goal
  <2>1. v \in Nat /\ balance[a] >= v
    BY <1>2, ValuesPositive DEF Burn
  <2>2. \A o \in Owners : BalanceOf(o)' = IF o = a THEN BalanceOf(o) - v ELSE BalanceOf(o)
    BY <1>2, <1>a DEF Burn, Changed, BalanceOf
  <2>3. \A o \in Owners : Held(o)' = IF o = a THEN Held(o) - v ELSE Held(o)
    BY <1>2, <1>a, <1>b, <2>1, <2>2, HeldBalance DEF Burn
  <2>4. a \in Owners /\ Owned' = [Owned EXCEPT ![a] = @ - v]
    BY <2>3 DEF Owned, Owners
  <2>5. v \in 0..Held(a)
    BY <1>b, <2>1, <2>4 DEF BalanceOf
  <2>6. Retired' = Retired + v
    BY <1>2, <1>a, <2>1 DEF Burn, Retired
  <2>7. Book!Retire(a, v)
    BY <1>2, <2>4, <2>5, <2>6 DEF Burn, Book!Retire, Owned, Retired
  <2> QED BY <2>4, <2>5, <2>7 DEF Book!Next, Owned
<1>3. ASSUME NEW a \in Accounts, NEW b \in Accounts, NEW v \in Values,
             NEW call \in BOOLEAN, TransferInShard(a, b, v, call)
      PROVE  Goal
  <2> DEFINE mid == [Owned EXCEPT ![a] = @ - v]
  <2>1. v \in Nat /\ balance[a] >= v
    BY <1>3, ValuesPositive DEF TransferInShard
  <2>2. \A o \in Owners :
          BalanceOf(o)' = BalanceOf(o) - (IF o = a THEN v ELSE 0) + (IF o = b THEN v ELSE 0)
    BY <1>3, <1>a, <2>1 DEF TransferInShard, Changed, BalanceOf
  <2>3. \A o \in Owners :
          Held(o)' = Held(o) - (IF o = a THEN v ELSE 0) + (IF o = b THEN v ELSE 0)
    BY <1>3, <1>a, <1>b, <2>1, <2>2, HeldBalance DEF TransferInShard
  <2>4. a \in Owners /\ b \in Owners
    BY DEF Owners
  <2>5. Owned' = [mid EXCEPT ![b] = @ + v]
    BY <1>b, <2>1, <2>3, <2>4 DEF Owned
  <2>6. v \in 0..Held(a)
    BY <1>b, <2>1, <2>4 DEF BalanceOf
  <2>7. Book!Move(a, b, v)
    BY <1>3, <2>4, <2>5, <2>6 DEF TransferInShard, MayChange, totals, Book!Move, Owned
  <2> QED BY <2>4, <2>6, <2>7 DEF Book!Next, Owned
<1>4. ASSUME NEW a \in Accounts, NEW b \in Accounts, NEW v \in Values,
             NEW call \in BOOLEAN, NEW i \in Slots, TransferOut(a, b, v, call, i)
      PROVE  Goal
  <2> DEFINE m == [from |-> a, to |-> b, value |-> v, call |-> call, ret |-> FALSE]
  <2>1. v \in Nat /\ balance[a] >= v
    BY <1>4, ValuesPositive DEF TransferOut
  <2>2. m \in Messages /\ m # NoMessage
    <3>1. m \in Messages
      BY <2>1 DEF Messages, Owners
    <3> QED BY <3>1
  <2>3. inflight' = [inflight EXCEPT ![i] = m] /\ inflight[i] = NoMessage
    BY <1>4 DEF TransferOut, Free
  <2>4. \A o \in Owners : BalanceOf(o)' = IF o = a THEN BalanceOf(o) - v ELSE BalanceOf(o)
    BY <1>4, <1>a DEF TransferOut, Changed, BalanceOf
  <2>5. \A o \in Owners : AmountFor(o, m) = IF o = a THEN v ELSE 0
    BY <2>2 DEF AmountFor, OwnerOf
  <2>6. \A o : AmountFor(o, inflight[i]) = 0
    BY <2>3 DEF AmountFor
  <2> HIDE DEF m
  <2>7. \A o \in Owners :
          Held(o)' = Held(o) - BalanceOf(o) + BalanceOf(o)'
                       - AmountFor(o, inflight[i]) + AmountFor(o, m)
    BY <1>a, <2>2, <2>3, HeldSlot
  <2>8. \A o \in Owners : Held(o)' = Held(o)
    BY <1>b, <2>1, <2>4, <2>5, <2>6, <2>7
  <2> QED BY <1>4, <1>c, <2>8 DEF TransferOut, Owned
<1>5. ASSUME NEW i \in Slots, Deliver(i) PROVE Goal
  <2> DEFINE m == inflight[i]
             a == m.to
             v == m.value
             from == OwnerOf(m)
             mid == [Owned EXCEPT ![from] = @ - v]
  <2>1. m \in Messages /\ m # NoMessage /\ a \in Accounts
    BY <1>5 DEF Deliver, Free, Accepts, TypeOK
  <2>2. v \in Nat /\ a \in Owners /\ from \in Owners
    BY <2>1 DEF Messages, Owners, OwnerOf
  <2>3. inflight' = [inflight EXCEPT ![i] = NoMessage] /\ NoMessage \in Messages \cup {NoMessage}
    BY <1>5 DEF Deliver
  <2>4. \A o \in Owners : BalanceOf(o)' = IF o = a THEN BalanceOf(o) + v ELSE BalanceOf(o)
    BY <1>5, <1>a, <2>1 DEF Deliver, Changed, BalanceOf
  <2>5. \A o \in Owners : AmountFor(o, m) = IF o = from THEN v ELSE 0
    BY <2>1 DEF AmountFor
  <2>6. \A o : AmountFor(o, NoMessage) = 0
    BY DEF AmountFor
  <2>7. \A o \in Owners :
          Held(o)' = Held(o) - BalanceOf(o) + BalanceOf(o)'
                       - AmountFor(o, m) + AmountFor(o, NoMessage)
    BY <1>a, <2>3, HeldSlot
  <2>8. v <= Held(from)
    <3>1. InFlightOf(from) \in [Slots -> Nat] /\ InFlightOf(from)[i] = v
      BY <2>2, <2>5, FlightOfType
    <3>2. IsFiniteSet(Slots)
      OBVIOUS
    <3>3. v <= Total(InFlightOf(from))
      BY <3>1, <3>2, TotalBounds
    <3> QED BY <3>3, <2>2, HeldType, FlightOfType
  <2>9. m.ret => from = a
    BY DEF OwnerOf
  <2>10. ~m.ret => ~frozen[a]
    BY <1>5, <2>1 DEF Deliver, Accepts, MayChange, Messages
  <2>11. UNCHANGED <<frozen, totals>>
    BY <1>5 DEF Deliver
  <2> HIDE DEF a, v, from
  <2>12. CASE m.ret
    <3>1. \A o \in Owners : Held(o)' = Held(o)
      BY <1>b, <2>2, <2>4, <2>5, <2>6, <2>7, <2>9, <2>12
    <3> QED BY <1>c, <2>11, <3>1 DEF Owned
  <2>13. CASE ~m.ret
    <3>1. \A o \in Owners :
            Held(o)' = Held(o) - (IF o = from THEN v ELSE 0) + (IF o = a THEN v ELSE 0)
      BY <1>b, <2>2, <2>4, <2>5, <2>6, <2>7
    <3>2. Owned' = [mid EXCEPT ![a] = @ + v]
      BY <1>b, <2>2, <3>1 DEF Owned
    <3>3. v \in 0..Held(from)
      BY <1>b, <2>2, <2>8
    <3>4. Book!Move(from, a, v)
      BY <2>2, <2>10, <2>11, <2>13, <3>2, <3>3 DEF totals, Book!Move, Owned
    <3> QED BY <2>1, <2>2, <3>3, <3>4 DEF Book!Next, Owned, a
  <2> QED BY <2>12, <2>13
<1>6. ASSUME NEW i \in Slots, SendBack(i) PROVE Goal
  <2> DEFINE n == inflight[i]
             m == [from |-> n.to, to |-> n.from, value |-> n.value,
                   call |-> FALSE, ret |-> TRUE]
  <2>1. n \in Messages /\ n # NoMessage /\ ~n.ret
    BY <1>6 DEF SendBack, Free, TypeOK
  <2>2. m \in Messages /\ m # NoMessage
    <3>1. m \in Messages
      BY <2>1 DEF Messages
    <3> QED BY <3>1
  <2>3. inflight' = [inflight EXCEPT ![i] = m] /\ UNCHANGED <<recorded, totals>>
    BY <1>6 DEF SendBack
  <2>4. \A o : AmountFor(o, m) = AmountFor(o, n) /\ AmountFor(o, n) \in Nat
    BY <2>1, <2>2 DEF AmountFor, OwnerOf, Messages
  <2>5. \A o \in Owners : BalanceOf(o)' = BalanceOf(o)
    BY <2>3 DEF BalanceOf, recorded
  <2> HIDE DEF m
  <2>6. \A o \in Owners :
          Held(o)' = Held(o) - BalanceOf(o) + BalanceOf(o)' - AmountFor(o, n) + AmountFor(o, m)
    BY <1>a, <2>2, <2>3, HeldSlot
  <2>7. \A o \in Owners : Held(o)' = Held(o)
    BY <1>b, <2>4, <2>5, <2>6
  <2> QED BY <1>c, <2>3, <2>7 DEF recorded, Owned
<1>7. ASSUME NEW i \in Slots, Strand(i) PROVE Goal
  <2> DEFINE m == inflight[i]
             v == m.value
             from == OwnerOf(m)
  <2>1. m \in Messages /\ m # NoMessage
    BY <1>7 DEF Strand, Free, TypeOK
  <2>2. v \in Nat /\ from \in Owners
    BY <2>1 DEF Messages, OwnerOf
  <2>3. inflight' = [inflight EXCEPT ![i] = NoMessage] /\ NoMessage \in Messages \cup {NoMessage}
    BY <1>7 DEF Strand
  <2>4. \A o \in Owners : BalanceOf(o)' = BalanceOf(o)
    BY <1>7 DEF Strand, BalanceOf, recorded
  <2>5. \A o \in Owners : AmountFor(o, m) = IF o = from THEN v ELSE 0
    BY <2>1 DEF AmountFor
  <2>6. \A o : AmountFor(o, NoMessage) = 0
    BY DEF AmountFor
  <2>7. \A o \in Owners :
          Held(o)' = Held(o) - BalanceOf(o) + BalanceOf(o)'
                       - AmountFor(o, m) + AmountFor(o, NoMessage)
    BY <1>a, <2>3, HeldSlot
  <2>8. InFlightOf(from) \in [Slots -> Nat] /\ InFlightOf(from)[i] = v
    BY <2>2, <2>5, FlightOfType
  <2>9. v <= Held(from)
    <3>1. IsFiniteSet(Slots)
      OBVIOUS
    <3>2. v <= Total(InFlightOf(from))
      BY <2>8, <3>1, TotalBounds
    <3> QED BY <3>2, <2>2, HeldType, FlightOfType
  <2>10. Retired' = Retired + v
    BY <1>7, <1>a, <2>2 DEF Strand, Retired
  <2>11. UNCHANGED <<frozen, minted>>
    BY <1>7 DEF Strand, recorded
  <2> HIDE DEF v, from
  <2>12. \A o \in Owners : Held(o)' = IF o = from THEN Held(o) - v ELSE Held(o)
    BY <1>b, <2>2, <2>4, <2>5, <2>6, <2>7
  <2>13. Owned' = [Owned EXCEPT ![from] = @ - v]
    BY <2>2, <2>12 DEF Owned
  <2>14. v \in 0..Held(from)
    BY <1>b, <2>2, <2>9
  <2>15. Book!Retire(from, v)
    BY <2>2, <2>10, <2>11, <2>13, <2>14 DEF Book!Retire, Owned, Retired
  <2> QED BY <2>2, <2>14, <2>15 DEF Book!Next, Owned
<1>8. ASSUME NEW a \in Accounts, NEW v \in Values, NEW i \in Slots, Issue(a, v, i)
      PROVE  Goal
  <2> DEFINE m == [from |-> ESDTSC, to |-> a, value |-> v, call |-> FALSE, ret |-> FALSE]
  <2>1. v \in Nat /\ v \in 0..MaxSupply
    BY <1>8, <1>a, ValuesPositive DEF Issue
  <2>2. m \in Messages /\ m # NoMessage
    <3>1. m \in Messages
      BY <2>1 DEF Messages, Owners
    <3> QED BY <3>1
  <2>3. inflight' = [inflight EXCEPT ![i] = m] /\ inflight[i] = NoMessage
    BY <1>8 DEF Issue, Free
  <2>4. \A o \in Owners : BalanceOf(o)' = BalanceOf(o)
    BY <1>8 DEF Issue, BalanceOf, recorded
  <2>5. \A o \in Owners : AmountFor(o, m) = IF o = ESDTSC THEN v ELSE 0
    BY <2>2 DEF AmountFor, OwnerOf
  <2>6. \A o : AmountFor(o, inflight[i]) = 0
    BY <2>3 DEF AmountFor
  <2> HIDE DEF m
  <2>7. \A o \in Owners :
          Held(o)' = Held(o) - BalanceOf(o) + BalanceOf(o)'
                       - AmountFor(o, inflight[i]) + AmountFor(o, m)
    BY <1>a, <2>2, <2>3, HeldSlot
  <2>8. \A o \in Owners : Held(o)' = IF o = ESDTSC THEN Held(o) + v ELSE Held(o)
    BY <1>b, <2>1, <2>4, <2>5, <2>6, <2>7
  <2>9. ESDTSC \in Owners /\ ESDTSC \notin Accounts
    BY DEF Owners
  <2>10. Owned' = [Owned EXCEPT ![ESDTSC] = @ + v]
    BY <2>8, <2>9 DEF Owned
  <2>11. /\ minted' = minted + v
         /\ UNCHANGED <<frozen, burned, wiped, stranded>>
    BY <1>8 DEF Issue, recorded
  <2>12. Book!Issue(ESDTSC, v)
    BY <2>9, <2>10, <2>11 DEF Book!Issue, Book!Unfrozen, Owned
  <2> QED BY <2>1, <2>9, <2>12 DEF Book!Next
<1>9. ASSUME NEW a \in Managed, Wipe(a) PROVE Goal
  <2>1. a \in Accounts /\ a \in Owners /\ balance[a] \in Nat
    BY <1>a DEF Owners
  <2>2. \A o \in Owners : BalanceOf(o)' = IF o = a THEN 0 ELSE BalanceOf(o)
    BY <1>9, <1>a, <2>1 DEF Wipe, BalanceOf
  <2>3. BalanceOf(a) = balance[a]
    BY <2>1 DEF BalanceOf
  <2>4. \A o \in Owners : Held(o)' = IF o = a THEN Held(o) - balance[a] ELSE Held(o)
    BY <1>9, <1>a, <1>b, <2>1, <2>2, <2>3, HeldBalance DEF Wipe
  <2>5. Owned' = [Owned EXCEPT ![a] = @ - balance[a]]
    BY <2>1, <2>4 DEF Owned
  <2>6. balance[a] \in 0..Held(a)
    BY <1>b, <2>1, <2>3
  <2>7. Retired' = Retired + balance[a]
    BY <1>9, <1>a, <2>1 DEF Wipe, Retired
  <2>8. Book!Seize(a, balance[a])
    BY <1>9, <2>1, <2>5, <2>6, <2>7 DEF Wipe, Book!Seize, Owned, Retired
  <2> QED BY <2>1, <2>6, <2>8 DEF Book!Next, Owned
<1>10. ASSUME UNCHANGED <<balance, inflight>> PROVE Owned' = Owned
  <2>1. \A o \in Owners : BalanceOf(o)' = BalanceOf(o)
    BY <1>10 DEF BalanceOf
  <2>2. \A o \in Owners : Held(o)' = Held(o)
    BY <1>10, <1>a, <1>b, <2>1, HeldBalance
  <2> QED BY <2>2 DEF Owned
<1>11. ASSUME NEW a \in Managed, NEW freeze \in BOOLEAN, ToggleFreeze(a, freeze)
       PROVE  Goal
  <2>1. a \in Accounts /\ Owned' = Owned /\ UNCHANGED totals
    BY <1>10, <1>11 DEF ToggleFreeze
  <2>2. Book!Freeze(a) \/ Book!Unfreeze(a)
    BY <1>11, <2>1 DEF ToggleFreeze, totals, Book!Freeze, Book!Unfreeze, Owned
  <2> QED BY <2>1, <2>2 DEF Book!Next
<1>12. CASE UNCHANGED <<balance, frozen, inflight, totals>>
  BY <1>12, <1>c, <1>10
<1> HIDE DEF Goal
<1>13. CASE UserCall
  BY <1>13, <1>1, <1>2, <1>3, <1>4 DEF UserCall, LocalBurn, ESDTBurn
<1>14. CASE SystemCall
  BY <1>14, <1>8, <1>9, <1>11, <1>12
     DEF SystemCall, ToggleSetting, SetRole, UnSetRole,
         SetTransferAddresses, DeleteTransferAddresses, recorded
<1>15. CASE \E i \in Slots : Delivery(i)
  BY <1>15, <1>5, <1>6, <1>7 DEF Delivery
<1>16. CASE \/ \E side \in {"sender", "receiver"}, a \in Screened : NewVerdict(side, a)
            \/ UNCHANGED vars
  BY <1>16, <1>12 DEF NewVerdict, vars, recorded
<1> QED BY <1>13, <1>14, <1>15, <1>16 DEF Next

(* The sharded ledger, with its messages, refunds and refusals, implements the
   book in which a transfer is one step. *)
THEOREM ImplementsBook == Spec => BookSpec
BY TypeCorrect, BookInit, BookStep, PTL DEF Spec, BookSpec, Book!Spec
=============================================================================
