------------------------ MODULE MetaDataVersions_proofs ------------------------
(***************************************************************************)
(* Proofs about MetaDataVersions for any places, fields, rounds and kind   *)
(* of token: a copy is the newest of the writes it stems from; no write is *)
(* lost, what is held is complete, and holders whose copies stem from the  *)
(* same writes agree, when no refund meets a frozen account.               *)
(***************************************************************************)
EXTENDS MetaDataVersions, TLAPS

USE VersionsAssumption

-----------------------------------------------------------------------------
(* Copies *)

(* The version of a field is that of its newest write, and 0 without one. *)
Newest(c) ==
    \A f \in Fields :
        /\ \A w \in c.known : w.field = f => w.round <= c.version[f]
        /\ c.version[f] = 0 => c.value[f] \in {Empty, Created}
        /\ c.version[f] > 0 =>
              /\ c.value[f] \in c.known
              /\ c.value[f].field = f /\ c.value[f].round = c.version[f]

(* Nothing was written after round r. *)
WrittenBy(c, r) == \A f \in Fields : c.version[f] <= r

Complete(c) == \A f \in Fields : c.value[f] # Empty

LEMMA FreshIsNewest ==
    ASSUME NEW v \in {Empty, Created}
    PROVE  FreshCopy(v) \in Copies /\ Newest(FreshCopy(v))
BY DEF FreshCopy, Copies, Newest

LEMMA MergeIsNewest ==
    ASSUME NEW c \in Copies, NEW t \in Copies, Newest(c), Newest(t)
    PROVE  Merge(c, t) \in Copies /\ Newest(Merge(c, t))
<1> DEFINE n == Merge(c, t)
<1>1. n \in Copies
  BY DEF Merge, Copies
<1>2. ASSUME NEW f \in Fields, c.version[f] > t.version[f]
      PROVE  n.version[f] = c.version[f] /\ n.value[f] = c.value[f]
  BY <1>2 DEF Merge
<1>3. ASSUME NEW f \in Fields, ~(c.version[f] > t.version[f])
      PROVE  n.version[f] = t.version[f] /\ n.value[f] = t.value[f]
  BY <1>3 DEF Merge
<1>4. n.known = c.known \cup t.known
  BY DEF Merge
<1>5. \A f \in Fields : c.version[f] \in Nat /\ t.version[f] \in Nat
  BY DEF Copies
<1>6. \A w \in n.known : w.round \in Nat
  BY <1>1 DEF Copies, Writes
<1> HIDE DEF n
<1>7. ASSUME NEW f \in Fields
      PROVE  /\ \A w \in n.known : w.field = f => w.round <= n.version[f]
             /\ n.version[f] = 0 => n.value[f] \in {Empty, Created}
             /\ n.version[f] > 0 =>
                   /\ n.value[f] \in n.known
                   /\ n.value[f].field = f /\ n.value[f].round = n.version[f]
  <2>1. CASE c.version[f] > t.version[f]
    BY <2>1, <1>2, <1>4, <1>5, <1>6 DEF Newest
  <2>2. CASE ~(c.version[f] > t.version[f])
    BY <2>2, <1>3, <1>4, <1>5, <1>6 DEF Newest
  <2> QED BY <2>1, <2>2
<1>8. Newest(n)
  BY <1>7 DEF Newest
<1> QED BY <1>1, <1>8 DEF n

LEMMA MergeBounds ==
    ASSUME NEW c \in Copies, NEW t \in Copies, NEW r \in Nat, WrittenBy(c, r), WrittenBy(t, r)
    PROVE  WrittenBy(Merge(c, t), r)
BY DEF Merge, WrittenBy, Copies

(* A version above 0 has a write behind it: merging into a complete copy leaves it so. *)
LEMMA MergeIsComplete ==
    ASSUME NEW c \in Copies, NEW t \in Copies, Newest(c), Complete(t)
    PROVE  Complete(Merge(c, t))
<1> SUFFICES ASSUME NEW f \in Fields PROVE Merge(c, t).value[f] # Empty
  BY DEF Complete
<1>1. CASE c.version[f] > t.version[f]
  <2>1. c.version[f] > 0
    BY <1>1 DEF Copies
  <2>2. c.value[f] \in Writes
    BY <2>1 DEF Newest, Copies
  <2> QED BY <1>1, <2>2 DEF Merge
<1>2. CASE ~(c.version[f] > t.version[f])
  BY <1>2 DEF Merge, Complete
<1> QED BY <1>1, <1>2

LEMMA ArrivedIsNewest ==
    ASSUME NEW c \in Copies \cup {NoCopy}, NEW t \in Copies, NEW blind \in BOOLEAN, NEW r \in Nat,
           c # NoCopy => Newest(c) /\ WrittenBy(c, r), Newest(t), WrittenBy(t, r)
    PROVE  /\ Arrived(c, t, blind) \in Copies
           /\ Newest(Arrived(c, t, blind)) /\ WrittenBy(Arrived(c, t, blind), r)
           /\ Complete(t) /\ ~blind => Complete(Arrived(c, t, blind)) \/ Arrived(c, t, blind) = c
BY MergeIsNewest, MergeBounds, MergeIsComplete DEF Arrived

LEMMA WrittenIsNewest ==
    ASSUME NEW c \in Copies \cup {NoCopy}, NEW p \in Places, NEW F \in SUBSET Fields, F # {},
           round \in Nat \ {0}, c # NoCopy => Newest(c) /\ WrittenBy(c, round)
    PROVE  /\ Written(c, p, F) \in Copies
           /\ Newest(Written(c, p, F)) /\ WrittenBy(Written(c, p, F), round)
           /\ Updated(Written(c, p, F))
           /\ c # NoCopy /\ Complete(c) => Complete(Written(c, p, F))
<1> DEFINE old == IF c = NoCopy THEN FreshCopy(Empty) ELSE c
           n == Written(c, p, F)
           write(f) == [field |-> f, by |-> p, round |-> round]
<1>1. old \in Copies /\ Newest(old) /\ WrittenBy(old, round)
  BY FreshIsNewest DEF WrittenBy, FreshCopy
<1>2. \A f \in Fields : write(f) \in Writes
  BY DEF Writes
<1>3. /\ n.version = [f \in Fields |-> IF f \in F THEN round ELSE old.version[f]]
      /\ n.value = [f \in Fields |-> IF f \in F THEN write(f) ELSE old.value[f]]
      /\ n.known = old.known \cup {write(f) : f \in F}
  BY DEF Written
<1>4. n \in Copies
  <2>1. n.known \in SUBSET Writes
    BY <1>1, <1>2, <1>3 DEF Copies
  <2> QED BY <1>1, <1>2, <2>1 DEF Written, Copies
<1>a. \A f \in Fields : old.version[f] \in Nat
  BY <1>1 DEF Copies
<1>b. \A w \in old.known : w.round \in Nat
  BY <1>1 DEF Copies, Writes
<1> HIDE DEF old, n
<1>5. ASSUME NEW f \in Fields
      PROVE  /\ \A w \in n.known : w.field = f => w.round <= n.version[f]
             /\ n.version[f] = 0 => n.value[f] \in {Empty, Created}
             /\ n.version[f] > 0 =>
                   /\ n.value[f] \in n.known
                   /\ n.value[f].field = f /\ n.value[f].round = n.version[f]
             /\ n.version[f] <= round
  <2>1. CASE f \in F
    <3>1. n.version[f] = round /\ n.value[f] = write(f)
      BY <2>1, <1>3
    <3>2. \A w \in old.known : w.field = f => w.round <= round
      BY <1>1, <1>a, <1>b DEF Newest, WrittenBy
    <3>3. \A w \in n.known : w.field = f => w.round <= round
      BY <1>3, <3>2
    <3> QED BY <3>1, <3>3, <1>3, <2>1
  <2>2. CASE f \notin F
    <3>1. n.version[f] = old.version[f] /\ n.value[f] = old.value[f]
      BY <2>2, <1>3
    <3>2. \A w \in n.known : w.field = f => w \in old.known
      BY <2>2, <1>3
    <3> QED BY <3>1, <3>2, <1>1, <1>3 DEF Newest, WrittenBy
  <2> QED BY <2>1, <2>2
<1>6. Newest(n) /\ WrittenBy(n, round)
  BY <1>5 DEF Newest, WrittenBy
<1>7. Updated(n)
  <2> PICK f \in F : TRUE
    OBVIOUS
  <2>1. f \in Fields /\ n.version[f] = round
    BY <1>3
  <2> QED BY <2>1 DEF Updated
<1>8. c # NoCopy /\ Complete(c) => Complete(n)
  <2> SUFFICES ASSUME c # NoCopy, Complete(c), NEW f \in Fields PROVE n.value[f] # Empty
    BY DEF Complete
  <2>1. old = c
    BY DEF old
  <2> QED BY <2>1, <1>2, <1>3 DEF Complete
<1> QED BY <1>4, <1>6, <1>7, <1>8 DEF n

-----------------------------------------------------------------------------
(* The invariant *)

Sound(c, r) == Newest(c) /\ WrittenBy(c, r) /\ (Updated(c) \/ Complete(c))

CopiesSound ==
    /\ \A p \in Places : copy[p] # NoCopy => Sound(copy[p], round)
    /\ \A i \in Slots : ~Free(i) => Sound(inflight[i].copy, round)

Inv == TypeOK /\ CopiesSound

LEMMA InvInit == Init => Inv
<1> SUFFICES ASSUME Init PROVE Inv
  OBVIOUS
<1>1. TypeOK
  BY FreshIsNewest DEF Init, TypeOK
<1>2. Sound(FreshCopy(Created), 1)
  BY FreshIsNewest DEF Sound, WrittenBy, Complete, FreshCopy
<1>3. CopiesSound
  BY <1>2 DEF Init, CopiesSound, Free
<1> QED BY <1>1, <1>3 DEF Inv

(* A call that writes. *)
LEMMA SaveStep ==
    ASSUME Inv, NEW p \in Places, NEW F \in SUBSET Fields, F # {}, Save(p, F), token' = token
    PROVE  Inv'
<1> DEFINE n == Written(copy[p], p, F)
<1>1. n \in Copies /\ Sound(n, round)
  BY WrittenIsNewest DEF Inv, TypeOK, CopiesSound, Sound
<1>2. copy' = [copy EXCEPT ![p] = n] /\ UNCHANGED <<units, inflight, round>>
  BY DEF Save
<1> HIDE DEF n
<1>3. TypeOK'
  BY <1>1, <1>2 DEF Inv, TypeOK
<1>4. CopiesSound'
  BY <1>1, <1>2 DEF Inv, TypeOK, CopiesSound, Free
<1> QED BY <1>3, <1>4 DEF Inv

(* The calls that write, each with its fields. *)
WritingCall ==
    \E p \in Places :
        \/ Recreate(p) \/ \E F \in SUBSET Fields : Update(p, F)
        \/ ModifyCreator(p) \/ ModifyRoyalties(p) \/ SetNewURIs(p)
        \/ AddURI(p) \/ UpdateAttributes(p)

LEMMA WritingCallSaves ==
    ASSUME WritingCall
    PROVE  \E p \in Places, F \in SUBSET Fields : F # {} /\ Save(p, F)
BY DEF WritingCall, Recreate, Update, ModifyCreator, ModifyRoyalties, SetNewURIs, AddURI,
       UpdateAttributes, SaveHeld

LEMMA LeftIsSame ==
    ASSUME NEW p, NEW keep \in BOOLEAN
    PROVE  Left(p, keep) \in {copy[p], NoCopy}
BY DEF Left

LEMMA InvStep == Inv /\ [Next]_vars => Inv'
<1> SUFFICES ASSUME Inv, [Next]_vars PROVE Inv'
  OBVIOUS
<1>t. TypeOK /\ CopiesSound
  BY DEF Inv
<1>a. token' = token
  BY DEF Next, vars
<1>1. CASE WritingCall
  BY <1>1, <1>a, WritingCallSaves, SaveStep
<1>2. ASSUME NEW p \in Places, NEW q \in Places, NEW i \in Slots, TransferOut(p, q, i)
      PROVE  Inv'
  <2> DEFINE n == Left(p, TRUE)
             m == [from |-> p, to |-> q, copy |-> copy[p], ret |-> FALSE]
  <2>1. n \in {copy[p], NoCopy} /\ copy[p] \in Copies /\ Sound(copy[p], round)
    BY <1>2, <1>t, LeftIsSame DEF TransferOut, TypeOK, CopiesSound
  <2>2. m \in Messages /\ m.copy = copy[p]
    BY <2>1 DEF Messages
  <2>3. /\ copy' = [copy EXCEPT ![p] = n] /\ inflight' = [inflight EXCEPT ![i] = m]
        /\ units' = [units EXCEPT ![p] = units[p] - 1] /\ units[p] > 0 /\ round' = round
    BY <1>2 DEF TransferOut
  <2> HIDE DEF n, m
  <2>4. TypeOK'
    BY <1>t, <1>a, <2>1, <2>2, <2>3 DEF TypeOK
  <2>5. CopiesSound'
    BY <1>t, <2>1, <2>2, <2>3 DEF TypeOK, CopiesSound, Free
  <2> QED BY <2>4, <2>5 DEF Inv
<1>3. ASSUME NEW i \in Slots, NEW blind \in BOOLEAN, Deliver(i, blind) PROVE Inv'
  <2> DEFINE m == inflight[i]
             n == Arrived(copy[m.to], m.copy, blind)
  <2>1. m \in Messages /\ Sound(m.copy, round) /\ m.to \in Places /\ m.copy \in Copies
    BY <1>3, <1>t DEF Deliver, Free, TypeOK, CopiesSound, Messages
  <2>2. n \in Copies /\ Newest(n) /\ WrittenBy(n, round)
    BY <1>t, <2>1, ArrivedIsNewest DEF TypeOK, CopiesSound, Sound
  <2>3. Updated(n) \/ Complete(n)
    <3>1. CASE n = copy[m.to] /\ copy[m.to] # NoCopy
      BY <3>1, <1>t, <2>1 DEF CopiesSound, Sound
    <3>2. CASE n = m.copy
      BY <3>2, <2>1 DEF Sound
    <3>3. CASE copy[m.to] # NoCopy /\ n = Merge(copy[m.to], m.copy)
      <4> DEFINE c == copy[m.to]
      <4>1. c \in Copies /\ Newest(c) /\ Sound(m.copy, round)
        BY <3>3, <1>t, <2>1 DEF TypeOK, CopiesSound, Sound
      <4>2. CASE Complete(m.copy)
        BY <3>3, <4>1, <4>2, <2>1, MergeIsComplete
      <4>3. CASE Updated(m.copy)
        <5>1. PICK f \in Fields : m.copy.version[f] > 0
          BY <4>3 DEF Updated
        <5>2. n.version[f] > 0
          <6>1. c.version[f] \in Nat /\ m.copy.version[f] \in Nat
            BY <4>1, <2>1 DEF Copies
          <6>2. n.version[f] = IF c.version[f] > m.copy.version[f] THEN c.version[f] ELSE m.copy.version[f]
            BY <3>3 DEF Merge
          <6> QED BY <5>1, <6>1, <6>2
        <5> QED BY <5>2 DEF Updated
      <4> QED BY <4>1, <4>2, <4>3 DEF Sound
    <3> QED BY <3>1, <3>2, <3>3, <2>2 DEF Arrived
  <2>4. /\ copy' = [copy EXCEPT ![m.to] = n] /\ inflight' = [inflight EXCEPT ![i] = NoMessage]
        /\ units' = [units EXCEPT ![m.to] = units[m.to] + 1] /\ round' = round
    BY <1>3 DEF Deliver
  <2> HIDE DEF m, n
  <2>5. TypeOK'
    BY <1>t, <1>a, <2>1, <2>2, <2>4 DEF TypeOK
  <2>6. CopiesSound'
    BY <1>t, <2>1, <2>2, <2>3, <2>4 DEF TypeOK, CopiesSound, Free, Sound
  <2> QED BY <2>5, <2>6 DEF Inv
<1>4. ASSUME NEW i \in Slots, SendBack(i) PROVE Inv'
  <2> DEFINE m == inflight[i]
             n == [m EXCEPT !.from = m.to, !.to = m.from, !.ret = TRUE]
  <2>1. m \in Messages /\ Sound(m.copy, round)
    BY <1>4, <1>t DEF SendBack, Free, TypeOK, CopiesSound
  <2>2. n \in Messages /\ n.copy = m.copy
    BY <2>1 DEF Messages
  <2>3. inflight' = [inflight EXCEPT ![i] = n] /\ UNCHANGED <<copy, units, round>>
    BY <1>4 DEF SendBack
  <2> HIDE DEF m, n
  <2>4. TypeOK'
    BY <1>t, <1>a, <2>2, <2>3 DEF TypeOK
  <2>5. CopiesSound'
    BY <1>t, <2>1, <2>2, <2>3 DEF TypeOK, CopiesSound, Free
  <2> QED BY <2>4, <2>5 DEF Inv
<1>5. ASSUME NEW p \in Places, Burn(p) PROVE Inv'
  <2> DEFINE n == Left(p, FALSE)
  <2>1. n \in {copy[p], NoCopy} /\ copy[p] \in Copies
    BY <1>5, <1>t, LeftIsSame DEF Burn, TypeOK
  <2>2. /\ copy' = [copy EXCEPT ![p] = n] /\ units' = [units EXCEPT ![p] = units[p] - 1]
        /\ units[p] > 0 /\ UNCHANGED <<inflight, round>>
    BY <1>5 DEF Burn
  <2> HIDE DEF n
  <2>3. TypeOK'
    BY <1>t, <1>a, <2>1, <2>2 DEF TypeOK
  <2>4. CopiesSound'
    BY <1>t, <2>1, <2>2 DEF TypeOK, CopiesSound, Free
  <2> QED BY <2>3, <2>4 DEF Inv
<1>6. CASE NextRound
  <2>1. round \in Nat /\ round' = round + 1 /\ UNCHANGED <<copy, units, inflight>>
    BY <1>6, <1>t DEF NextRound, TypeOK
  <2>2. ASSUME NEW c \in Copies, Sound(c, round) PROVE Sound(c, round')
    BY <2>1, <2>2 DEF Sound, WrittenBy, Copies
  <2>3. TypeOK'
    BY <1>t, <1>a, <2>1 DEF TypeOK
  <2>4. CopiesSound'
    BY <1>t, <2>1, <2>2 DEF TypeOK, CopiesSound, Free, Messages
  <2> QED BY <2>3, <2>4 DEF Inv
<1>7. CASE UNCHANGED vars
  BY <1>7 DEF Inv, TypeOK, CopiesSound, Free, vars
<1> QED BY <1>1, <1>2, <1>3, <1>4, <1>5, <1>6, <1>7 DEF Next, WritingCall

(* Versions, values and histories keep their types. *)
THEOREM TypeCorrect == Spec => []TypeOK
<1>1. Inv => TypeOK
  BY DEF Inv
<1> QED BY <1>1, InvInit, InvStep, PTL DEF Spec

(* Whatever the order in which writes and transfers meet, a copy has in each field the
   newest of the writes it stems from. *)
THEOREM NewestWins == Spec => []CopyIsNewestKnown
<1>1. Inv => CopyIsNewestKnown
  <2> SUFFICES ASSUME Inv, NEW c \in KnownCopies, NEW f \in Fields
               PROVE  LET writes == {w \in c.known : w.field = f}
                      IN  /\ \A w \in writes : w.round <= c.version[f]
                          /\ IF writes = {} THEN c.version[f] = 0 /\ c.value[f] \in {Empty, Created}
                             ELSE c.value[f] \in writes /\ c.value[f].round = c.version[f]
    BY DEF CopyIsNewestKnown
  <2>1. c \in Copies /\ Newest(c)
    BY DEF Inv, TypeOK, CopiesSound, Sound, KnownCopies, Free, Messages
  <2>2. c.version[f] \in Nat /\ \A w \in c.known : w.round \in Nat \ {0}
    BY <2>1 DEF Copies, Writes
  <2> QED BY <2>1, <2>2 DEF Newest
<1> QED BY <1>1, InvInit, InvStep, PTL DEF Spec

-----------------------------------------------------------------------------
(* What is held *)

(* A place that a complete copy reaches has a complete one. *)
LEMMA ArrivedIsComplete ==
    ASSUME NEW c \in Copies \cup {NoCopy}, NEW t \in Copies, Complete(t),
           c # NoCopy => Newest(c) /\ (Updated(c) \/ Complete(c))
    PROVE  Complete(Arrived(c, t, FALSE))
<1>1. CASE c = NoCopy
  BY <1>1 DEF Arrived
<1>2. CASE c # NoCopy /\ (~OnShards \/ Updated(Merge(c, t)))
  BY <1>2, MergeIsComplete DEF Arrived
<1>3. CASE c # NoCopy /\ ~Updated(Merge(c, t))
  <2>1. ASSUME Updated(c) PROVE FALSE
    <3>1. PICK f \in Fields : c.version[f] > 0
      BY <2>1 DEF Updated
    <3>2. Merge(c, t).version[f] > 0
      BY <3>1, <1>3 DEF Merge, Copies
    <3> QED BY <3>2, <1>3 DEF Updated
  <2>2. Complete(c)
    BY <2>1, <1>3
  <2> QED BY <2>2, <1>3, MergeIsComplete DEF Arrived
<1> QED BY <1>1, <1>2, <1>3

HeldComplete ==
    /\ \A p \in Places : units[p] > 0 => copy[p] # NoCopy /\ Complete(copy[p])
    /\ \A i \in Slots : ~Free(i) => Complete(inflight[i].copy)

LEMMA HeldStep ==
    token # "frozen" /\ Inv /\ HeldComplete /\ [Next]_vars => HeldComplete'
<1> SUFFICES ASSUME token # "frozen", Inv, HeldComplete, [Next]_vars PROVE HeldComplete'
  OBVIOUS
<1>t. TypeOK /\ CopiesSound
  BY DEF Inv
<1>1. CASE WritingCall
  <2>1. PICK p \in Places, F \in SUBSET Fields : F # {} /\ Save(p, F)
    BY <1>1, WritingCallSaves
  <2> DEFINE n == Written(copy[p], p, F)
  <2>2. copy[p] # NoCopy /\ Complete(copy[p]) => Complete(n)
    BY <2>1, <1>t, WrittenIsNewest DEF TypeOK, CopiesSound, Sound
  <2>3. n \in Copies
    BY <2>1, <1>t, WrittenIsNewest DEF TypeOK, CopiesSound, Sound
  <2>4. copy' = [copy EXCEPT ![p] = n] /\ UNCHANGED <<units, inflight>>
    BY <2>1 DEF Save
  <2> HIDE DEF n
  <2> QED BY <1>t, <2>2, <2>3, <2>4 DEF HeldComplete, TypeOK, Free
<1>2. ASSUME NEW p \in Places, NEW q \in Places, NEW i \in Slots, TransferOut(p, q, i)
      PROVE  HeldComplete'
  <2> DEFINE n == Left(p, TRUE)
             m == [from |-> p, to |-> q, copy |-> copy[p], ret |-> FALSE]
  <2>1. units[p] > 0 /\ units[p] \in Nat /\ Complete(copy[p]) /\ copy[p] # NoCopy
    BY <1>2, <1>t DEF TransferOut, HeldComplete, TypeOK
  <2>2. units[p] > 1 => n = copy[p]
    BY DEF Left
  <2>3. m.copy = copy[p]
    OBVIOUS
  <2>4. /\ copy' = [copy EXCEPT ![p] = n] /\ inflight' = [inflight EXCEPT ![i] = m]
        /\ units' = [units EXCEPT ![p] = units[p] - 1]
    BY <1>2 DEF TransferOut
  <2> HIDE DEF n, m
  <2> QED BY <1>t, <2>1, <2>2, <2>3, <2>4 DEF HeldComplete, TypeOK, Free
<1>3. ASSUME NEW i \in Slots, NEW blind \in BOOLEAN, Deliver(i, blind) PROVE HeldComplete'
  <2> DEFINE m == inflight[i]
             n == Arrived(copy[m.to], m.copy, FALSE)
  <2>1. ~blind /\ m \in Messages /\ m.to \in Places /\ m.copy \in Copies /\ Complete(m.copy)
    BY <1>3, <1>t DEF Deliver, Free, TypeOK, HeldComplete, Messages
  <2>2. Complete(n)
    BY <1>t, <2>1, ArrivedIsComplete DEF TypeOK, CopiesSound, Sound
  <2>3. n # NoCopy
    <3>1. Newest(m.copy) /\ WrittenBy(m.copy, round) /\ round \in Nat
      BY <1>3, <1>t DEF Deliver, Free, CopiesSound, Sound, TypeOK
    <3>2. /\ copy[m.to] \in Copies \cup {NoCopy}
          /\ copy[m.to] # NoCopy => Newest(copy[m.to]) /\ WrittenBy(copy[m.to], round)
      BY <1>t, <2>1 DEF TypeOK, CopiesSound, Sound
    <3>3. n \in Copies
      BY <2>1, <3>1, <3>2, ArrivedIsNewest
    <3> QED BY <3>3
  <2>4. /\ copy' = [copy EXCEPT ![m.to] = n] /\ inflight' = [inflight EXCEPT ![i] = NoMessage]
        /\ units' = [units EXCEPT ![m.to] = units[m.to] + 1]
    BY <1>3, <2>1 DEF Deliver
  <2> HIDE DEF m, n
  <2> QED BY <1>t, <2>1, <2>2, <2>3, <2>4 DEF HeldComplete, TypeOK, Free
<1>4. ASSUME NEW i \in Slots, SendBack(i) PROVE HeldComplete'
  <2> DEFINE m == inflight[i]
             n == [m EXCEPT !.from = m.to, !.to = m.from, !.ret = TRUE]
  <2>1. m \in Messages /\ Complete(m.copy)
    BY <1>4, <1>t DEF SendBack, Free, TypeOK, HeldComplete
  <2>2. n.copy = m.copy
    BY <2>1 DEF Messages
  <2>3. inflight' = [inflight EXCEPT ![i] = n] /\ UNCHANGED <<copy, units>>
    BY <1>4 DEF SendBack
  <2> HIDE DEF m, n
  <2> QED BY <1>t, <2>1, <2>2, <2>3 DEF HeldComplete, TypeOK, Free
<1>5. ASSUME NEW p \in Places, Burn(p) PROVE HeldComplete'
  <2> DEFINE n == Left(p, FALSE)
  <2>1. units[p] \in Nat /\ (units[p] > 1 => n = copy[p])
    BY <1>t DEF Left, TypeOK
  <2>2. /\ copy' = [copy EXCEPT ![p] = n] /\ UNCHANGED inflight
        /\ units' = [units EXCEPT ![p] = units[p] - 1]
    BY <1>5 DEF Burn
  <2> HIDE DEF n
  <2> QED BY <1>t, <2>1, <2>2 DEF HeldComplete, TypeOK, Free
<1>6. CASE NextRound \/ UNCHANGED vars
  BY <1>6 DEF HeldComplete, NextRound, vars, Free
<1> QED BY <1>1, <1>2, <1>3, <1>4, <1>5, <1>6 DEF Next, WritingCall

(* Every holder has metadata with all its fields, when no refund meets a frozen account. *)
THEOREM HeldIsComplete == Spec => []HeldCompleteUnlessFrozen
<1> DEFINE Held == token # "frozen" => HeldComplete
<1>1. Init => Held
  BY DEF Init, HeldComplete, Complete, FreshCopy, Copies, Free
<1>2. Inv /\ Held /\ [Next]_vars => Held'
  <2>1. [Next]_vars => token' = token
    BY DEF Next, vars
  <2> QED BY <2>1, HeldStep
<1>3. Held => HeldCompleteUnlessFrozen
  BY DEF HeldComplete, HeldCopiesComplete, HeldCompleteUnlessFrozen, Complete
<1> QED BY <1>1, <1>2, <1>3, InvInit, InvStep, PTL DEF Spec

(* Copies are of their types and have the newest writes they know, in every
   reachable state. *)
THEOREM CopiesAlwaysHold == Spec => []CopiesHold
<1>1. TypeOK /\ CopyIsNewestKnown => CopiesHold
  BY DEF CopiesHold
<1> QED BY <1>1, TypeCorrect, NewestWins, PTL

-----------------------------------------------------------------------------
(* What is written stays *)

(* A copy that was never updated stems from no write. *)
LEMMA NotUpdatedKnowsNothing ==
    ASSUME NEW c \in Copies, Newest(c), ~Updated(c)
    PROVE  c.known = {}
<1> SUFFICES ASSUME NEW w \in c.known PROVE FALSE
  OBVIOUS
<1>1. w \in Writes /\ w.field \in Fields /\ w.round \in Nat \ {0}
  BY DEF Copies, Writes
<1>2. w.round <= c.version[w.field] /\ c.version[w.field] \in Nat
  BY <1>1 DEF Newest, Copies
<1> QED BY <1>1, <1>2 DEF Updated

(* The known writes of both copies are those of the one that is there after an arrival. *)
LEMMA ArrivedKnows ==
    ASSUME NEW c \in Copies \cup {NoCopy}, NEW t \in Copies, c # NoCopy => Newest(c), Newest(t)
    PROVE  /\ t.known \subseteq Arrived(c, t, FALSE).known
           /\ c # NoCopy => c.known \subseteq Arrived(c, t, FALSE).known
<1>1. CASE c = NoCopy
  BY <1>1 DEF Arrived
<1>2. CASE c # NoCopy
  <2>1. c \in Copies /\ Merge(c, t) \in Copies /\ Newest(Merge(c, t))
    BY <1>2, MergeIsNewest
  <2>2. Merge(c, t).known = c.known \cup t.known
    BY DEF Merge
  <2>3. CASE ~OnShards \/ Updated(Merge(c, t))
    BY <1>2, <2>2, <2>3 DEF Arrived
  <2>4. CASE OnShards /\ ~Updated(Merge(c, t))
    <3>1. Merge(c, t).known = {}
      BY <2>1, <2>4, NotUpdatedKnowsNothing
    <3> QED BY <1>2, <2>2, <2>4, <3>1 DEF Arrived
  <2> QED BY <2>3, <2>4
<1> QED BY <1>1, <1>2

(* A unit that leaves a shard takes no write away. *)
LEMMA LeftKnows ==
    ASSUME Inv, OnShards, NEW p \in Places, copy[p] # NoCopy, NEW keep \in BOOLEAN
    PROVE  Left(p, keep) = copy[p] \/ (Left(p, keep) = NoCopy /\ copy[p].known = {})
<1>1. copy[p] \in Copies /\ Newest(copy[p])
  BY DEF Inv, TypeOK, CopiesSound, Sound
<1>2. Left(p, keep) = copy[p] \/ (Left(p, keep) = NoCopy /\ ~Updated(copy[p]))
  BY DEF Left
<1>3. ~Updated(copy[p]) => copy[p].known = {}
  BY <1>1, NotUpdatedKnowsNothing
<1> QED BY <1>2, <1>3

LEMMA WritesStayStep ==
    ASSUME Inv, [Next]_vars, OnShards, NEW p \in Places
    PROVE  WritesStay(p)
<1>t. TypeOK /\ CopiesSound
  BY DEF Inv
<1> DEFINE Goal == WritesStay(p)
<1>b. SUFFICES Goal
  OBVIOUS
<1>k. ASSUME copy'[p] = copy[p] PROVE Goal
  BY <1>k DEF WritesStay
<1>1. CASE WritingCall
  <2>1. PICK q \in Places, F \in SUBSET Fields : F # {} /\ Save(q, F)
    BY <1>1, WritingCallSaves
  <2>2. copy' = [copy EXCEPT ![q] = Written(copy[q], q, F)]
    BY <2>1 DEF Save
  <2>3. CASE q = p
    <3>1. copy'[p] = Written(copy[p], p, F) /\ copy'[p] \in Copies
      BY <1>t, <2>1, <2>2, <2>3, WrittenIsNewest DEF TypeOK, CopiesSound, Sound, Save
    <3>2. copy[p] # NoCopy => copy[p].known \subseteq copy'[p].known
      BY <3>1 DEF Written
    <3> QED BY <3>1, <3>2 DEF WritesStay
  <2>4. CASE q # p
    BY <1>t, <1>k, <2>2, <2>4 DEF TypeOK
  <2> QED BY <2>3, <2>4
<1>2. ASSUME NEW q \in Places, NEW r \in Places, NEW i \in Slots, TransferOut(q, r, i)
      PROVE  Goal
  <2>1. copy' = [copy EXCEPT ![q] = Left(q, TRUE)]
    BY <1>2 DEF TransferOut
  <2>2. copy'[p] = copy[p] \/ copy'[p] = Left(p, TRUE)
    BY <1>t, <2>1 DEF TypeOK
  <2> QED BY <2>2, <1>k, LeftKnows DEF WritesStay
<1>3. ASSUME NEW i \in Slots, NEW blind \in BOOLEAN, Deliver(i, blind) PROVE Goal
  <2> DEFINE m == inflight[i]
             n == Arrived(copy[m.to], m.copy, blind)
  <2>1. m \in Messages /\ Newest(m.copy) /\ WrittenBy(m.copy, round) /\ m.copy \in Copies
    BY <1>3, <1>t DEF Deliver, Free, TypeOK, CopiesSound, Sound, Messages
  <2>2. ~Free(i) /\ copy' = [copy EXCEPT ![m.to] = n] /\ inflight'[i] = NoMessage
    BY <1>3, <1>t DEF Deliver, TypeOK
  <2>3. CASE m.to # p
    BY <1>t, <1>k, <2>2, <2>3 DEF TypeOK
  <2>4. CASE m.to = p /\ m.ret
    BY <2>2, <2>4 DEF WritesStay
  <2>5. CASE m.to = p /\ ~m.ret
    <3>1. copy'[p] = n /\ copy'[p] = Arrived(copy[p], m.copy, FALSE)
      BY <1>t, <1>3, <2>2, <2>5 DEF TypeOK, Deliver
    <3>2. copy[p] \in Copies \cup {NoCopy} /\ (copy[p] # NoCopy => Sound(copy[p], round))
      BY <1>t DEF TypeOK, CopiesSound
    <3>3. copy'[p] \in Copies
      BY <1>t, <2>1, <3>1, <3>2, ArrivedIsNewest DEF Sound, TypeOK
    <3> QED BY <2>1, <3>1, <3>2, <3>3, ArrivedKnows DEF WritesStay, Sound
  <2> QED BY <2>3, <2>4, <2>5
<1>4. ASSUME NEW q \in Places, Burn(q) PROVE Goal
  <2>1. copy' = [copy EXCEPT ![q] = Left(q, FALSE)]
    BY <1>4 DEF Burn
  <2>2. copy'[p] = copy[p] \/ copy'[p] = Left(p, FALSE)
    BY <1>t, <2>1 DEF TypeOK
  <2> QED BY <2>2, <1>k, LeftKnows DEF WritesStay
<1>5. ASSUME NEW i \in Slots, SendBack(i) PROVE Goal
  BY <1>5, <1>k DEF SendBack
<1>6. CASE NextRound \/ UNCHANGED vars
  BY <1>6, <1>k DEF NextRound, vars
<1> HIDE DEF Goal
<1> QED BY <1>1, <1>2, <1>3, <1>4, <1>5, <1>6 DEF Next, WritingCall

LEMMA ArrivalStep ==
    ASSUME Inv, [Next]_vars, token # "frozen", NEW i \in Slots
    PROVE  ArrivalKeepsWrites(i)
<1>t. TypeOK /\ CopiesSound
  BY DEF Inv
<1> DEFINE Goal == ArrivalKeepsWrites(i)
<1>b. SUFFICES Goal
  OBVIOUS
<1>k. ASSUME inflight'[i] = inflight[i] PROVE Goal
  BY <1>k DEF ArrivalKeepsWrites, Free
<1>1. CASE WritingCall
  BY <1>1, <1>k, WritingCallSaves DEF Save
<1>2. ASSUME NEW p \in Places, NEW q \in Places, NEW j \in Slots, TransferOut(p, q, j)
      PROVE  Goal
  <2>1. inflight'[i] = inflight[i] \/ Free(i)
    BY <1>2, <1>t DEF TransferOut, TypeOK, Free
  <2> QED BY <2>1, <1>k DEF ArrivalKeepsWrites
<1>3. ASSUME NEW j \in Slots, NEW blind \in BOOLEAN, Deliver(j, blind) PROVE Goal
  <2>1. CASE j # i
    BY <1>3, <1>t, <1>k, <2>1 DEF Deliver, TypeOK
  <2>2. CASE j = i
    <3> DEFINE m == inflight[i]
    <3>1. m \in Messages /\ Newest(m.copy) /\ m.to \in Places /\ m.copy \in Copies
      BY <1>3, <1>t, <2>2 DEF Deliver, Free, TypeOK, CopiesSound, Sound, Messages
    <3>2. copy'[m.to] = Arrived(copy[m.to], m.copy, FALSE)
      BY <1>3, <1>t, <2>2, <3>1 DEF Deliver, TypeOK
    <3>3. copy[m.to] \in Copies \cup {NoCopy} /\ (copy[m.to] # NoCopy => Newest(copy[m.to]))
      BY <1>t, <3>1 DEF TypeOK, CopiesSound, Sound
    <3> QED BY <3>1, <3>2, <3>3, ArrivedKnows DEF ArrivalKeepsWrites
  <2> QED BY <2>1, <2>2
<1>4. ASSUME NEW p \in Places, Burn(p) PROVE Goal
  BY <1>4, <1>k DEF Burn
<1>5. ASSUME NEW j \in Slots, SendBack(j) PROVE Goal
  <2>1. CASE j # i
    BY <1>5, <1>t, <1>k, <2>1 DEF SendBack, TypeOK
  <2>2. CASE j = i
    <3>1. inflight[i] \in Messages
      BY <1>5, <1>t, <2>2 DEF SendBack, Free, TypeOK
    <3>2. inflight'[i] \in Messages
      BY <1>5, <1>t, <2>2, <3>1 DEF SendBack, TypeOK, Messages
    <3> QED BY <3>2 DEF ArrivalKeepsWrites
  <2> QED BY <2>1, <2>2
<1>6. CASE NextRound \/ UNCHANGED vars
  BY <1>6, <1>k DEF NextRound, vars
<1> HIDE DEF Goal
<1> QED BY <1>1, <1>2, <1>3, <1>4, <1>5, <1>6 DEF Next, WritingCall

(* On shards neither an arrival nor a unit that leaves takes a write away, and an arrival
   keeps the writes of both copies, unless a refund meets a frozen account. *)
THEOREM WritesAreKept == Spec => WritesKept
<1>1. Inv /\ [Next]_vars => [OnShards => \A p \in Places : WritesStay(p)]_vars
  BY WritesStayStep
<1>2. Inv /\ [Next]_vars => [token # "frozen" => \A i \in Slots : ArrivalKeepsWrites(i)]_vars
  BY ArrivalStep
<1> QED BY <1>1, <1>2, InvInit, InvStep, PTL DEF Spec, WritesKept

-----------------------------------------------------------------------------
(* Copies that know the same *)

(* No field was written twice in one round. *)
Apart(writes) == \A v, w \in writes : v.field = w.field /\ v.round = w.round => v = w

(* The copies at places that hold units, and those on their way. *)
HeldCopies ==
    {copy[p] : p \in {q \in Places : units[q] > 0}}
        \cup {inflight[i].copy : i \in {j \in Slots : ~Free(j)}}

(* A copy that knows all the writes another knows is older than it in no field. *)
MoreIsNewer ==
    \A c, d \in KnownCopies, f \in Fields :
        c.known \subseteq d.known => c.version[f] <= d.version[f]

(* Two copies of what is held that know the same writes are equal in every field, if no
   field was written twice in a round, and no refund meets a frozen account. *)
HoldersAgree ==
    token # "frozen" =>
        \A c, d \in HeldCopies : c.known = d.known /\ Apart(c.known) => c = d

LEMMA MoreKnown ==
    ASSUME NEW c \in Copies, NEW d \in Copies, Newest(c), Newest(d), c.known \subseteq d.known,
           NEW f \in Fields
    PROVE  c.version[f] <= d.version[f]
<1>1. c.version[f] \in Nat /\ d.version[f] \in Nat
  BY DEF Copies
<1>2. CASE c.version[f] = 0
  BY <1>1, <1>2
<1>3. CASE c.version[f] > 0
  <2>1. c.value[f] \in d.known /\ c.value[f].field = f /\ c.value[f].round = c.version[f]
    BY <1>3 DEF Newest
  <2> QED BY <2>1 DEF Newest
<1> QED BY <1>1, <1>2, <1>3

LEMMA SameKnown ==
    ASSUME NEW c \in Copies, NEW d \in Copies, Newest(c), Newest(d), Complete(c), Complete(d),
           c.known = d.known, Apart(c.known)
    PROVE  c = d
<1>1. \A f \in Fields : c.version[f] \in Nat /\ d.version[f] \in Nat
  BY DEF Copies
<1>2. ASSUME NEW f \in Fields PROVE c.version[f] = d.version[f]
  BY <1>1, MoreKnown
<1>3. ASSUME NEW f \in Fields PROVE c.value[f] = d.value[f]
  <2>1. CASE c.version[f] = 0
    BY <1>2, <2>1 DEF Newest, Complete
  <2>2. CASE c.version[f] > 0
    <3>1. /\ c.value[f] \in c.known /\ c.value[f].field = f /\ c.value[f].round = c.version[f]
          /\ d.value[f] \in c.known /\ d.value[f].field = f /\ d.value[f].round = c.version[f]
      BY <1>2, <2>2 DEF Newest
    <3> QED BY <3>1 DEF Apart
  <2> QED BY <1>1, <2>1, <2>2
<1>4. /\ c.version \in [Fields -> Nat] /\ d.version \in [Fields -> Nat]
      /\ c.value \in [Fields -> Writes \cup {Empty, Created}]
      /\ d.value \in [Fields -> Writes \cup {Empty, Created}]
  BY DEF Copies
<1>5. c.version = d.version
  BY <1>2, <1>4
<1>6. c.value = d.value
  BY <1>3, <1>4
<1> QED BY <1>5, <1>6 DEF Copies

(* What a copy holds is decided by the writes it knows: one that knows more is newer, and
   two that know the same are the same.  The one way for holders who have seen the same
   updates to keep different metadata is two updates of a field in one round (by two places;
   two by one place count as one write here). *)
THEOREM HoldersConverge == Spec => [](MoreIsNewer /\ HoldersAgree)
<1> DEFINE Held == token # "frozen" => HeldComplete
<1>1. Init => Held
  BY DEF Init, HeldComplete, Complete, FreshCopy, Copies, Free
<1>2. Inv /\ Held /\ [Next]_vars => Held'
  <2>1. [Next]_vars => token' = token
    BY DEF Next, vars
  <2> QED BY <2>1, HeldStep
<1>3. Inv => MoreIsNewer
  <2> SUFFICES ASSUME Inv, NEW c \in KnownCopies, NEW d \in KnownCopies, NEW f \in Fields,
                      c.known \subseteq d.known
               PROVE  c.version[f] <= d.version[f]
    BY DEF MoreIsNewer
  <2>1. c \in Copies /\ Newest(c) /\ d \in Copies /\ Newest(d)
    BY DEF Inv, TypeOK, CopiesSound, Sound, KnownCopies, Free, Messages
  <2> QED BY <2>1, MoreKnown
<1>4. Inv /\ Held => HoldersAgree
  <2> SUFFICES ASSUME Inv, HeldComplete, NEW c \in HeldCopies, NEW d \in HeldCopies,
                      c.known = d.known, Apart(c.known)
               PROVE  c = d
    BY DEF HoldersAgree
  <2>1. \A e \in HeldCopies : e \in Copies /\ Newest(e) /\ Complete(e)
    BY DEF Inv, TypeOK, CopiesSound, Sound, HeldComplete, HeldCopies, Free, Messages
  <2> QED BY <2>1, SameKnown
<1> HIDE DEF Held
<1> QED BY <1>1, <1>2, <1>3, <1>4, InvInit, InvStep, PTL DEF Spec
=============================================================================
