--------------------------- MODULE DRWAGate_proofs ---------------------------
(* The gate of DRWAGate, proved for every set of holders and of records: what *)
(* it decides follows from the types alone, the counters need an induction.   *)
EXTENDS DRWAGate, TLAPS

USE BoundsAssumption

Offered == {NoRecord, Broken}

(* Every variable keeps its type, whatever the registries write.              *)
THEOREM TypeCorrect == Spec => []TypeOK
<1>1. Init => TypeOK
  <2> SUFFICES ASSUME Init PROVE TypeOK
    OBVIOUS
  <2>1. mirror \in [Holders -> Mirrors \cup {NoRecord, Broken}]
    BY DEF Init
  <2>2. profile \in [Holders -> Profiles \cup {NoRecord, Broken}]
    BY DEF Init
  <2>3. auditor \in [Holders -> BOOLEAN \cup {NoRecord, Broken}]
    BY DEF Init
  <2>4. counters \in [Codes -> 0..MaxCounter] /\ refused \in [Codes -> Nat]
    BY DEF Init
  <2>5. policy \in Policies \cup {NoRecord, Broken} /\ round \in (1..MaxRound) \cup {1} /\ hooked \in BOOLEAN
    BY DEF Init
  <2> QED BY <2>1, <2>2, <2>3, <2>4, <2>5 DEF TypeOK
<1>2. ASSUME TypeOK, [Next]_vars PROVE TypeOK'
  <2>1. ASSUME NEW v, Count(v), v \in Codes \cup {Allowed} PROVE TypeOK'
    <3>1. CASE v = Allowed
      BY <1>2, <2>1, <3>1 DEF TypeOK, Count, records
    <3>2. CASE v # Allowed
      BY <1>2, <2>1, <3>2 DEF TypeOK, Count, records, Increment
    <3> QED BY <3>1, <3>2
  <2>2. ASSUME NEW h \in Holders PROVE {Send(h), Receive(h), Describe(h)} \subseteq Codes \cup {Allowed}
    BY DEF Send, Receive, Describe, SenderVerdict, ReceiverVerdict, MetadataVerdict,
           Codes, SenderCodes, ReceiverCodes
  <2>3. ASSUME NEW s \in Holders, NEW r \in Holders, TransferInShard(s, r) PROVE TypeOK'
    BY <2>1, <2>2, <2>3 DEF TransferInShard
  <2>4. ASSUME NEW h \in Holders, TransferOut(h) \/ TransferIn(h) \/ UpdateAttributes(h) PROVE TypeOK'
    BY <2>1, <2>2, <2>4 DEF TransferOut, TransferIn, UpdateAttributes
  <2>5. ASSUME NEW p \in Policies \cup Offered, WritePolicy(p) PROVE TypeOK'
    BY <1>2, <2>5 DEF TypeOK, WritePolicy, Offered
  <2>6. ASSUME NEW h \in Holders, NEW m \in Mirrors \cup Offered, WriteMirror(h, m) PROVE TypeOK'
    BY <1>2, <2>6 DEF TypeOK, WriteMirror, Offered
  <2>7. ASSUME NEW h \in Holders, NEW p \in Profiles \cup Offered, WriteProfile(h, p) PROVE TypeOK'
    BY <1>2, <2>7 DEF TypeOK, WriteProfile, Offered
  <2>8. ASSUME NEW h \in Holders, NEW a \in BOOLEAN \cup Offered, WriteAuditor(h, a) PROVE TypeOK'
    BY <1>2, <2>8 DEF TypeOK, WriteAuditor, Offered
  <2>9. CASE NextRound
    BY <1>2, <2>9 DEF TypeOK, NextRound, records
  <2>10. CASE SetBlockchainHook
    BY <1>2, <2>10 DEF TypeOK, SetBlockchainHook, records
  <2>11. CASE Restart
    <3>1. counters' \in [Codes -> 0..MaxCounter] /\ refused' \in [Codes -> Nat]
      BY <2>11 DEF Restart
    <3>2. UNCHANGED records /\ round' = round /\ hooked' \in BOOLEAN
      BY <2>11 DEF Restart
    <3> QED BY <1>2, <3>1, <3>2 DEF TypeOK, records
  <2>12. CASE UNCHANGED vars
    BY <1>2, <2>12 DEF TypeOK, vars
  <2> QED
    <3> USE DEF Offered
    <3>1. CASE \E s, r \in Holders : TransferInShard(s, r)
      BY <2>3, <3>1
    <3>2. CASE \E h \in Holders : TransferOut(h) \/ TransferIn(h) \/ UpdateAttributes(h)
      BY <2>4, <3>2
    <3>3. CASE \E p \in Policies \cup {NoRecord, Broken} : WritePolicy(p)
      BY <2>5, <3>3
    <3>4. CASE \E h \in Holders, m \in Mirrors \cup {NoRecord, Broken} : WriteMirror(h, m)
      BY <2>6, <3>4
    <3>5. CASE \E h \in Holders, p \in Profiles \cup {NoRecord, Broken} : WriteProfile(h, p)
      BY <2>7, <3>5
    <3>6. CASE \E h \in Holders, a \in BOOLEAN \cup {NoRecord, Broken} : WriteAuditor(h, a)
      BY <2>8, <3>6
    <3> QED
      BY <1>2, <2>9, <2>10, <2>11, <2>12, <3>1, <3>2, <3>3, <3>4, <3>5, <3>6 DEF Next
<1> QED BY <1>1, <1>2, PTL DEF Spec

-----------------------------------------------------------------------------
(* Both sides apply the same rules, for every record and every round.         *)
THEOREM Agreed == Spec => []SidesAgree
<1>1. SidesAgree
  <2> SUFFICES ASSUME NEW h \in Holders, Regulated, ~Unreadable(h)
               PROVE  /\ (Send(h) = Allowed /\ ~Holder(h).receiveLocked) => Receive(h) = Allowed
                      /\ (Receive(h) = Allowed /\ ~Holder(h).transferLocked) => Send(h) = Allowed
    BY DEF SidesAgree
  <2>1. policy # Broken /\ ~Exempt
    BY DEF Regulated, Exempt
  <2>2. Send(h) = SenderVerdict(policy, Holder(h), now) /\ Receive(h) = ReceiverVerdict(policy, Holder(h), now)
    BY <2>1 DEF Send, Receive
  <2> QED BY <2>2 DEF SenderVerdict, ReceiverVerdict, Allowed
<1> QED BY <1>1, PTL

(* No record that does not decode is taken for one that is missing.           *)
THEOREM BrokenStops == Spec => []UnreadableRefused
<1>1. UnreadableRefused
  BY DEF UnreadableRefused, Unreadable, Regulated, Exempt, Send, Receive, Describe, Allowed
<1> QED BY <1>1, PTL

(* A holder whose term has run out in any record it has is refused.           *)
THEOREM TermsHeld == Spec => []NoTermOutlived
<1>1. TypeOK => NoTermOutlived
  <2> SUFFICES ASSUME TypeOK, NEW h \in Holders, Regulated, Allowed \in {Send(h), Receive(h)}
               PROVE  /\ mirror[h] # NoRecord => Within(mirror[h].expiry)
                      /\ profile[h] # NoRecord => Within(profile[h].expiry)
    BY DEF NoTermOutlived
  <2>1. ~Exempt /\ policy # Broken
    BY DEF Regulated, Exempt
  <2>2. ~Unreadable(h)
    BY <2>1 DEF Send, Receive, Allowed
  <2>3. mirror[h] # Broken /\ profile[h] # Broken
    BY <2>2 DEF Unreadable
  <2>4. mirror[h] # NoRecord => mirror[h].expiry \in Nat
    BY <2>3, RecordsAssumption DEF TypeOK, Mirror
  <2>5. profile[h] # NoRecord => profile[h].expiry \in Nat
    BY <2>3, RecordsAssumption DEF TypeOK, Profile
  <2>6. ~Expired(Holder(h).identityExpiry, now) /\ ~Expired(Holder(h).expiry, now)
    BY <2>1, <2>2 DEF Send, Receive, SenderVerdict, ReceiverVerdict, Allowed
  <2>7. now \in Nat
    BY DEF now, TypeOK
  <2>8. mirror[h] # NoRecord => Within(mirror[h].expiry)
    <3> HAVE mirror[h] # NoRecord
    <3>1. CASE mirror[h].expiry = 0
      BY <3>1 DEF Within
    <3>2. CASE mirror[h].expiry # 0
      <4>1. Holder(h).expiry = mirror[h].expiry
        BY <3>2 DEF Holder, Merged
      <4> QED BY <4>1, <2>4, <2>6, <2>7, <3>2 DEF Expired, Within
    <3> QED BY <3>1, <3>2
  <2>9. profile[h] # NoRecord => Within(profile[h].expiry)
    <3> HAVE profile[h] # NoRecord
    <3>1. Holder(h).identityExpiry = profile[h].expiry
      BY DEF Holder, Merged, IdentityExpiry
    <3> QED BY <3>1, <2>5, <2>6, <2>7 DEF Expired, Within
  <2> QED BY <2>8, <2>9
<1> QED BY <1>1, TypeCorrect, PTL

-----------------------------------------------------------------------------
(* The counters follow the refusals of the process they live in.              *)
THEOREM Counted == Spec => []CountersTellRefusals
<1>1. Init => CountersTellRefusals
  BY DEF Init, CountersTellRefusals
<1>2. ASSUME TypeOK, CountersTellRefusals, [Next]_vars PROVE CountersTellRefusals'
  <2>1. ASSUME NEW v, Count(v) PROVE CountersTellRefusals'
    BY <1>2, <2>1 DEF TypeOK, CountersTellRefusals, Count, Increment
  <2>2. ASSUME UNCHANGED <<counters, refused>> PROVE CountersTellRefusals'
    BY <1>2, <2>2 DEF CountersTellRefusals
  <2>3. CASE Restart
    BY <2>3 DEF Restart, CountersTellRefusals
  <2> QED
    BY <1>2, <2>1, <2>2, <2>3
    DEF Next, vars, TransferInShard, TransferOut, TransferIn, UpdateAttributes, WritePolicy,
        WriteMirror, WriteProfile, WriteAuditor, NextRound, SetBlockchainHook
<1> QED BY <1>1, <1>2, TypeCorrect, PTL DEF Spec

-----------------------------------------------------------------------------
(* Steps                                                                      *)

LEMMA ExpiryStays ==
  ASSUME TypeOK, [Next]_vars, hooked, UNCHANGED records, NEW e \in Nat, Expired(e, now)
  PROVE  Expired(e, now')
<1>1. round \in Nat /\ round >= 1 /\ now = round
  BY DEF TypeOK, now
<1>2. round' = round \/ (round' = round + 1)
  BY DEF Next, vars, TransferInShard, TransferOut, TransferIn, UpdateAttributes, Count, WritePolicy,
         WriteMirror, WriteProfile, WriteAuditor, NextRound, SetBlockchainHook, Restart
<1>3. now' = 0 \/ now' = round'
  BY DEF now
<1> QED BY <1>1, <1>2, <1>3 DEF Expired

LEMMA Terms ==
  ASSUME TypeOK, NEW h \in Holders, ~Unreadable(h)
  PROVE  Holder(h).identityExpiry \in Nat /\ Holder(h).expiry \in Nat
<1>1. mirror[h] # NoRecord => mirror[h].expiry \in Nat
  BY RecordsAssumption DEF TypeOK, Mirror, Unreadable
<1>2. profile[h] # NoRecord => profile[h].expiry \in Nat
  BY RecordsAssumption DEF TypeOK, Profile, Unreadable
<1>3. IdentityExpiry(mirror[h], profile[h]) \in Nat
  BY <1>2 DEF IdentityExpiry
<1>4. Blank.expiry = 0
  BY DEF Blank
<1> QED BY <1>1, <1>3, <1>4 DEF Holder, Merged

(* Rounds that pass, and restarts, never turn a refusal into an admission.    *)
THEOREM TimeOnlyTakesAway == Spec => TimeAdmitsNobody
<1>1. ASSUME TypeOK, [Next]_vars, NEW h \in Holders, UNCHANGED records, hooked
      PROVE  /\ Send(h) # Allowed => Send(h)' # Allowed
             /\ Receive(h) # Allowed => Receive(h)' # Allowed
  <2>1. policy' = policy /\ Holder(h)' = Holder(h) /\ Unreadable(h)' = Unreadable(h) /\ Exempt' = Exempt
    BY <1>1 DEF records, Holder, Unreadable, Exempt, Regulated
  <2>2. CASE Exempt \/ policy = Broken \/ Unreadable(h)
    BY <2>1, <2>2 DEF Send, Receive, Allowed
  <2>3. CASE ~Exempt /\ policy # Broken /\ ~Unreadable(h)
    <3>1. Expired(Holder(h).identityExpiry, now) => Expired(Holder(h).identityExpiry, now')
      BY <1>1, <2>3, Terms, ExpiryStays
    <3>2. Expired(Holder(h).expiry, now) => Expired(Holder(h).expiry, now')
      BY <1>1, <2>3, Terms, ExpiryStays
    <3>3. Send(h) = SenderVerdict(policy, Holder(h), now) /\ Send(h)' = SenderVerdict(policy, Holder(h), now')
      BY <2>1, <2>3 DEF Send
    <3>4. Receive(h) = ReceiverVerdict(policy, Holder(h), now) /\ Receive(h)' = ReceiverVerdict(policy, Holder(h), now')
      BY <2>1, <2>3 DEF Receive
    <3> QED BY <3>1, <3>2, <3>3, <3>4 DEF SenderVerdict, ReceiverVerdict, Allowed
  <2> QED BY <2>2, <2>3
<1>2. ASSUME TypeOK, [Next]_vars PROVE
        [\A h \in Holders : UNCHANGED records /\ hooked =>
           /\ Send(h) # Allowed => Send(h)' # Allowed
           /\ Receive(h) # Allowed => Receive(h)' # Allowed]_vars
  BY <1>1, <1>2
<1> QED BY <1>2, TypeCorrect, PTL DEF Spec, TimeAdmitsNobody

(* A profile that arrives late lifts no refusal but one for its own term.     *)
THEOREM LateProfiles == Spec => LateProfileLiftsNothing
<1>1. ASSUME TypeOK, NEW h \in Holders, NEW p \in Profiles,
             WriteProfile(h, p), ProfileNotNewer(h), ProfileNotNewer(h)'
      PROVE  /\ Send(h) \notin {Allowed, "EXPIRED"} => Send(h)' # Allowed
             /\ Receive(h) \notin {Allowed, "EXPIRED"} => Receive(h)' # Allowed
  <2>1. /\ policy' = policy /\ mirror' = mirror /\ auditor' = auditor /\ now' = now
        /\ profile[h]' = p
    BY <1>1 DEF WriteProfile, TypeOK, now
  <2>2. /\ mirror[h] \in Mirror /\ p \in Profile
        /\ profile[h] \in Profile \cup {NoRecord}
    BY <1>1, RecordsAssumption DEF TypeOK, ProfileNotNewer
  <2>3. ~ProfileWins(mirror[h], profile[h])
    BY <1>1, <2>2, RecordsAssumption DEF ProfileWins, ProfileNotNewer, Mirror, Profile
  <2>4. ~ProfileWins(mirror[h], p)
    BY <1>1, <2>1, <2>2, RecordsAssumption DEF ProfileWins, ProfileNotNewer, Mirror, Profile
  <2>5. /\ Holder(h)'.kyc = Holder(h).kyc /\ Holder(h)'.aml = Holder(h).aml
        /\ Holder(h)'.class = Holder(h).class /\ Holder(h)'.jurisdiction = Holder(h).jurisdiction
        /\ Holder(h)'.transferLocked = Holder(h).transferLocked
        /\ Holder(h)'.receiveLocked = Holder(h).receiveLocked
        /\ Holder(h)'.auditor = Holder(h).auditor
    BY <2>1, <2>3, <2>4 DEF Holder, Merged
  <2>6. Unreadable(h)' = Unreadable(h) /\ Exempt' = Exempt
    BY <1>1, <2>1, <2>2, RecordsAssumption DEF Unreadable, Exempt, Regulated
  <2>7. CASE Exempt \/ policy = Broken \/ Unreadable(h)
    BY <2>1, <2>6, <2>7 DEF Send, Receive, Allowed
  <2>8. CASE ~Exempt /\ policy # Broken /\ ~Unreadable(h)
    <3>1. Send(h) = SenderVerdict(policy, Holder(h), now) /\ Send(h)' = SenderVerdict(policy, Holder(h)', now)
      BY <2>1, <2>6, <2>8 DEF Send
    <3>2. Receive(h) = ReceiverVerdict(policy, Holder(h), now) /\ Receive(h)' = ReceiverVerdict(policy, Holder(h)', now)
      BY <2>1, <2>6, <2>8 DEF Receive
    <3> QED BY <2>5, <3>1, <3>2 DEF SenderVerdict, ReceiverVerdict, Allowed
  <2> QED BY <2>7, <2>8
<1>2. ASSUME TypeOK, [Next]_vars PROVE
        [\A h \in Holders, p \in Profiles :
          WriteProfile(h, p) /\ ProfileNotNewer(h) /\ ProfileNotNewer(h)' =>
            /\ Send(h) \notin {Allowed, "EXPIRED"} => Send(h)' # Allowed
            /\ Receive(h) \notin {Allowed, "EXPIRED"} => Receive(h)' # Allowed]_vars
  BY <1>1, <1>2
<1> QED BY <1>2, TypeCorrect, PTL DEF Spec, LateProfileLiftsNothing

(* The verdicts are sound in every reachable state, and the counters tell the
   refusals. *)
THEOREM VerdictsAlwaysHold == Spec => []VerdictsHold
<1>1. TypeOK /\ SidesAgree /\ NoTermOutlived /\ UnreadableRefused /\ CountersTellRefusals => VerdictsHold
  BY DEF VerdictsHold
<1> QED BY <1>1, TypeCorrect, Agreed, TermsHeld, BrokenStops, Counted, PTL
=============================================================================
