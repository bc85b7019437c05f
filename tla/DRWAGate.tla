------------------------------ MODULE DRWAGate ------------------------------
(* The gate that decides whether a holder may send, receive or re-describe a  *)
(* regulated token (builtInFunctions/drwa.go): the records it reads, the way  *)
(* it merges them, its verdict, and the counters it keeps of its refusals     *)
(* (drwa_counter.go, drwa_metrics.go). One token, as one shard sees it.       *)
(*                                                                            *)
(* The registries write the records through the node, which is not part of    *)
(* this code: any record may arrive at any time and in any order. A status,   *)
(* investor class or jurisdiction is what the verdict compares it with: kyc   *)
(* and aml say whether the text is one of those that pass.                    *)
EXTENDS Integers, Functions

CONSTANTS
  Holders,        \* addresses
  Classes,        \* investor classes, the empty one among them
  Jurisdictions,  \* jurisdiction codes, the empty one among them
  NoClass,        \* the class, and the jurisdiction, of a record without one
  Policies, Mirrors, Profiles,  \* the records the registries may write
  NoRecord,       \* no bytes are stored
  Broken,         \* bytes are stored that do not decode
  MaxRound,       \* bound on the rounds
  MaxCounter,     \* the value the counters stop at, 2^64-1 in the code
  MaxChecks       \* bound on the refusals since a start

Policy == [enabled: BOOLEAN, pause: BOOLEAN, strict: BOOLEAN, protection: BOOLEAN,
           classes: SUBSET Classes, jurisdictions: SUBSET Jurisdictions]
Mirror == [kyc: BOOLEAN, aml: BOOLEAN, class: Classes, jurisdiction: Jurisdictions, expiry: Nat,
           transferLocked: BOOLEAN, receiveLocked: BOOLEAN, auditor: BOOLEAN, version: Nat]
Profile == [kyc: BOOLEAN, aml: BOOLEAN, class: Classes, jurisdiction: Jurisdictions,
            expiry: Nat, version: Nat]

ASSUME RecordsAssumption ==
  /\ NoClass \in Classes /\ NoClass \in Jurisdictions
  /\ Policies \subseteq Policy /\ Mirrors \subseteq Mirror /\ Profiles \subseteq Profile
  /\ NoRecord # Broken
  /\ {NoRecord, Broken} \cap (Policy \cup Mirror \cup Profile \cup BOOLEAN) = {}
ASSUME BoundsAssumption == MaxRound \in Nat /\ MaxCounter \in Nat /\ MaxChecks \in Nat

VARIABLES
  policy,    \* the token's policy on the system account of the shard
  mirror,    \* the holder's record of this token, under the holder's account
  profile,   \* the holder's identity record, the same for every token
  auditor,   \* the auditor's authorization of the holder for this token
  round,     \* the round of the chain
  hooked,    \* the blockchain hook is set: until then CurrentRound returns 0
  counters,  \* the in-process counter of each refusal
  refused    \* history: the refusals since the node started
vars == <<policy, mirror, profile, auditor, round, hooked, counters, refused>>
records == <<policy, mirror, profile, auditor>>

SenderCodes == {"KYC_SENDER", "AML_SENDER", "TRANSFER_LOCKED"}
ReceiverCodes == {"KYC_RECEIVER", "AML_RECEIVER", "RECEIVE_LOCKED"}
Codes == {"PAUSED", "EXPIRED", "CLASS", "JURISDICTION", "AUDITOR", "DECODE_FAILURE"}
           \cup SenderCodes \cup ReceiverCodes
Allowed == "ALLOWED"

now == IF hooked THEN round ELSE 0

-----------------------------------------------------------------------------
(* What the gate reads of a holder.                                           *)

Blank == [kyc |-> FALSE, aml |-> FALSE, class |-> NoClass, jurisdiction |-> NoClass, expiry |-> 0,
          transferLocked |-> FALSE, receiveLocked |-> FALSE, auditor |-> FALSE, version |-> 0]

ProfileWins_AtEqual(m, p) == p # NoRecord /\ (m = NoRecord \/ p.version >= m.version)
ProfileWins(m, p) == p # NoRecord /\ (m = NoRecord \/ p.version > m.version)

IdentityExpiry_OnlyWhenNewer(m, p) == IF ProfileWins(m, p) THEN p.expiry ELSE 0
(* The profile's expiry whichever record wins: nothing else sets this field.  *)
IdentityExpiry(m, p) == IF p = NoRecord THEN 0 ELSE p.expiry

(* A holder without any record is as good as one with a blank record: the     *)
(* verdict stops at its KYC status, or at the missing authorization.          *)
Merged(m, p, a) ==
  LET held == IF m = NoRecord THEN Blank ELSE m
      shared == IF ProfileWins(m, p) THEN p ELSE held
  IN [kyc |-> shared.kyc, aml |-> shared.aml,
      class |-> shared.class, jurisdiction |-> shared.jurisdiction,
      identityExpiry |-> IdentityExpiry(m, p),
      expiry |-> IF held.expiry = 0 THEN IdentityExpiry(m, p) ELSE held.expiry,
      transferLocked |-> held.transferLocked, receiveLocked |-> held.receiveLocked,
      auditor |-> IF a = NoRecord THEN held.auditor ELSE a]

Holder(h) == Merged(mirror[h], profile[h], auditor[h])

Unreadable(h) == Broken \in {mirror[h], profile[h], auditor[h]}

-----------------------------------------------------------------------------
(* The verdicts, in the order of the checks.                                  *)

Expired_BeforeTerm(e, t) == e > 0 /\ (t = 0 \/ t < e)
(* Without a round nothing with a term passes.                                *)
Expired(e, t) == e > 0 /\ (t = 0 \/ t > e)

(* An empty list restricts nothing.                                           *)
Outside(list, value) == list # {} /\ value \notin list

SenderVerdict(p, h, t) ==
  IF p.pause THEN "PAUSED"
  ELSE IF ~h.kyc THEN "KYC_SENDER"
  ELSE IF ~h.aml THEN "AML_SENDER"
  ELSE IF Expired(h.identityExpiry, t) \/ Expired(h.expiry, t) THEN "EXPIRED"
  ELSE IF h.transferLocked THEN "TRANSFER_LOCKED"
  ELSE IF Outside(p.classes, h.class) THEN "CLASS"
  ELSE IF Outside(p.jurisdictions, h.jurisdiction) THEN "JURISDICTION"
  ELSE IF p.strict /\ ~h.auditor THEN "AUDITOR"
  ELSE Allowed

ReceiverVerdict(p, h, t) ==
  IF p.pause THEN "PAUSED"
  ELSE IF ~h.kyc THEN "KYC_RECEIVER"
  ELSE IF ~h.aml THEN "AML_RECEIVER"
  ELSE IF Expired(h.identityExpiry, t) \/ Expired(h.expiry, t) THEN "EXPIRED"
  ELSE IF h.receiveLocked THEN "RECEIVE_LOCKED"
  ELSE IF Outside(p.classes, h.class) THEN "CLASS"
  ELSE IF Outside(p.jurisdictions, h.jurisdiction) THEN "JURISDICTION"
  ELSE IF p.strict /\ ~h.auditor THEN "AUDITOR"
  ELSE Allowed

MetadataVerdict(p, h) ==
  IF p.protection /\ p.strict /\ ~h.auditor THEN "AUDITOR" ELSE Allowed

(* A token without a policy, or with one not enabled, is not regulated.       *)
Regulated == policy \notin {NoRecord, Broken} /\ policy.enabled
Exempt == policy # Broken /\ ~Regulated

Send(h) ==
  IF Exempt THEN Allowed
  ELSE IF policy = Broken \/ Unreadable(h) THEN "DECODE_FAILURE"
  ELSE SenderVerdict(policy, Holder(h), now)

Receive(h) ==
  IF Exempt THEN Allowed
  ELSE IF policy = Broken \/ Unreadable(h) THEN "DECODE_FAILURE"
  ELSE ReceiverVerdict(policy, Holder(h), now)

Describe(h) ==
  IF Exempt THEN Allowed
  ELSE IF policy = Broken \/ Unreadable(h) THEN "DECODE_FAILURE"
  ELSE MetadataVerdict(policy, Holder(h))

-----------------------------------------------------------------------------
(* The calls. A refused call leaves the chain as it was: what stays is the    *)
(* counter of the code, kept in the process and stopped at its maximum.       *)

Init ==
  /\ policy = NoRecord
  /\ mirror = [h \in Holders |-> NoRecord]
  /\ profile = [h \in Holders |-> NoRecord]
  /\ auditor = [h \in Holders |-> NoRecord]
  /\ round = 1 /\ hooked = FALSE
  /\ counters = [c \in Codes |-> 0]
  /\ refused = [c \in Codes |-> 0]

Increment(n) == IF n < MaxCounter THEN n + 1 ELSE n

Room == FoldFunction(+, 0, refused) < MaxChecks

Count(verdict) ==
  /\ Room
  /\ IF verdict = Allowed
       THEN UNCHANGED <<counters, refused>>
       ELSE /\ counters' = [counters EXCEPT ![verdict] = Increment(@)]
            /\ refused' = [refused EXCEPT ![verdict] = @ + 1]
  /\ UNCHANGED <<records, round, hooked>>

(* The sender's half of a transfer, with the receiver's when it lives in the  *)
(* same shard, and the receiver's half on its own.                            *)
TransferInShard(s, r) == Count(IF Send(s) # Allowed THEN Send(s) ELSE Receive(r))
TransferOut(s) == Count(Send(s))
TransferIn(r) == Count(Receive(r))
UpdateAttributes(h) == Count(Describe(h))

(* The records as the node writes them.                                       *)
WritePolicy(p) ==
  /\ policy' = p
  /\ UNCHANGED <<mirror, profile, auditor, round, hooked, counters, refused>>
WriteMirror(h, m) ==
  /\ mirror' = [mirror EXCEPT ![h] = m]
  /\ UNCHANGED <<policy, profile, auditor, round, hooked, counters, refused>>
WriteProfile(h, p) ==
  /\ profile' = [profile EXCEPT ![h] = p]
  /\ UNCHANGED <<policy, mirror, auditor, round, hooked, counters, refused>>
WriteAuditor(h, a) ==
  /\ auditor' = [auditor EXCEPT ![h] = a]
  /\ UNCHANGED <<policy, mirror, profile, round, hooked, counters, refused>>

NextRound ==
  /\ round < MaxRound
  /\ round' = round + 1
  /\ UNCHANGED <<records, hooked, counters, refused>>

SetBlockchainHook ==
  /\ hooked' = TRUE
  /\ UNCHANGED <<records, round, counters, refused>>

(* A node that starts anew has the records, and neither hook nor counters.    *)
Restart ==
  /\ hooked' = FALSE
  /\ counters' = [c \in Codes |-> 0]
  /\ refused' = [c \in Codes |-> 0]
  /\ UNCHANGED <<records, round>>

Next ==
  \/ \E s, r \in Holders : TransferInShard(s, r)
  \/ \E h \in Holders : TransferOut(h) \/ TransferIn(h) \/ UpdateAttributes(h)
  \/ \E p \in Policies \cup {NoRecord, Broken} : WritePolicy(p)
  \/ \E h \in Holders, m \in Mirrors \cup {NoRecord, Broken} : WriteMirror(h, m)
  \/ \E h \in Holders, p \in Profiles \cup {NoRecord, Broken} : WriteProfile(h, p)
  \/ \E h \in Holders, a \in BOOLEAN \cup {NoRecord, Broken} : WriteAuditor(h, a)
  \/ NextRound
  \/ SetBlockchainHook
  \/ Restart

Spec == Init /\ [][Next]_vars

-----------------------------------------------------------------------------
(* Every variable keeps its type.                                             *)
TypeOK ==
  /\ policy \in Policies \cup {NoRecord, Broken}
  /\ mirror \in [Holders -> Mirrors \cup {NoRecord, Broken}]
  /\ profile \in [Holders -> Profiles \cup {NoRecord, Broken}]
  /\ auditor \in [Holders -> BOOLEAN \cup {NoRecord, Broken}]
  /\ round \in (1..MaxRound) \cup {1} /\ hooked \in BOOLEAN
  /\ counters \in [Codes -> 0..MaxCounter]
  /\ refused \in [Codes -> Nat]

(* The two sides apply the same rules: a holder that may send may receive,    *)
(* and the other way round, unless a lock of that direction forbids it. The   *)
(* rules are written twice in drwa.go, once for each side.                    *)
SidesAgree ==
  \A h \in Holders : Regulated /\ ~Unreadable(h) =>
    /\ (Send(h) = Allowed /\ ~Holder(h).receiveLocked) => Receive(h) = Allowed
    /\ (Receive(h) = Allowed /\ ~Holder(h).transferLocked) => Send(h) = Allowed

Within(e) == e = 0 \/ now \in 1..e

(* Whoever may send or receive is within the term of each record it has,      *)
(* whichever of the two is the newer, and the term of the other never stands  *)
(* in for it: an identity that has lapsed stops every token at once.          *)
NoTermOutlived ==
  \A h \in Holders : Regulated /\ Allowed \in {Send(h), Receive(h)} =>
    /\ mirror[h] # NoRecord => Within(mirror[h].expiry)
    /\ profile[h] # NoRecord => Within(profile[h].expiry)

(* Bytes that do not decode are never taken for a record that is not there:   *)
(* nothing about a regulated token passes with one, nor about any token whose *)
(* policy is unreadable.                                                      *)
UnreadableRefused ==
  \A h \in Holders :
    policy = Broken \/ (Regulated /\ Broken \in {mirror[h], profile[h], auditor[h]})
      => Allowed \notin {Send(h), Receive(h), Describe(h)}

(* The counters tell the refusals since the node started, each under its      *)
(* code, and stay at the maximum once there.                                  *)
CountersTellRefusals ==
  \A c \in Codes : counters[c] = IF refused[c] < MaxCounter THEN refused[c] ELSE MaxCounter

(* The two sides agree, no term is outlived, nothing unreadable passes and the *)
(* counters tell the refusals, whatever records are there at whatever round;  *)
(* and every variable keeps its type.                                         *)
VerdictsHold ==
  /\ TypeOK
  /\ SidesAgree /\ NoTermOutlived /\ UnreadableRefused
  /\ CountersTellRefusals

(* Time alone admits nobody: while the records stay as they are, a holder     *)
(* refused at a known round is refused at every later one, over restarts too. *)
TimeAdmitsNobody ==
  [][\A h \in Holders : UNCHANGED records /\ hooked =>
       /\ Send(h) # Allowed => Send(h)' # Allowed
       /\ Receive(h) # Allowed => Receive(h)' # Allowed]_vars

ProfileNotNewer(h) ==
  /\ mirror[h] \notin {NoRecord, Broken}
  /\ profile[h] = NoRecord \/ (profile[h] # Broken /\ profile[h].version <= mirror[h].version)

(* A profile that is not newer than the mirror changes no standing but its    *)
(* own term: written late, it never lifts a refusal the mirror is the cause   *)
(* of.                                                                        *)
LateProfileLiftsNothing ==
  [][\A h \in Holders, p \in Profiles :
       WriteProfile(h, p) /\ ProfileNotNewer(h) /\ ProfileNotNewer(h)' =>
         /\ Send(h) \notin {Allowed, "EXPIRED"} => Send(h)' # Allowed
         /\ Receive(h) \notin {Allowed, "EXPIRED"} => Receive(h)' # Allowed]_vars
=============================================================================
