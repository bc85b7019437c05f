----------------------------- MODULE MCDRWAGate -----------------------------
(* DRWAGate in two scenarios: one holder with records of every kind and nobody
   counting, and two holders with few records who are refused until a counter is
   full. *)
EXTENDS DRWAGate

CONSTANTS h1, h2

Fit == [kyc |-> TRUE, aml |-> TRUE, class |-> "fund", jurisdiction |-> "LU", expiry |-> 0, version |-> 1]
Sound == [kyc |-> TRUE, aml |-> TRUE, class |-> "fund", jurisdiction |-> "LU", expiry |-> 0, version |-> 1,
          transferLocked |-> FALSE, receiveLocked |-> FALSE, auditor |-> FALSE]
Open == [enabled |-> TRUE, pause |-> FALSE, strict |-> FALSE, protection |-> FALSE,
         classes |-> {}, jurisdictions |-> {}]

MCClasses == {"none", "fund", "retail"}
MCJurisdictions == {"none", "LU", "XX"}

AllPolicies ==
  {Open, [Open EXCEPT !.enabled = FALSE], [Open EXCEPT !.pause = TRUE],
   [Open EXCEPT !.classes = {"fund"}, !.protection = TRUE],
   [Open EXCEPT !.jurisdictions = {"LU"}, !.strict = TRUE, !.protection = TRUE]}
AllMirrors ==
  {[Sound EXCEPT !.class = c, !.expiry = e, !.version = v] :
     c \in {"fund", "retail"}, e \in {0, 1}, v \in {1, 2}}
  \cup {[Sound EXCEPT !.kyc = FALSE, !.version = 2], [Sound EXCEPT !.aml = FALSE],
        [Sound EXCEPT !.jurisdiction = "XX", !.auditor = TRUE],
        [Sound EXCEPT !.transferLocked = TRUE], [Sound EXCEPT !.receiveLocked = TRUE]}
AllProfiles ==
  {[Fit EXCEPT !.expiry = e, !.version = v, !.kyc = k] : e \in {0, 2}, v \in 1..3, k \in BOOLEAN}
  \cup {[Fit EXCEPT !.aml = FALSE, !.version = 2], [Fit EXCEPT !.class = "none", !.jurisdiction = "none"]}

FewPolicies == {p \in AllPolicies : p.strict}
FewMirrors == {m \in AllMirrors : ~m.aml \/ m.auditor}
FewProfiles == {[Fit EXCEPT !.expiry = 2, !.version = 2]}

VARIABLE scenario

MCInit == Init /\ scenario \in {"standing", "refusals"}

InScenario ==
  \/ /\ scenario = "standing"
     /\ \A c \in Codes : refused[c] = 0
     /\ {mirror[h2], profile[h2], auditor[h2]} = {NoRecord}
  \/ /\ scenario = "refusals"
     /\ policy \in FewPolicies \cup {NoRecord, Broken}
     /\ \A h \in Holders : /\ mirror[h] \in FewMirrors \cup {NoRecord, Broken}
                           /\ profile[h] \in FewProfiles \cup {NoRecord, Broken}
                           /\ auditor[h] = NoRecord
     /\ round = 1

MCNext == UNCHANGED scenario /\ Next /\ InScenario'

MCSpec == MCInit /\ [][MCNext]_<<vars, scenario>>
=============================================================================
