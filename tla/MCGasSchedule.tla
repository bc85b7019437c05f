--------------------------- MODULE MCGasSchedule ---------------------------
(* GasSchedule with all functions, of which two callers call one of each kind of
   lock; changes visit the others in one order. *)
EXTENDS GasSchedule, SequencesExt

(* One function of each kind of lock and of costs.                            *)
LockKinds == {"MigrateDataTrie", "GuardAccount"}

(* The functions whose costs differ between creation and change.              *)
Different == {"ESDTTransfer", "ESDTSetNewURIs", "ESDTModifyCreator"}

SameCosts == DOMAIN CreationField \ Different

Others == FoldSet(LAMBDA f, s : Append(s, f), <<>>, SameCosts \ LockKinds)

(* The functions of Others are called by nobody, and visited before the two. *)
InOrder ==
  /\ \A c \in Callers : call[c].function \in LockKinds \cup {Nobody}
  /\ visiting \in LockKinds => pending \subseteq LockKinds
  /\ \A i, j \in DOMAIN Others : i < j /\ Others[i] \in pending => Others[j] \in pending

MCNext == Next /\ InOrder'

MCSpec == Init /\ [][MCNext]_vars /\ Fairness
=============================================================================
