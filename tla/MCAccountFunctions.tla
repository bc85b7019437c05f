------------------------- MODULE MCAccountFunctions -------------------------
(* AccountFunctions on small sets.  A behaviour exercises one of the functions, the
   others stand still. *)
EXTENDS AccountFunctions, TLC

Affordable == 0..(Modulus - 1)

KeyLengths == [k \in Keys |-> 1]

Homes ==
    [x \in {"alice", "oldA", "newA"} |-> "east"] @@ [x \in {"bob", "bothB"} |-> "west"]

VARIABLE exercised  \* what this behaviour exercises

(* The one initial state of what is not exercised. *)
AtRest ==
    /\ exercised # "migration" => version = [l \in Leaves |-> "NotSpecified"]
    /\ exercised # "naming" => name = [u \in Users |-> NoName] /\ lastNaming.dns = "oldA"
    /\ exercised # "ownership" => owner = "alice"
    /\ exercised # "guarding" => metadata = {}

MCInit ==
    /\ exercised \in {"migration", "storage", "naming", "ownership", "guarding", "outputs"}
    /\ AccountInit
    /\ AtRest

MCNext ==
    /\ UNCHANGED exercised
    /\ \/ exercised = "migration" /\ MigrationStep
       \/ exercised = "storage" /\ StorageStep
       \/ exercised = "naming" /\ NamingStep
       \/ exercised = "ownership" /\ OwnershipStep
       \/ exercised = "guarding" /\ GuardingStep
       \/ exercised = "outputs" /\ OutputStep

MCSpec == MCInit /\ [][MCNext]_<<exercised, accountVars>> /\ Ownership!Delivery
=============================================================================
