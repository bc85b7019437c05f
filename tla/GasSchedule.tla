---------------------------- MODULE GasSchedule ----------------------------
(* The costs the built-in functions charge by: the creator gives each         *)
(* function its costs when it builds the container, and a change of the gas   *)
(* schedule then visits the functions one by one, in any order, while calls   *)
(* run (creator.go, SetNewGasConfig of each function). Each function keeps    *)
(* its costs under a sync.RWMutex: a call reads them with the lock held, a    *)
(* change writes them with the lock held alone.                               *)
(*                                                                            *)
(* A schedule is its number: 0 is the one the container is created with. A    *)
(* cost is the number of its schedule with the name of its field, so that     *)
(* two costs are equal only when they come from the same place. Removing a    *)
(* function from the container is left out: nothing in the repository does.   *)
EXTENDS Integers, FiniteSets, TLC

CONSTANTS
  Functions,   \* names of the functions looked at
  Callers,     \* executions that may run at once
  MaxSchedule, \* bound on the changes
  NoCost       \* a cost that was never given

Change == "change"  \* the execution that changes the schedule
Nobody == "nobody"

-----------------------------------------------------------------------------
(* What CreateBuiltInFunctionContainer gives each function: the field of its  *)
(* own cost, and what else it keeps of the schedule. Functions that charge    *)
(* nothing (pause, roles, freeze, metadata deletion and the like) are absent. *)

AccountCosts ==
  [ClaimDeveloperRewards |-> "ClaimDeveloperRewards", ChangeOwnerAddress |-> "ChangeOwnerAddress",
   SetUserName |-> "SaveUserName", DeleteUserName |-> "SaveUserName",
   SaveKeyValue |-> "SaveKeyValue"]
TokenCosts ==
  [ESDTTransfer |-> "ESDTTransfer", ESDTBurn |-> "ESDTBurn",
   ESDTLocalBurn |-> "ESDTLocalBurn", ESDTLocalMint |-> "ESDTLocalMint",
   ESDTNFTAddQuantity |-> "ESDTNFTAddQuantity", ESDTNFTBurn |-> "ESDTNFTBurn",
   ESDTNFTCreate |-> "ESDTNFTCreate"]
NFTCosts ==
  [ESDTNFTTransfer |-> "ESDTNFTTransfer", ESDTNFTUpdateAttributes |-> "ESDTNFTUpdateAttributes",
   ESDTNFTAddURI |-> "ESDTNFTAddURI", MultiESDTNFTTransfer |-> "ESDTNFTMultiTransfer"]
GuardianCosts ==
  [SetGuardian |-> "SetGuardian", GuardAccount |-> "GuardAccount",
   UnGuardAccount |-> "GuardAccount"]
MetaDataCosts ==
  [MigrateDataTrie |-> "TrieLoadPerNode", ESDTMetaDataRecreate |-> "ESDTNFTRecreate",
   ESDTMetaDataUpdate |-> "ESDTNFTUpdate", ESDTSetNewURIs |-> "ESDTNFTRecreate",
   ESDTModifyRoyalties |-> "ESDTModifyRoyalties", ESDTModifyCreator |-> "ESDTModifyRoyalties"]

CreationField == AccountCosts @@ TokenCosts @@ NFTCosts @@ GuardianCosts @@ MetaDataCosts

(* The field SetNewGasConfig reads: the one of creation, for all but two.     *)
ChangeField ==
  [CreationField EXCEPT !.ESDTSetNewURIs = "ESDTNFTSetNewURIs",
                        !.ESDTModifyCreator = "ESDTModifyCreator"]

BaseCosts == "BaseOperationCost"
WithBaseCosts ==
  {"SaveKeyValue", "ESDTTransfer", "ESDTNFTCreate", "ESDTNFTTransfer", "ESDTNFTUpdateAttributes",
   "ESDTNFTAddURI", "MultiESDTNFTTransfer", "ESDTMetaDataRecreate", "ESDTMetaDataUpdate",
   "ESDTSetNewURIs"}

Rest(f) ==
  IF f \in WithBaseCosts THEN BaseCosts
  ELSE IF f = "MigrateDataTrie" THEN "TrieStorePerNode" ELSE NoCost

(* NewESDTTransferFunc is the one that is given no base costs.                *)
RestAtCreation(f) == IF f = "ESDTTransfer" THEN NoCost ELSE Rest(f)

Cost(s, field) == IF field = NoCost THEN NoCost ELSE <<s, field>>
Created(f, s) == [own |-> Cost(s, CreationField[f]), rest |-> Cost(s, RestAtCreation(f))]

ASSUME GasAssumption ==
  /\ Functions \subseteq DOMAIN CreationField /\ Nobody \notin Functions /\ Functions # {}
  /\ \A f \in Functions : NoCost \notin {CreationField[f], ChangeField[f]}
  /\ {Change, Nobody} \cap Callers = {} /\ MaxSchedule \in Nat

(* guardAccount and unGuardAccount take the lock for themselves alone.        *)
Exclusive == {"GuardAccount", "UnGuardAccount"}

VARIABLES
  held,      \* the costs of each function
  readers,   \* who reads under its lock
  writer,    \* who has its lock alone, or waits only for the readers to leave
  gasConfig, \* the schedule of the creator
  pending,   \* functions the running change has not come to
  visiting,  \* the function the change is at, if any
  complete,  \* the last schedule all functions have
  call,      \* what each caller does: the function, and what it has read
  since      \* the complete schedule when its call took the lock
vars == <<held, readers, writer, gasConfig, pending, visiting, complete, call, since>>
locks == <<readers, writer>>
change == <<held, gasConfig, pending, visiting, complete>>

Idle == [function |-> Nobody, own |-> NoCost, rest |-> NoCost, stage |-> "idle"]
Changing == pending # {} \/ visiting # Nobody

Init ==
  /\ held = [f \in Functions |-> Created(f, 0)]
  /\ readers = [f \in Functions |-> {}] /\ writer = [f \in Functions |-> Nobody]
  /\ gasConfig = 0 /\ pending = {} /\ visiting = Nobody /\ complete = 0
  /\ call = [c \in Callers |-> Idle] /\ since = [c \in Callers |-> 0]

-----------------------------------------------------------------------------
(* sync.RWMutex: a writer that has come first keeps new readers out, and has  *)
(* the lock once the readers before it have left.                             *)

Alone(f, x) == writer[f] = x /\ readers[f] = {}

Enter_PastWriters(c, f) == readers' = [readers EXCEPT ![f] = @ \cup {c}] /\ UNCHANGED writer
Enter(c, f) ==
  /\ writer[f] = Nobody
  /\ IF f \in Exclusive
       THEN writer' = [writer EXCEPT ![f] = c] /\ UNCHANGED readers
       ELSE readers' = [readers EXCEPT ![f] = @ \cup {c}] /\ UNCHANGED writer

Leave(c, f) ==
  /\ readers' = [readers EXCEPT ![f] = @ \ {c}]
  /\ writer' = [writer EXCEPT ![f] = IF @ = c THEN Nobody ELSE @]

-----------------------------------------------------------------------------
(* A call                                                                     *)

Lock(c, f) ==
  /\ call[c].stage = "idle"
  /\ Enter(c, f)
  /\ call' = [call EXCEPT ![c] = [Idle EXCEPT !.function = f, !.stage = "locked"]]
  /\ since' = [since EXCEPT ![c] = complete]
  /\ UNCHANGED change

HasLock(c) ==
  LET f == call[c].function IN c \in readers[f] \/ Alone(f, c)

ReadOwn(c) ==
  /\ call[c].stage = "locked" /\ HasLock(c)
  /\ call' = [call EXCEPT ![c].own = held[call[c].function].own, ![c].stage = "rest"]
  /\ UNCHANGED <<locks, change, since>>

ReadRest(c) ==
  /\ call[c].stage = "rest"
  /\ call' = [call EXCEPT ![c].rest = held[call[c].function].rest, ![c].stage = "charged"]
  /\ UNCHANGED <<locks, change, since>>

Return(c) ==
  /\ call[c].stage = "charged"
  /\ Leave(c, call[c].function)
  /\ call' = [call EXCEPT ![c] = Idle] /\ since' = [since EXCEPT ![c] = 0]
  /\ UNCHANGED change

-----------------------------------------------------------------------------
(* GasScheduleChange                                                          *)

(* A schedule with a cost that is missing or zero changes nothing.            *)
GasScheduleChange ==
  /\ ~Changing /\ gasConfig < MaxSchedule
  /\ gasConfig' = gasConfig + 1 /\ pending' = Functions
  /\ UNCHANGED <<held, locks, visiting, complete, call, since>>

Visit(f) ==
  /\ visiting = Nobody /\ f \in pending
  /\ writer[f] = Nobody
  /\ visiting' = f /\ pending' = pending \ {f}
  /\ writer' = [writer EXCEPT ![f] = Change]
  /\ UNCHANGED <<held, readers, gasConfig, complete, call, since>>

Given_Unlocked(f) == writer[f] = Change
Given(f) == Alone(f, Change)

SetOwn ==
  /\ visiting # Nobody /\ Given(visiting)
  /\ held[visiting].own # Cost(gasConfig, ChangeField[visiting])
  /\ held' = [held EXCEPT ![visiting].own = Cost(gasConfig, ChangeField[visiting])]
  /\ UNCHANGED <<locks, gasConfig, pending, visiting, complete, call, since>>

SetRest_Forgotten ==
  /\ visiting # Nobody /\ held[visiting].own = Cost(gasConfig, ChangeField[visiting])
  /\ UNCHANGED held
  /\ writer' = [writer EXCEPT ![visiting] = Nobody]
  /\ visiting' = Nobody
  /\ complete' = IF pending = {} THEN gasConfig ELSE complete
  /\ UNCHANGED <<readers, gasConfig, pending, call, since>>

SetRest ==
  /\ visiting # Nobody /\ held[visiting].own = Cost(gasConfig, ChangeField[visiting])
  /\ held' = [held EXCEPT ![visiting].rest = Cost(gasConfig, Rest(visiting))]
  /\ writer' = [writer EXCEPT ![visiting] = Nobody]
  /\ visiting' = Nobody
  /\ complete' = IF pending = {} THEN gasConfig ELSE complete
  /\ UNCHANGED <<readers, gasConfig, pending, call, since>>

Next ==
  \/ \E c \in Callers, f \in Functions : Lock(c, f)
  \/ \E c \in Callers : ReadOwn(c) \/ ReadRest(c) \/ Return(c)
  \/ GasScheduleChange
  \/ \E f \in Functions : Visit(f)
  \/ SetOwn \/ SetRest

(* A call that has the lock ends, a change that has a lock goes on, and a     *)
(* change that asks for a lock again and again is let in: sync.Mutex hands    *)
(* itself to the one who waits longest. No call has to begin.                 *)
Fairness ==
  /\ \A c \in Callers : WF_vars(ReadOwn(c) \/ ReadRest(c) \/ Return(c))
  /\ SF_vars(\E f \in Functions : Visit(f))
  /\ WF_vars(SetOwn \/ SetRest)

Spec == Init /\ [][Next]_vars /\ Fairness

-----------------------------------------------------------------------------
Fields ==
  {BaseCosts, "TrieStorePerNode"}
    \cup {CreationField[f] : f \in Functions} \cup {ChangeField[f] : f \in Functions}
Costs == {NoCost} \cup ((0..MaxSchedule) \X Fields)

TypeOK ==
  /\ held \in [Functions -> [own : Costs, rest : Costs]]
  /\ readers \in [Functions -> SUBSET Callers]
  /\ writer \in [Functions -> Callers \cup {Change, Nobody}]
  /\ gasConfig \in 0..MaxSchedule /\ complete \in 0..MaxSchedule
  /\ pending \subseteq Functions /\ visiting \in Functions \cup {Nobody}
  /\ \A f \in Functions : (writer[f] = Change <=> visiting = f)
  /\ call \in [Callers -> [function : Functions \cup {Nobody}, own : Costs, rest : Costs,
                           stage : {"idle", "locked", "rest", "charged"}]]
  /\ since \in [Callers -> 0..MaxSchedule]

Charged == {c \in Callers : call[c].stage = "charged"}
SchedulesOf(c) == {x[1] : x \in {call[c].own, call[c].rest} \ {NoCost}}

(* What a call charges comes from one schedule, even while the costs of its   *)
(* function are being replaced.                                               *)
OneSchedule == \A c \in Charged : Cardinality(SchedulesOf(c)) <= 1

(* No call charges by a schedule older than the last one that all functions   *)
(* had when it began.                                                         *)
NeverStale == \A c \in Charged : \A s \in SchedulesOf(c) : since[c] <= s /\ s <= gasConfig

(* Every call charges by one schedule, the last complete one or a newer, while *)
(* the functions take up a new one each at its time, and every variable keeps *)
(* its type.                                                                  *)
ChargesAreCurrent == TypeOK /\ OneSchedule /\ NeverStale

(* Outside a change, a function charges what it would charge in a container   *)
(* created with the schedule in force: two nodes of one schedule, of which    *)
(* one was started later, ask the same for a call.                            *)
NodesAgree == ~Changing => \A f \in Functions : held[f] = Created(f, gasConfig)

(* A change ends, whatever calls there are.                                   *)
ChangeEnds == Changing ~> ~Changing
=============================================================================
