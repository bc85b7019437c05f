------------------------ MODULE GasSchedule_proofs -------------------------
(* Proofs about GasSchedule, for any functions, callers and number of         *)
(* changes.                                                                   *)
EXTENDS GasSchedule, FiniteSetTheorems, TLAPS

Prices == [own : Costs, rest : Costs]
Calls == [function : Functions \cup {Nobody}, own : Costs, rest : Costs,
          stage : {"idle", "locked", "rest", "charged"}]
Updated(f, s) == [own |-> Cost(s, ChangeField[f]), rest |-> Cost(s, Rest(f))]
Of(f, s) == held[f] \in {Created(f, s), Updated(f, s)}

LEMMA CostType ==
  ASSUME NEW s \in 0..MaxSchedule, NEW f \in Functions
  PROVE  /\ Created(f, s) \in Prices /\ Updated(f, s) \in Prices
         /\ Created(f, s).own = <<s, CreationField[f]>>
         /\ Updated(f, s).own = <<s, ChangeField[f]>>
         /\ Created(f, s).rest = NoCost \/ Created(f, s).rest[1] = s
         /\ Updated(f, s).rest = NoCost \/ Updated(f, s).rest[1] = s
<1>1. /\ Cost(s, CreationField[f]) = <<s, CreationField[f]>>
      /\ Cost(s, ChangeField[f]) = <<s, ChangeField[f]>>
      /\ {CreationField[f], ChangeField[f]} \subseteq Fields
  BY GasAssumption DEF Cost, Fields
<1>2. Rest(f) \in Fields \cup {NoCost} /\ RestAtCreation(f) \in Fields \cup {NoCost}
  BY Zenon DEF Rest, RestAtCreation, Fields
<1>3. \A x \in Fields \cup {NoCost} :
        Cost(s, x) \in Costs /\ (Cost(s, x) = NoCost \/ Cost(s, x)[1] = s)
  BY DEF Cost, Costs
<1>4. {Cost(s, CreationField[f]), Cost(s, ChangeField[f])} \subseteq Costs
  BY <1>1, <1>3
<1> QED BY <1>1, <1>2, <1>3, <1>4 DEF Created, Updated, Prices

-----------------------------------------------------------------------------
(* Who holds which lock                                                       *)

Within(c, f) == c \in readers[f] \/ writer[f] = c

Locking ==
  \A c \in Callers, f \in Functions :
    /\ Within(c, f) <=> (call[c].function = f /\ call[c].stage # "idle")
    /\ call[c].stage \in {"rest", "charged"} /\ call[c].function = f =>
         c \in readers[f] \/ Alone(f, c)

(* The schedule the costs of each function come from: the one of the running  *)
(* change where it has been, the one before where it has not. Costs of two    *)
(* schedules are never there to be read.                                      *)
Schedules ==
  /\ complete = IF Changing THEN gasConfig - 1 ELSE gasConfig
  /\ visiting \notin pending
  /\ \A f \in Functions :
       IF f \in pending THEN Of(f, complete)
       ELSE IF visiting = f
         THEN Of(f, complete)
                \/ (readers[f] = {} /\ held[f].own = Cost(gasConfig, ChangeField[f]))
         ELSE Of(f, gasConfig)

(* What a call has read is what its function still has.                       *)
Reads ==
  \A c \in Callers :
    /\ since[c] <= complete
    /\ call[c].stage # "idle" => call[c].function \in Functions
    /\ call[c].stage \in {"rest", "charged"} => call[c].own = held[call[c].function].own
    /\ call[c].stage = "charged" => call[c].rest = held[call[c].function].rest

IInv == TypeOK /\ Locking /\ Schedules /\ Reads

-----------------------------------------------------------------------------
(* Type correctness                                                           *)

LEMMA InitType == Init => TypeOK
<1> SUFFICES ASSUME Init PROVE TypeOK
  OBVIOUS
<1>1. held \in [Functions -> [own : Costs, rest : Costs]]
  <2>1. \A f \in Functions : Created(f, 0) \in Prices
    BY CostType, GasAssumption
  <2> QED BY <2>1 DEF Init, Prices
<1>2. \A f \in Functions : (writer[f] = Change <=> visiting = f)
  BY GasAssumption DEF Init, Change, Nobody
<1> QED BY <1>1, <1>2, GasAssumption DEF Init, TypeOK, Idle, Costs, Change, Nobody

-----------------------------------------------------------------------------
(* One lemma for each kind of step                                            *)

LEMMA CallerNames ==
  ASSUME NEW c \in Callers
  PROVE  c # Change /\ c # Nobody /\ Change # Nobody
BY GasAssumption DEF Change, Nobody

LEMMA EnterLocks ==
  ASSUME TypeOK, NEW c \in Callers, NEW f \in Functions, Enter(c, f)
  PROVE  /\ writer[f] = Nobody
         /\ writer' \in [Functions -> Callers \cup {Change, Nobody}]
         /\ readers' \in [Functions -> SUBSET Callers]
         /\ \A g \in Functions \ {f} : readers'[g] = readers[g] /\ writer'[g] = writer[g]
         /\ \/ readers'[f] = readers[f] \cup {c} /\ writer'[f] = Nobody
            \/ readers'[f] = readers[f] /\ writer'[f] = c
<1>1. CASE f \in Exclusive
  BY <1>1 DEF Enter, TypeOK
<1>2. CASE f \notin Exclusive
  BY <1>2 DEF Enter, TypeOK
<1> QED BY <1>1, <1>2

LEMMA LockStep ==
  ASSUME IInv, NEW c \in Callers, NEW f \in Functions, Lock(c, f)
  PROVE  IInv'
<1> USE GasAssumption DEF IInv
<1>1. /\ writer[f] = Nobody
      /\ writer' \in [Functions -> Callers \cup {Change, Nobody}]
      /\ readers' \in [Functions -> SUBSET Callers]
      /\ \A g \in Functions \ {f} : readers'[g] = readers[g] /\ writer'[g] = writer[g]
      /\ \/ readers'[f] = readers[f] \cup {c} /\ writer'[f] = Nobody
         \/ readers'[f] = readers[f] /\ writer'[f] = c
  BY EnterLocks DEF Lock
<1>2. /\ call[c].stage = "idle"
      /\ call' = [call EXCEPT ![c] = [Idle EXCEPT !.function = f, !.stage = "locked"]]
      /\ since' = [since EXCEPT ![c] = complete]
      /\ UNCHANGED change
  BY DEF Lock
<1>3. /\ [Idle EXCEPT !.function = f, !.stage = "locked"] \in Calls
      /\ [Idle EXCEPT !.function = f, !.stage = "locked"].function = f
      /\ [Idle EXCEPT !.function = f, !.stage = "locked"].stage = "locked"
  BY DEF Idle, Calls, Costs
<1>4. /\ call' \in [Callers -> Calls]
      /\ call'[c].function = f /\ call'[c].stage = "locked"
      /\ \A d \in Callers \ {c} : call'[d] = call[d]
  BY <1>2, <1>3 DEF TypeOK, Calls
<1>5. \A g \in Functions : (writer[g] = Change <=> writer'[g] = Change)
  BY <1>1, CallerNames
<1>6. TypeOK'
  BY <1>1, <1>2, <1>4, <1>5 DEF TypeOK, change, Calls
<1>7. Locking'
  <2> SUFFICES ASSUME NEW d \in Callers, NEW g \in Functions
               PROVE  /\ Within(d, g)' <=> (call'[d].function = g /\ call'[d].stage # "idle")
                      /\ call'[d].stage \in {"rest", "charged"} /\ call'[d].function = g =>
                           d \in readers'[g] \/ Alone(g, d)'
    BY DEF Locking, Within, Alone
  <2>1. CASE d = c
    <3>1. ~Within(c, g)
      BY <1>2 DEF Locking
    <3>2. CASE g = f
      BY <2>1, <3>2, <1>1, <1>4 DEF Within
    <3>3. CASE g # f
      BY <2>1, <3>1, <3>3, <1>1, <1>4 DEF Within
    <3> QED BY <3>2, <3>3
  <2>2. CASE d # c
    <3>1. Within(d, g)' <=> Within(d, g)
      BY <2>2, <1>1, CallerNames DEF Within
    <3>2. d \in readers[g] => d \in readers'[g]
      BY <1>1
    <3>3. ASSUME Alone(g, d) PROVE Alone(g, d)'
      BY <3>3, <1>1, CallerNames DEF Alone
    <3> QED BY <2>2, <1>4, <3>1, <3>2, <3>3 DEF Locking
  <2> QED BY <2>1, <2>2
<1>8. Schedules'
  <2>1. \A g \in Functions : Of(g, complete)' <=> Of(g, complete)
    BY <1>2 DEF Of, change
  <2>2. \A g \in Functions : Of(g, gasConfig)' <=> Of(g, gasConfig)
    BY <1>2 DEF Of, change
  <2>3. \A g \in Functions : visiting = g => readers'[g] = readers[g]
    BY <1>1, CallerNames DEF TypeOK
  <2> QED BY <1>2, <2>1, <2>2, <2>3 DEF Schedules, Changing, change
<1>9. Reads'
  BY <1>2, <1>4, <1>6 DEF Reads, change, TypeOK
<1> QED BY <1>6, <1>7, <1>8, <1>9

(* Locks and costs stay, so only what the caller has read is at stake.        *)
LEMMA SameLocks ==
  ASSUME IInv, UNCHANGED <<locks, change, since>>,
         NEW c \in Callers, call' \in [Callers -> Calls],
         call[c].stage # "idle", call'[c].stage # "idle", call'[c].function = call[c].function,
         c \in readers[call[c].function] \/ Alone(call[c].function, c),
         \A d \in Callers \ {c} : call'[d] = call[d]
  PROVE  TypeOK' /\ Locking' /\ Schedules'
<1> USE DEF IInv, locks, change
<1>1. TypeOK'
  BY DEF TypeOK, Calls
<1>2. Locking'
  BY DEF Locking, Within, Alone
<1>3. Schedules'
  BY DEF Schedules, Of, Changing
<1> QED BY <1>1, <1>2, <1>3

LEMMA ReadOwnStep ==
  ASSUME IInv, NEW c \in Callers, ReadOwn(c)
  PROVE  IInv'
<1>1. call[c].stage = "locked" /\ call[c].function \in Functions
  BY DEF ReadOwn, IInv, Reads
<1>2. held[call[c].function].own \in Costs
  BY <1>1 DEF IInv, TypeOK
<1>3. /\ call' \in [Callers -> Calls]
      /\ call'[c].function = call[c].function /\ call'[c].stage = "rest"
      /\ call'[c].own = held[call[c].function].own
      /\ \A d \in Callers \ {c} : call'[d] = call[d]
  BY <1>2 DEF ReadOwn, IInv, TypeOK, Calls
<1>4. TypeOK' /\ Locking' /\ Schedules'
  BY <1>1, <1>3, SameLocks DEF ReadOwn, HasLock
<1>5. Reads'
  BY <1>1, <1>3 DEF ReadOwn, IInv, Reads, change
<1> QED BY <1>4, <1>5 DEF IInv

LEMMA ReadRestStep ==
  ASSUME IInv, NEW c \in Callers, ReadRest(c)
  PROVE  IInv'
<1>1. call[c].stage = "rest" /\ call[c].function \in Functions
  BY DEF ReadRest, IInv, Reads
<1>2. held[call[c].function].rest \in Costs
  BY <1>1 DEF IInv, TypeOK
<1>3. /\ call' \in [Callers -> Calls]
      /\ call'[c].function = call[c].function /\ call'[c].stage = "charged"
      /\ call'[c].own = call[c].own
      /\ call'[c].rest = held[call[c].function].rest
      /\ \A d \in Callers \ {c} : call'[d] = call[d]
  BY <1>2 DEF ReadRest, IInv, TypeOK, Calls
<1>4. c \in readers[call[c].function] \/ Alone(call[c].function, c)
  BY <1>1 DEF IInv, Locking
<1>5. TypeOK' /\ Locking' /\ Schedules'
  BY <1>1, <1>3, <1>4, SameLocks DEF ReadRest
<1>6. Reads'
  BY <1>1, <1>3 DEF ReadRest, IInv, Reads, change
<1> QED BY <1>5, <1>6 DEF IInv

LEMMA ReturnStep ==
  ASSUME IInv, NEW c \in Callers, Return(c)
  PROVE  IInv'
<1> DEFINE f == call[c].function
<1>1. call[c].stage = "charged" /\ f \in Functions
  BY DEF Return, IInv, Reads
<1>2. /\ readers' \in [Functions -> SUBSET Callers]
      /\ writer' \in [Functions -> Callers \cup {Change, Nobody}]
      /\ readers'[f] = readers[f] \ {c}
      /\ writer'[f] = IF writer[f] = c THEN Nobody ELSE writer[f]
      /\ \A g \in Functions \ {f} : readers'[g] = readers[g] /\ writer'[g] = writer[g]
  BY <1>1 DEF Return, Leave, IInv, TypeOK
<1>3. /\ call' \in [Callers -> Calls]
      /\ call'[c].function = Nobody /\ call'[c].stage = "idle"
      /\ \A d \in Callers \ {c} : call'[d] = call[d]
      /\ since' = [since EXCEPT ![c] = 0] /\ UNCHANGED change
  <2>1. Idle \in Calls /\ Idle.function = Nobody /\ Idle.stage = "idle"
    BY DEF Idle, Calls, Costs
  <2> QED BY <2>1 DEF Return, IInv, TypeOK, Calls
<1>4. TypeOK'
  <2>1. \A g \in Functions : (writer[g] = Change <=> writer'[g] = Change)
    BY <1>1, <1>2, CallerNames
  <2> QED BY <1>2, <1>3, <2>1, GasAssumption DEF IInv, TypeOK, change, Calls
<1>5. Locking'
  <2> SUFFICES ASSUME NEW d \in Callers, NEW g \in Functions
               PROVE  /\ Within(d, g)' <=> (call'[d].function = g /\ call'[d].stage # "idle")
                      /\ call'[d].stage \in {"rest", "charged"} /\ call'[d].function = g =>
                           d \in readers'[g] \/ Alone(g, d)'
    BY DEF Locking, Within, Alone
  <2>1. CASE d = c
    <3>1. ~Within(c, g)'
      <4>1. CASE g = f
        BY <4>1, <1>1, <1>2, CallerNames DEF Within
      <4>2. CASE g # f
        BY <4>2, <1>2 DEF Within, IInv, Locking
      <4> QED BY <4>1, <4>2
    <3> QED BY <2>1, <3>1, <1>3
  <2>2. CASE d # c
    <3>1. Within(d, g)' <=> Within(d, g)
      BY <2>2, <1>1, <1>2, CallerNames DEF Within
    <3>2. d \in readers[g] => d \in readers'[g]
      BY <2>2, <1>1, <1>2
    <3>3. ASSUME Alone(g, d) PROVE Alone(g, d)'
      BY <2>2, <3>3, <1>1, <1>2, CallerNames DEF Alone
    <3> QED BY <2>2, <1>3, <3>1, <3>2, <3>3 DEF IInv, Locking
  <2> QED BY <2>1, <2>2
<1>6. Schedules'
  <2>1. \A g \in Functions : (Of(g, complete)' <=> Of(g, complete))
                              /\ (Of(g, gasConfig)' <=> Of(g, gasConfig))
    BY <1>3 DEF Of, change
  <2>2. \A g \in Functions : readers[g] = {} => readers'[g] = {}
    BY <1>1, <1>2
  <2> QED BY <1>3, <2>1, <2>2 DEF IInv, Schedules, Changing, change
<1>7. Reads'
  <2>1. since'[c] <= complete'
    BY <1>3 DEF IInv, TypeOK, change
  <2> QED BY <1>3, <2>1 DEF IInv, Reads, TypeOK, change
<1> QED BY <1>4, <1>5, <1>6, <1>7 DEF IInv

LEMMA BeginStep ==
  ASSUME IInv, GasScheduleChange
  PROVE  IInv'
<1>1. /\ ~Changing /\ gasConfig' = gasConfig + 1 /\ gasConfig' \in 0..MaxSchedule
      /\ pending' = Functions /\ visiting = Nobody /\ pending = {}
      /\ UNCHANGED <<held, readers, writer, visiting, complete, call, since>>
  BY GasAssumption DEF GasScheduleChange, IInv, TypeOK, locks, Changing
<1>2. TypeOK'
  BY <1>1 DEF IInv, TypeOK
<1>3. Locking' /\ Reads'
  BY <1>1 DEF IInv, Locking, Reads, Within, Alone
<1>4. Schedules'
  <2>1. complete = gasConfig /\ gasConfig \in Int
    BY <1>1 DEF IInv, Schedules, TypeOK
  <2>2. \A f \in Functions : Of(f, complete)'
    BY <1>1, <2>1, GasAssumption DEF IInv, Schedules, Of
  <2>3. Changing'
    BY <1>1, GasAssumption DEF Changing
  <2> QED BY <1>1, <2>1, <2>2, <2>3, GasAssumption DEF Schedules, Changing
<1> QED BY <1>2, <1>3, <1>4 DEF IInv

LEMMA VisitStep ==
  ASSUME IInv, NEW f \in Functions, Visit(f)
  PROVE  IInv'
<1>1. /\ visiting = Nobody /\ f \in pending /\ writer[f] = Nobody
      /\ visiting' = f /\ pending' = pending \ {f}
      /\ writer' = [writer EXCEPT ![f] = Change]
      /\ UNCHANGED <<held, readers, gasConfig, complete, call, since>>
  BY DEF Visit
<1>2. TypeOK'
  <2>1. \A g \in Functions : (writer'[g] = Change <=> visiting' = g)
    BY <1>1, GasAssumption DEF IInv, TypeOK, Change, Nobody
  <2>2. writer' \in [Functions -> Callers \cup {Change, Nobody}]
    BY <1>1 DEF IInv, TypeOK
  <2> QED BY <1>1, <2>1, <2>2 DEF IInv, TypeOK
<1>3. Locking'
  <2>1. \A c \in Callers, g \in Functions : writer'[g] = c <=> writer[g] = c
    BY <1>1, CallerNames DEF IInv, TypeOK
  <2> QED BY <1>1, <2>1 DEF IInv, Locking, Within, Alone
<1>4. Schedules'
  <2>1. visiting' \notin pending'
    BY <1>1
  <2>2. complete' = IF Changing' THEN gasConfig' - 1 ELSE gasConfig'
    BY <1>1, GasAssumption DEF IInv, Schedules, Changing
  <2>3. ASSUME NEW g \in Functions
        PROVE  IF g \in pending' THEN Of(g, complete)'
               ELSE IF visiting' = g THEN Of(g, complete)' ELSE Of(g, gasConfig)'
    BY <1>1, GasAssumption DEF IInv, Schedules, Of
  <2> QED BY <2>1, <2>2, <2>3 DEF Schedules
<1>5. Reads'
  BY <1>1 DEF IInv, Reads
<1> QED BY <1>2, <1>3, <1>4, <1>5 DEF IInv

(* Nobody reads the costs the change writes.                                  *)
LEMMA NoReader ==
  ASSUME IInv, visiting \in Functions, readers[visiting] = {}
  PROVE  \A c \in Callers : call[c].stage \in {"rest", "charged"} => call[c].function # visiting
<1> SUFFICES ASSUME NEW c \in Callers, call[c].stage \in {"rest", "charged"},
                    call[c].function = visiting
             PROVE  FALSE
  OBVIOUS
<1>1. Alone(visiting, c)
  BY DEF IInv, Locking
<1>2. writer[visiting] = Change
  BY DEF IInv, TypeOK
<1> QED BY <1>1, <1>2, CallerNames DEF Alone

LEMMA SetOwnStep ==
  ASSUME IInv, SetOwn
  PROVE  IInv'
<1> DEFINE new == Cost(gasConfig, ChangeField[visiting])
<1>1. /\ visiting \in Functions /\ readers[visiting] = {}
      /\ held' = [held EXCEPT ![visiting].own = new]
      /\ UNCHANGED <<readers, writer, gasConfig, pending, visiting, complete, call, since>>
  BY DEF SetOwn, Given, Alone, IInv, TypeOK, locks
<1>2. new \in Costs
  BY <1>1, GasAssumption DEF IInv, TypeOK, Cost, Costs, Fields
<1>3. /\ held' \in [Functions -> [own : Costs, rest : Costs]]
      /\ held'[visiting].own = new
      /\ \A g \in Functions \ {visiting} : held'[g] = held[g]
  BY <1>1, <1>2 DEF IInv, TypeOK
<1>4. TypeOK'
  BY <1>1, <1>3 DEF IInv, TypeOK
<1>5. Locking'
  BY <1>1 DEF IInv, Locking, Within, Alone
<1>6. Schedules'
  <2>1. \A g \in Functions \ {visiting} : (Of(g, complete)' <=> Of(g, complete))
                                           /\ (Of(g, gasConfig)' <=> Of(g, gasConfig))
    BY <1>1, <1>3 DEF Of
  <2> QED BY <1>1, <1>3, <2>1 DEF IInv, Schedules, Changing
<1>7. Reads'
  <2>1. \A c \in Callers : call[c].stage \in {"rest", "charged"} => call[c].function # visiting
    BY <1>1, NoReader
  <2> QED BY <1>1, <1>3, <2>1 DEF IInv, Reads
<1> QED BY <1>4, <1>5, <1>6, <1>7 DEF IInv

LEMMA SetRestStep ==
  ASSUME IInv, SetRest
  PROVE  IInv'
<1> DEFINE new == Cost(gasConfig, Rest(visiting))
           v == visiting
<1>1. /\ v \in Functions /\ visiting # Nobody
      /\ held[v].own = Cost(gasConfig, ChangeField[v])
      /\ held' = [held EXCEPT ![v].rest = new]
      /\ writer' = [writer EXCEPT ![v] = Nobody]
      /\ visiting' = Nobody
      /\ complete' = IF pending = {} THEN gasConfig ELSE complete
      /\ UNCHANGED <<readers, gasConfig, pending, call, since>>
  BY DEF SetRest, IInv, TypeOK
<1>2. complete = gasConfig - 1 /\ {complete, gasConfig} \subseteq 0..MaxSchedule /\ v \notin pending
  BY <1>1 DEF IInv, Schedules, Changing, TypeOK
<1>3. readers[v] = {}
  <2>1. held[v].own = <<gasConfig, ChangeField[v]>>
    BY <1>1, <1>2, CostType DEF Updated
  <2>2. ~Of(v, complete)
    <3>1. Created(v, complete).own[1] = complete /\ Updated(v, complete).own[1] = complete
      BY <1>1, <1>2, CostType
    <3>2. held[v].own[1] = gasConfig
      BY <2>1
    <3>3. complete # gasConfig
      BY <1>2
    <3> QED BY <3>1, <3>2, <3>3 DEF Of
  <2> QED BY <1>1, <1>2, <2>2 DEF IInv, Schedules
<1>4. held' \in [Functions -> Prices] /\ held'[v] = Updated(v, gasConfig)
      /\ \A g \in Functions \ {v} : held'[g] = held[g]
  <2>1. Updated(v, gasConfig) \in Prices /\ Updated(v, gasConfig).rest = new
    BY <1>1, <1>2, CostType DEF Updated
  <2>2. new \in Costs
    BY <2>1 DEF Prices
  <2>3. [held[v] EXCEPT !.rest = new] = Updated(v, gasConfig)
    BY <1>1, <2>1 DEF IInv, TypeOK, Updated
  <2> QED BY <1>1, <2>1, <2>2, <2>3 DEF IInv, TypeOK, Prices
<1>5. TypeOK'
  <2>1. \A g \in Functions : (writer'[g] = Change <=> visiting' = g)
    BY <1>1, GasAssumption DEF IInv, TypeOK, Change, Nobody
  <2>2. writer' \in [Functions -> Callers \cup {Change, Nobody}]
    BY <1>1 DEF IInv, TypeOK
  <2> QED BY <1>1, <1>2, <1>4, <2>1, <2>2 DEF IInv, TypeOK, Prices
<1>6. Locking'
  <2>1. writer[v] = Change
    BY <1>1 DEF IInv, TypeOK
  <2>2. \A c \in Callers, g \in Functions : writer'[g] = c <=> writer[g] = c
    BY <1>1, <2>1, CallerNames DEF IInv, TypeOK
  <2> QED BY <1>1, <2>2 DEF IInv, Locking, Within, Alone
<1>7. Schedules'
  <2>1. ASSUME NEW g \in Functions, g = v PROVE Of(g, gasConfig)'
    BY <1>1, <1>4, <2>1 DEF Of
  <2>2. visiting' \notin pending'
    BY <1>1, GasAssumption DEF IInv, TypeOK
  <2>3. complete' = IF Changing' THEN gasConfig' - 1 ELSE gasConfig'
    BY <1>1, <1>2 DEF Changing
  <2>4. ASSUME NEW g \in pending PROVE Of(g, complete)'
    BY <1>1, <1>2, <1>4 DEF IInv, Schedules, Of, TypeOK
  <2>5. ASSUME NEW g \in Functions \ pending PROVE Of(g, gasConfig)'
    BY <1>1, <1>4, <2>1 DEF IInv, Schedules, Of
  <2> QED BY <1>1, <2>2, <2>3, <2>4, <2>5, GasAssumption DEF Schedules
<1>8. Reads'
  <2>1. \A c \in Callers : call[c].stage \in {"rest", "charged"} => call[c].function # v
    BY <1>1, <1>3, NoReader
  <2>2. complete <= complete' /\ {complete, complete'} \subseteq Int
    BY <1>1, <1>2
  <2>3. \A c \in Callers : since[c] <= complete'
    BY <2>2 DEF IInv, Reads, TypeOK
  <2> QED BY <1>1, <1>4, <2>1, <2>3 DEF IInv, Reads
<1> QED BY <1>5, <1>6, <1>7, <1>8 DEF IInv

-----------------------------------------------------------------------------
LEMMA InitInv == Init => IInv
<1> SUFFICES ASSUME Init PROVE IInv
  OBVIOUS
<1> USE GasAssumption
<1>1. TypeOK
  BY InitType
<1>2. Locking
  BY CallerNames DEF Init, Locking, Within, Alone, Idle, Nobody
<1>3. Schedules
  BY DEF Init, Schedules, Changing, Of
<1>4. Reads
  BY DEF Init, Reads, Idle
<1> QED BY <1>1, <1>2, <1>3, <1>4 DEF IInv

LEMMA StepInv == IInv /\ [Next]_vars => IInv'
<1> SUFFICES ASSUME IInv, [Next]_vars PROVE IInv'
  OBVIOUS
<1>1. CASE UNCHANGED vars
  BY <1>1 DEF vars, IInv, TypeOK, Locking, Schedules, Reads, Within, Alone, Of, Changing
<1>2. CASE \E c \in Callers, f \in Functions : Lock(c, f)
  BY <1>2, LockStep
<1>3. CASE \E c \in Callers : ReadOwn(c) \/ ReadRest(c) \/ Return(c)
  BY <1>3, ReadOwnStep, ReadRestStep, ReturnStep
<1>4. CASE GasScheduleChange \/ SetOwn \/ SetRest
  BY <1>4, BeginStep, SetOwnStep, SetRestStep
<1>5. CASE \E f \in Functions : Visit(f)
  BY <1>5, VisitStep
<1> QED BY <1>1, <1>2, <1>3, <1>4, <1>5 DEF Next

THEOREM Inductive == Spec => []IInv
<1> QED BY InitInv, StepInv, PTL DEF Spec

(* Every variable keeps its type, and the change has the lock of the function *)
(* it is at and no other.                                                     *)
THEOREM TypeCorrect == Spec => []TypeOK
<1>1. IInv => TypeOK
  BY DEF IInv
<1> QED BY <1>1, Inductive, PTL

(* The costs of a function that is not at a change come from one schedule.    *)
LEMMA ReadCosts ==
  ASSUME IInv, NEW c \in Charged
  PROVE  \E s \in complete..gasConfig : SchedulesOf(c) \subseteq {s}
<1> DEFINE f == call[c].function
<1>1. /\ c \in Callers /\ f \in Functions
      /\ call[c].own = held[f].own /\ call[c].rest = held[f].rest
      /\ c \in readers[f] \/ Alone(f, c)
  BY DEF Charged, IInv, Reads, Locking
<1>2. {complete, gasConfig} \subseteq 0..MaxSchedule /\ complete <= gasConfig
  BY GasAssumption DEF IInv, TypeOK, Schedules
<1>3. Of(f, complete) \/ Of(f, gasConfig)
  <2>1. ~(visiting = f /\ readers[f] = {})
    BY <1>1, CallerNames DEF Alone, IInv, TypeOK
  <2> QED BY <1>1, <2>1 DEF IInv, Schedules
<1>4. ASSUME NEW s \in {complete, gasConfig}, Of(f, s) PROVE SchedulesOf(c) \subseteq {s}
  <2>1. held[f].own[1] = s /\ (held[f].rest = NoCost \/ held[f].rest[1] = s)
    BY <1>1, <1>2, <1>4, CostType DEF Of
  <2> QED BY <1>1, <2>1 DEF SchedulesOf
<1> QED BY <1>2, <1>3, <1>4

(* What a call charges comes from one schedule.                               *)
THEOREM OneScheduleAlways == Spec => []OneSchedule
<1>1. IInv => OneSchedule
  <2> SUFFICES ASSUME IInv, NEW c \in Charged PROVE Cardinality(SchedulesOf(c)) <= 1
    BY DEF OneSchedule
  <2>1. PICK s \in complete..gasConfig : SchedulesOf(c) \subseteq {s}
    BY ReadCosts
  <2>2. IsFiniteSet({s}) /\ Cardinality({s}) = 1
    BY FS_Singleton
  <2>3. Cardinality(SchedulesOf(c)) <= Cardinality({s})
    BY <2>1, <2>2, FS_Subset
  <2> QED BY <2>2, <2>3
<1> QED BY <1>1, Inductive, PTL

(* No call charges by a schedule older than the last one that all functions   *)
(* had when it began.                                                         *)
THEOREM NeverStaleAlways == Spec => []NeverStale
<1>1. IInv => NeverStale
  <2> SUFFICES ASSUME IInv, NEW c \in Charged, NEW s \in SchedulesOf(c)
               PROVE  since[c] <= s /\ s <= gasConfig
    BY DEF NeverStale
  <2>1. s \in complete..gasConfig
    BY ReadCosts
  <2>2. since[c] <= complete /\ since[c] \in Int /\ {complete, gasConfig} \subseteq Int
    BY DEF IInv, Reads, TypeOK, Charged
  <2> QED BY <2>1, <2>2
<1> QED BY <1>1, Inductive, PTL

(* Two nodes of one schedule charge the same for every function whose costs   *)
(* at creation are the fields a change gives it.                              *)
SameFields ==
  \A f \in Functions : ChangeField[f] = CreationField[f] /\ Rest(f) = RestAtCreation(f)

THEOREM NodesAgreeAlways ==
  ASSUME SameFields
  PROVE  Spec => []NodesAgree
<1>1. IInv => NodesAgree
  <2> SUFFICES ASSUME IInv, ~Changing, NEW f \in Functions
               PROVE  held[f] = Created(f, gasConfig)
    BY DEF NodesAgree
  <2>1. Of(f, gasConfig)
    BY GasAssumption DEF IInv, Schedules, Changing
  <2> QED BY <2>1 DEF Of, Created, Updated, SameFields
<1> QED BY <1>1, Inductive, PTL

(* A call charges by one schedule that is not stale, in every reachable state. *)
THEOREM ChargesAlwaysCurrent == Spec => []ChargesAreCurrent
<1>1. TypeOK /\ OneSchedule /\ NeverStale => ChargesAreCurrent
  BY DEF ChargesAreCurrent
<1> QED BY <1>1, TypeCorrect, OneScheduleAlways, NeverStaleAlways, PTL
=============================================================================
