----------------------------- MODULE ESDTLedger -----------------------------
(***************************************************************************)
(* The fungible ESDT functions over the shards of one network, for one     *)
(* token: transfer, local mint and burn, burn, freeze / wipe, the global   *)
(* settings, the roles and the transfer-role addresses.                    *)
(*                                                                         *)
(* A built-in function runs on one shard, with the accounts of that shard  *)
(* only: acntSnd (acntDst) is nil when the caller (recipient) lives in     *)
(* another shard.  A transfer between shards is two calls of the same      *)
(* ProcessBuiltinFunction, joined by a message the node carries; when the  *)
(* second call fails the node sends the value back with                    *)
(* ReturnCallAfterError set.  A call that returns an error leaves no trace *)
(* (the node reverts to its snapshot), so each action is a call that       *)
(* succeeds, or a delivery together with the node's answer to its failure. *)
(*                                                                         *)
(* Gas, logs, byte lengths and the encoding of arguments are left out.     *)
(***************************************************************************)
EXTENDS Amounts

CONSTANTS
    Accounts,            \* user accounts and contracts
    ESDTSC,              \* the ESDT system contract, on the metachain
    Shards,
    ShardOf,             \* [Accounts -> Shards], shardCoordinator.ComputeId
    Contracts,           \* the accounts that are smart contracts
    NonPayable,          \* the contracts for which IsPayable is false
    Slots,               \* places for messages in flight: bounds their number
    NoMessage,
    Values,              \* amounts a call may carry
    MaxSupply,           \* bound on what is ever minted
    MaxRoleCopies,       \* bound on how often one role is appended
    MaxTransferAddresses,\* maxNumAddresses of esdtTransferAddress
    InitRoles,           \* [Accounts -> SUBSET Roles], set when the token was set up
    InitSettings,        \* settings of the token on every shard at the start
    Toggled,             \* settings the ESDT contract may change later
    Managed,             \* accounts it may freeze, wipe, or whose roles it changes
    Screened,            \* accounts whose DRWA verdict may change
    DRWAEnforcement,     \* DRWAEnforcementFlag, for a regulated token
    GlobalMintBurn       \* GlobalMintBurnFlag: ESDTBurn is active

Settings == {"Paused", "LimitedTransfer", "BurnRoleForAll"}
Roles == {"ESDTRoleLocalMint", "ESDTRoleLocalBurn", "ESDTRoleTransfer"}
Owners == Accounts \cup {ESDTSC}

Messages == [from: Owners, to: Owners, value: Nat, call: BOOLEAN, ret: BOOLEAN]

ASSUME LedgerAssumption ==
    /\ IsFiniteSet(Accounts) /\ IsFiniteSet(Slots)
    /\ ESDTSC \notin Accounts
    /\ ShardOf \in [Accounts -> Shards]
    /\ NonPayable \subseteq Contracts /\ Contracts \subseteq Accounts
    /\ NoMessage \notin Messages
    /\ Values \subseteq Nat \ {0}
    /\ MaxSupply \in Nat /\ MaxRoleCopies \in Nat /\ MaxTransferAddresses \in Nat
    /\ InitRoles \in [Accounts -> SUBSET Roles]
    /\ InitSettings \subseteq Settings /\ Toggled \subseteq Settings
    /\ Managed \subseteq Accounts /\ Screened \subseteq Accounts
    /\ DRWAEnforcement \in BOOLEAN /\ GlobalMintBurn \in BOOLEAN

VARIABLES
    balance,   \* Value of the token's record under each account
    frozen,    \* the Frozen bit of its Properties; no record = 0 and not frozen
    roles,     \* how many times each role is in the account's role list
    settings,  \* per shard: bits set in the system account's global metadata
    transferAddresses, \* per shard: addresses listed on the system account
    denied,    \* the accounts the DRWA gate refuses, as sender and as receiver
    inflight,  \* messages between shards
    minted, burned, wiped, stranded \* running totals, to account for every unit

recorded == <<balance, frozen>>
governance == <<roles, settings, transferAddresses>>
totals == <<minted, burned, wiped, stranded>>
vars == <<recorded, governance, denied, inflight, totals>>

Init ==
    /\ balance = [a \in Accounts |-> 0]
    /\ frozen = [a \in Accounts |-> FALSE]
    /\ roles = [a \in Accounts |-> [r \in Roles |-> IF r \in InitRoles[a] THEN 1 ELSE 0]]
    /\ settings = [s \in Shards |-> InitSettings]
    /\ transferAddresses = [s \in Shards |-> {}]
    /\ denied = [side \in {"sender", "receiver"} |-> {}]
    /\ inflight = [i \in Slots |-> NoMessage]
    /\ minted = 0 /\ burned = 0 /\ wiped = 0 /\ stranded = 0

-----------------------------------------------------------------------------
(* What the handlers check *)

IsSet(s, setting) == setting \in settings[s]

HasRole(a, r) == roles[a][r] > 0

(* Faulty: the pause is forgotten. *)
MayChange_NoPause(a, ret) == ret \/ ~frozen[a]

(* Faulty: a return is checked like any other credit. *)
MayChange_OnReturn(a, ret) == ~frozen[a] /\ ~IsSet(ShardOf[a], "Paused")

(* checkFrozeAndPause: nothing to check on the way back from an error. *)
MayChange(a, ret) ==
    \/ ret
    \/ ~frozen[a] /\ ~IsSet(ShardOf[a], "Paused")

(* Faulty: a destination whose account is not on this shard is let through. *)
MayLeave_NilDestination(a, b) ==
    \/ ~IsSet(ShardOf[a], "LimitedTransfer")
    \/ {a, b} \cap transferAddresses[ShardOf[a]] # {}
    \/ HasRole(a, "ESDTRoleTransfer")
    \/ ShardOf[b] # ShardOf[a]
    \/ HasRole(b, "ESDTRoleTransfer")

(* checkIfTransferCanHappenWithLimitedTransfer, on the sender's shard; the
   destination's role is readable only when it lives on the same shard. *)
MayLeave(a, b) ==
    \/ ~IsSet(ShardOf[a], "LimitedTransfer")
    \/ {a, b} \cap transferAddresses[ShardOf[a]] # {}
    \/ HasRole(a, "ESDTRoleTransfer")
    \/ ShardOf[b] = ShardOf[a] /\ HasRole(b, "ESDTRoleTransfer")

(* evaluateDRWASenderTransfer and evaluateDRWAReceiverTransfer *)
GateAllows(side, a) == DRWAEnforcement => a \notin denied[side]

(* payableCheck.CheckPayable; call: a function name follows the arguments, or the
   type of the call is one that is not asked. *)
CheckPayable(m) ==
    \/ m.ret
    \/ m.from = ESDTSC
    \/ m.call
    \/ m.to \notin NonPayable

(* payableCheck.DetermineIsSCCallAfter. A refund that is a callback may call the
   contract as well: how that ends is left out. *)
IsSCCallAfter(m) == m.call /\ ~m.ret /\ m.to \in Contracts

Changed(a, delta) == [balance EXCEPT ![a] = @ + delta]

Free(i) == inflight[i] = NoMessage
-----------------------------------------------------------------------------
(* Calls by users and contracts *)

(* The call of ESDTTransfer when both accounts are on the shard. *)
TransferInShard(a, b, v, call) ==
    LET m == [from |-> a, to |-> b, value |-> v, call |-> call, ret |-> FALSE]
    IN  /\ ShardOf[a] = ShardOf[b]
        /\ MayLeave(a, b)
        /\ GateAllows("sender", a) /\ GateAllows("receiver", b)
        /\ MayChange(a, FALSE) /\ balance[a] >= v
        /\ CheckPayable(m)
        /\ MayChange(b, FALSE)
        /\ balance' = [Changed(a, -v) EXCEPT ![b] = @ + v]
        /\ UNCHANGED <<frozen, governance, denied, inflight, totals>>

(* The call on the sender's shard when the recipient lives elsewhere: the
   receiver's checks wait for the other shard. *)
TransferOut(a, b, v, call, i) ==
    /\ ShardOf[a] # ShardOf[b]
    /\ Free(i)
    /\ MayLeave(a, b)
    /\ GateAllows("sender", a)
    /\ MayChange(a, FALSE) /\ balance[a] >= v
    /\ balance' = Changed(a, -v)
    /\ inflight' = [inflight EXCEPT ![i] =
            [from |-> a, to |-> b, value |-> v, call |-> call, ret |-> FALSE]]
    /\ UNCHANGED <<frozen, governance, denied, totals>>

LocalMint(a, v) ==
    /\ minted + v <= MaxSupply
    /\ HasRole(a, "ESDTRoleLocalMint")
    /\ MayChange(a, FALSE)
    /\ balance' = Changed(a, v)
    /\ minted' = minted + v
    /\ UNCHANGED <<frozen, governance, denied, inflight, burned, wiped, stranded>>

MayBurn(a) == IsSet(ShardOf[a], "BurnRoleForAll") \/ HasRole(a, "ESDTRoleLocalBurn")

(* addToESDTBalance with a negative value, by one of the two burn functions. *)
Burn(a, v) ==
    /\ MayChange(a, FALSE) /\ balance[a] >= v
    /\ balance' = Changed(a, -v)
    /\ burned' = burned + v
    /\ UNCHANGED <<frozen, governance, denied, inflight, minted, wiped, stranded>>

LocalBurn(a, v) == MayBurn(a) /\ Burn(a, v)

ESDTBurn(a, v) == GlobalMintBurn /\ Burn(a, v)

-----------------------------------------------------------------------------
(* The call of ESDTTransfer on the recipient's shard, acntSnd nil *)

(* With the gate the recipient's half asks for the gas of its reads, of a refund
   it does not. *)
MayLackGas == DRWAEnforcement

(* Faulty: a return skips the gate as it skips the freeze and the pause. *)
Accepts_UngatedReturn(m) ==
    /\ m.to \in Accounts
    /\ m.ret \/ GateAllows("receiver", m.to)
    /\ CheckPayable(m)
    /\ MayChange(m.to, m.ret)

(* No account of a shard is ESDTSC: a transfer to the metachain is refused. *)
Accepts(m) ==
    /\ m.to \in Accounts
    /\ GateAllows("receiver", m.to)
    /\ CheckPayable(m)
    /\ MayChange(m.to, m.ret)

(* Faulty: the message is not taken off, and is credited again. *)
Deliver_Twice(i) ==
    LET m == inflight[i]
    IN  /\ ~Free(i) /\ Accepts(m)
        /\ balance' = Changed(m.to, m.value)
        /\ UNCHANGED <<inflight, frozen, governance, denied, totals>>

Deliver(i) ==
    LET m == inflight[i]
    IN  /\ ~Free(i) /\ Accepts(m)
        /\ balance' = Changed(m.to, m.value)
        /\ inflight' = [inflight EXCEPT ![i] = NoMessage]
        /\ UNCHANGED <<frozen, governance, denied, totals>>

(* Faulty: the value comes back to the account that refused it. *)
SendBack_ToRecipient(i) ==
    LET m == inflight[i]
    IN  /\ ~Free(i) /\ ~m.ret
        /\ Accepts(m) => IsSCCallAfter(m) \/ MayLackGas
        /\ inflight' = [inflight EXCEPT ![i].ret = TRUE, ![i].call = FALSE]
        /\ UNCHANGED <<recorded, governance, denied, totals>>

(* The delivery fails, in the function, for too little gas too, or in the contract
   it calls after the credit; the node reverts it and sends the value back. *)
SendBack(i) ==
    LET m == inflight[i]
    IN  /\ ~Free(i) /\ ~m.ret
        /\ Accepts(m) => IsSCCallAfter(m) \/ MayLackGas
        /\ inflight' = [inflight EXCEPT ![i] =
                [from |-> m.to, to |-> m.from, value |-> m.value,
                 call |-> FALSE, ret |-> TRUE]]
        /\ UNCHANGED <<recorded, governance, denied, totals>>

(* A return is refused in its turn: nothing in the code takes the value again. *)
Strand(i) ==
    LET m == inflight[i]
    IN  /\ ~Free(i) /\ m.ret /\ ~Accepts(m)
        /\ inflight' = [inflight EXCEPT ![i] = NoMessage]
        /\ stranded' = stranded + m.value
        /\ UNCHANGED <<recorded, governance, denied, minted, burned, wiped>>

-----------------------------------------------------------------------------
(* Calls by the ESDT system contract, and what happens outside the code *)

(* The contract mints on the metachain and sends the units with ESDTTransfer. *)
Issue(a, v, i) ==
    /\ minted + v <= MaxSupply
    /\ Free(i)
    /\ minted' = minted + v
    /\ inflight' = [inflight EXCEPT ![i] =
            [from |-> ESDTSC, to |-> a, value |-> v, call |-> FALSE, ret |-> FALSE]]
    /\ UNCHANGED <<recorded, governance, denied, burned, wiped, stranded>>

ToggleFreeze(a, freeze) ==
    /\ frozen' = [frozen EXCEPT ![a] = freeze]
    /\ UNCHANGED <<balance, governance, denied, inflight, totals>>

(* The record is deleted, and its Frozen bit with it. *)
Wipe(a) ==
    /\ frozen[a]
    /\ balance' = [balance EXCEPT ![a] = 0]
    /\ frozen' = [frozen EXCEPT ![a] = FALSE]
    /\ wiped' = wiped + balance[a]
    /\ UNCHANGED <<governance, denied, inflight, minted, burned, stranded>>

ToggleSetting(s, setting, set) ==
    /\ settings' = [settings EXCEPT ![s] = IF set THEN @ \cup {setting} ELSE @ \ {setting}]
    /\ UNCHANGED <<recorded, roles, transferAddresses, denied, inflight, totals>>

(* A role is appended even when the list holds it already, and unsetting it
   takes one copy away. *)
SetRole(a, r) ==
    /\ roles[a][r] < MaxRoleCopies
    /\ roles' = [roles EXCEPT ![a][r] = @ + 1]
    /\ UNCHANGED <<recorded, settings, transferAddresses, denied, inflight, totals>>

UnSetRole(a, r) ==
    /\ roles[a][r] > 0
    /\ roles' = [roles EXCEPT ![a][r] = @ - 1]
    /\ UNCHANGED <<recorded, settings, transferAddresses, denied, inflight, totals>>

SetTransferAddresses(s, new) ==
    /\ Cardinality(transferAddresses[s] \cup new) <= MaxTransferAddresses
    /\ transferAddresses' = [transferAddresses EXCEPT ![s] = @ \cup new]
    /\ UNCHANGED <<recorded, roles, settings, denied, inflight, totals>>

DeleteTransferAddresses(s, old) ==
    /\ transferAddresses' = [transferAddresses EXCEPT ![s] = @ \ old]
    /\ UNCHANGED <<recorded, roles, settings, denied, inflight, totals>>

(* Policies and holder mirrors are written by the node, and rounds pass. *)
NewVerdict(side, a) ==
    /\ denied' = [denied EXCEPT ![side] =
            IF a \in @ THEN @ \ {a} ELSE @ \cup {a}]
    /\ UNCHANGED <<recorded, governance, inflight, totals>>

-----------------------------------------------------------------------------
UserCall ==
    \E a \in Accounts, v \in Values :
        \/ LocalMint(a, v)
        \/ LocalBurn(a, v)
        \/ ESDTBurn(a, v)
        \/ \E b \in Accounts, call \in BOOLEAN :
            \/ TransferInShard(a, b, v, call)
            \/ \E i \in Slots : TransferOut(a, b, v, call, i)

Delivery(i) == Deliver(i) \/ SendBack(i) \/ Strand(i)

SystemCall ==
    \/ \E a \in Accounts, v \in Values, i \in Slots : Issue(a, v, i)
    \/ \E a \in Managed :
        \/ \E freeze \in BOOLEAN : ToggleFreeze(a, freeze)
        \/ Wipe(a)
        \/ \E r \in Roles : SetRole(a, r) \/ UnSetRole(a, r)
    \/ \E s \in Shards :
        \/ \E setting \in Toggled, set \in BOOLEAN : ToggleSetting(s, setting, set)
        \/ \E addresses \in (SUBSET Managed) \ {{}} :
            \/ SetTransferAddresses(s, addresses)
            \/ DeleteTransferAddresses(s, addresses)

Next ==
    \/ UserCall
    \/ SystemCall
    \/ \E i \in Slots : Delivery(i)
    \/ \E side \in {"sender", "receiver"}, a \in Screened : NewVerdict(side, a)

Spec == Init /\ [][Next]_vars

-----------------------------------------------------------------------------
(* Properties *)

TypeOK ==
    /\ balance \in [Accounts -> Nat]
    /\ frozen \in [Accounts -> BOOLEAN]
    /\ roles \in [Accounts -> [Roles -> Nat]]
    /\ settings \in [Shards -> SUBSET Settings]
    /\ transferAddresses \in [Shards -> SUBSET Accounts]
    /\ denied \in [{"sender", "receiver"} -> SUBSET Accounts]
    /\ inflight \in [Slots -> Messages \cup {NoMessage}]
    /\ minted \in Nat /\ burned \in Nat /\ wiped \in Nat /\ stranded \in Nat

ValueInFlight == [i \in Slots |-> IF Free(i) THEN 0 ELSE inflight[i].value]

(* Every unit ever minted is in exactly one place: under an account, in one
   message, or in one of the ways out.  It relates the debit on one shard, the
   message, and the credit or the refund on another. *)
SupplyConserved ==
    minted = Total(balance) + Total(ValueInFlight) + burned + wiped + stranded

(* No balance falls below zero, every record and message keeps its type, and every
   unit is accounted for, wherever a transfer, a refund or a burn is on its way. *)
AmountsHold == TypeOK /\ SupplyConserved

Locked(a) == frozen[a] \/ IsSet(ShardOf[a], "Paused")

(* While an account is frozen, or its shard has the token paused, its balance
   changes in two ways only: the return of its own failed transfer is credited,
   in full, or the account is wiped (checkFrozeAndPause, wipeIfApplicable). *)
LockedHoldingsKept ==
    [][\A a \in Accounts :
            Locked(a) /\ balance'[a] # balance[a] =>
                \/ frozen[a] /\ balance'[a] = 0 /\ wiped' = wiped + balance[a]
                \/ \E i \in Slots :
                        /\ inflight[i] # NoMessage /\ inflight'[i] = NoMessage
                        /\ inflight[i].ret /\ inflight[i].to = a
                        /\ balance'[a] = balance[a] + inflight[i].value]_vars

PaidBy(b) ==
    \/ balance'[b] > balance[b]
    \/ \E i \in Slots :
            inflight'[i] \notin {inflight[i], NoMessage} /\ inflight'[i].to = b

Authorised(a, s) ==
    \/ a \in transferAddresses[s]
    \/ ShardOf[a] = s /\ HasRole(a, "ESDTRoleTransfer")

(* While a token is limited on the payer's shard, units that leave an account
   without being burned or wiped go from or to an account that this shard knows
   to have the transfer role; a role in another shard does not count unless the
   address is listed here (checkIfTransferCanHappenWithLimitedTransfer). *)
LimitedMovesAuthorised ==
    [][\A a \in Accounts :
            /\ IsSet(ShardOf[a], "LimitedTransfer")
            /\ balance'[a] < balance[a]
            /\ burned' = burned /\ wiped' = wiped
            => \E b \in Accounts :
                    PaidBy(b) /\ \E x \in {a, b} : Authorised(x, ShardOf[a])]_vars

(* Under DRWA enforcement an account the gate refuses as a receiver gains units
   by its own mint only: neither a transfer in the shard, nor a delivery sent
   before the refusal, nor a refund reaches it (evaluateDRWAReceiverTransfer
   takes no account of ReturnCallAfterError, and local mint calls no gate). *)
DeniedReceiverOnlyMints ==
    [][DRWAEnforcement =>
        \A a \in denied["receiver"] :
            balance'[a] > balance[a] => minted' > minted]_vars

(* A refund to an account is refused for one reason only, the DRWA gate: no
   freeze, pause or payability stands in the way of the value coming back
   (checkFrozeAndPause and mustVerifyPayable with ReturnCallAfterError). *)
RefundsRefusedOnlyByGate ==
    [][stranded' # stranded =>
        \E i \in Slots :
            /\ inflight[i] # NoMessage /\ inflight'[i] = NoMessage
            /\ inflight[i].ret
            /\ \/ inflight[i].to = ESDTSC
               \/ DRWAEnforcement /\ inflight[i].to \in denied["receiver"]]_vars

(* Units in flight still belong to the account that sent them. *)
OwnerInFlight(i) == IF inflight[i].ret THEN inflight[i].to ELSE inflight[i].from

InFlightOf(o) ==
    [i \in Slots |-> IF Free(i) \/ OwnerInFlight(i) # o THEN 0 ELSE inflight[i].value]

Held(o) == (IF o \in Accounts THEN balance[o] ELSE 0) + Total(InFlightOf(o))

Book == INSTANCE TokenBook WITH
    Holders <- Accounts,
    Creators <- {},
    Opening <- [o \in Owners |-> 0],
    MaxIssue <- MaxSupply,
    owned <- [o \in Owners |-> Held(o)],
    issued <- minted,
    retired <- burned + wiped + stranded

(* The sharded ledger implements the book in which a transfer is atomic: the
   move takes place when the recipient's shard credits it, and a failed
   transfer never moves anything. *)
BookSpec == Book!Spec
=============================================================================
