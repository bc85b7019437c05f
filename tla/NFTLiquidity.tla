---------------------------- MODULE NFTLiquidity ----------------------------
(***************************************************************************)
(* One nonce of a semi-fungible token: quantities under accounts, and, on  *)
(* the system account of each shard, one entry with the metadata of the    *)
(* nonce and its liquidity, the quantity that is on this shard.  The entry *)
(* is deleted when the liquidity comes down to zero.                       *)
(*                                                                         *)
(* Metadata is what it is, or missing: its content and versions are not    *)
(* modelled, except for whether it was ever updated, which the Reserved    *)
(* field of the entry tells.  What only refuses a call and reads nothing   *)
(* of this state (pause, roles, limited transfer, the DRWA gate,           *)
(* payability, a frozen collection) is left out: any message may be        *)
(* refused.  A call that fails leaves no trace.                            *)
(***************************************************************************)
EXTENDS Amounts

CONSTANTS
    Accounts,
    Shards,
    ShardOf,       \* [Accounts -> Shards]
    Creator,       \* the account that creates the nonce and adds to it
    Updaters,      \* accounts with a role that changes metadata
    Dynamic,       \* the type is DynamicSFT, not SemiFungible
    OldQuantity,   \* units held since before metadata moved to the system account
    Slots,
    NoMessage,
    NoEntry,
    Values,        \* amounts a call may carry
    MaxSupply,
    Managed        \* accounts the ESDT contract may freeze and wipe

(* Reserved is nil, <<1>>, or a version of the metadata. *)
ReservedValues == {"none", "counted", "updated"}

Entries == [value: Nat, reserved: ReservedValues]

Messages == [from: Accounts, to: Accounts, value: Nat, reserved: ReservedValues, ret: BOOLEAN]

ASSUME LiquidityAssumption ==
    /\ IsFiniteSet(Accounts) /\ IsFiniteSet(Slots)
    /\ ShardOf \in [Accounts -> Shards]
    /\ Creator \in Accounts /\ Updaters \subseteq Accounts /\ Managed \subseteq Accounts
    /\ Dynamic \in BOOLEAN
    /\ OldQuantity \in [Accounts -> Nat]
    /\ NoMessage \notin Messages /\ NoEntry \notin Entries
    /\ Values \subseteq Nat /\ MaxSupply \in Nat

VARIABLES
    quantity,  \* Value of the nonce's record under each account
    frozen,    \* the Frozen bit of its Properties
    old,       \* the record still has the metadata in it
    entry,     \* per shard: the record on the system account
    inflight,
    minted, burned, wiped, stranded

totals == <<minted, burned, wiped, stranded>>
vars == <<quantity, frozen, old, entry, inflight, totals>>

Init ==
    /\ quantity = OldQuantity
    /\ frozen = [a \in Accounts |-> FALSE]
    /\ old = [a \in Accounts |-> OldQuantity[a] > 0]
    /\ entry = [s \in Shards |-> NoEntry]
    /\ inflight = [i \in Slots |-> NoMessage]
    /\ minted = Total(OldQuantity)
    /\ burned = 0 /\ wiped = 0 /\ stranded = 0

-----------------------------------------------------------------------------
(* The storage handler *)

EntryOf(a) == entry[ShardOf[a]]

(* GetESDTNFTTokenOnSender: the record has TokenMetaData after reading. *)
HasMetaData(a) == old[a] \/ EntryOf(a) # NoEntry

(* ... and this Reserved, which only a dynamic type takes from the entry. *)
ReservedOf(a) == IF Dynamic /\ EntryOf(a) # NoEntry THEN EntryOf(a).reserved ELSE "none"

(* getLatestMetaData at the destination b, with e on its shard.  A frozen record
   without quantity has no type: its metadata is not looked up. *)
MergedReserved(e, b, reserved) ==
    LET lookedUp == Dynamic /\ e # NoEntry /\ (quantity[b] > 0 \/ ~frozen[b])
    IN  IF lookedUp /\ e.reserved = "updated" THEN "updated" ELSE reserved

(* Reserved of an entry written for a holder whose record is old (wasOld). *)
FreshReserved(reserved, wasOld) ==
    IF Dynamic /\ reserved # "none" THEN reserved
    ELSE IF wasOld THEN "none" ELSE "counted"

(* saveESDTMetaDataToSystemAccount: the entry after a save.  Writing an entry
   again puts its liquidity back to zero. *)
Saved(e, hasMetaData, reserved, mustUpdateAll, wasOld) ==
    IF ~hasMetaData THEN e
    ELSE IF e = NoEntry THEN [value |-> 0, reserved |-> FreshReserved(reserved, wasOld)]
    ELSE IF mustUpdateAll \/ reserved = "updated"
         THEN [value |-> 0, reserved |-> IF Dynamic THEN reserved ELSE "none"]
    ELSE e

(* AddToLiquiditySystemAcc returns no error. *)
LiquidityAllows(e, delta) ==
    /\ e # NoEntry
    /\ \/ e.reserved = "none"
       \/ e.value = 0 /\ delta < 0
       \/ e.value + delta >= 0

(* Faulty: the entry goes whenever something is taken away. *)
LiquidityAdded_Eager(e, delta, keep) ==
    IF e.reserved = "none" THEN e
    ELSE IF delta < 0 /\ ~keep THEN NoEntry
    ELSE [e EXCEPT !.value = @ + delta]

(* Faulty: what was updated is treated like what is old. *)
LiquidityAdded_Forgets(e, delta, keep) ==
    IF e.reserved = "none" THEN e
    ELSE IF e.value = 0 /\ delta < 0 THEN [e EXCEPT !.reserved = "none"]
    ELSE IF e.value + delta = 0 /\ ~keep THEN NoEntry
    ELSE [e EXCEPT !.value = @ + delta]

(* The entry after AddToLiquiditySystemAcc. *)
LiquidityAdded(e, delta, keep) ==
    IF e.reserved = "none" THEN e
    ELSE IF e.value = 0 /\ delta < 0
         THEN [e EXCEPT !.reserved = IF @ = "updated" THEN @ ELSE "none"]
    ELSE IF e.value + delta = 0 /\ ~keep THEN NoEntry
    ELSE [e EXCEPT !.value = @ + delta]

(* SaveESDTNFTToken for a, who has v more than before (fewer when v < 0), then
   AddToLiquiditySystemAcc with the same v. *)
SaveAndCount(a, hasMetaData, reserved, mustUpdateAll, v, keep) ==
    LET s == ShardOf[a]
        e == Saved(entry[s], hasMetaData, reserved, mustUpdateAll, old[a])
    IN  /\ LiquidityAllows(e, v)
        /\ entry' = [entry EXCEPT ![s] = LiquidityAdded(e, v, keep)]
        /\ quantity' = [quantity EXCEPT ![a] = @ + v]
        /\ old' = [old EXCEPT ![a] = FALSE]

Free(i) == inflight[i] = NoMessage

(* Faulty: nobody asks whether the account is frozen. *)
MayUse_Frozen(a) == quantity[a] > 0

(* checkFrozenPauseProperties and GetESDTNFTTokenOnSender *)
MayUse(a) == quantity[a] > 0 /\ ~frozen[a]
-----------------------------------------------------------------------------
(* Calls by users *)

(* What is saved is made from the arguments of the call: nobody reads what the
   creator's record of this nonce says, and its Frozen bit is written over.  An
   entry that ESDTMetaDataRecreate made before is written over too. *)
Create(v) ==
    /\ minted = 0 /\ v > 0 /\ v <= MaxSupply
    /\ SaveAndCount(Creator, TRUE, "none", TRUE, v, FALSE)
    /\ minted' = v
    /\ frozen' = [frozen EXCEPT ![Creator] = FALSE]
    /\ UNCHANGED <<inflight, burned, wiped, stranded>>

AddQuantity(v) ==
    /\ minted + v <= MaxSupply
    /\ MayUse(Creator)
    /\ SaveAndCount(Creator, HasMetaData(Creator), ReservedOf(Creator), FALSE, v, FALSE)
    /\ minted' = minted + v
    /\ UNCHANGED <<frozen, inflight, burned, wiped, stranded>>

Burn(a, v) ==
    /\ MayUse(a) /\ quantity[a] >= v
    /\ SaveAndCount(a, HasMetaData(a), ReservedOf(a), FALSE, -v, FALSE)
    /\ burned' = burned + v
    /\ UNCHANGED <<frozen, inflight, minted, wiped, stranded>>

(* processNFTTransferOnSenderShard with the destination on the same shard: two
   saves, and the liquidity stays as it is. *)
TransferInShard(a, b, v) ==
    LET s == ShardOf[a]
        debited == Saved(entry[s], HasMetaData(a), ReservedOf(a), FALSE, old[a])
        reserved == MergedReserved(debited, b, ReservedOf(a))
    IN  /\ a # b /\ ShardOf[b] = s
        /\ v > 0 /\ quantity[a] >= v
        /\ ~frozen[a] /\ ~frozen[b]
        /\ entry' = [entry EXCEPT ![s] =
                        Saved(debited, HasMetaData(a), reserved, FALSE, old[b])]
        /\ quantity' = [quantity EXCEPT ![a] = @ - v, ![b] = @ + v]
        /\ old' = [old EXCEPT ![a] = FALSE, ![b] = FALSE]
        /\ UNCHANGED <<frozen, inflight, totals>>

(* ... and on another shard. *)
TransferOut(a, b, v, i) ==
    /\ ShardOf[a] # ShardOf[b] /\ Free(i)
    /\ v > 0 /\ quantity[a] >= v /\ ~frozen[a]
    /\ SaveAndCount(a, HasMetaData(a), ReservedOf(a), FALSE, -v, Dynamic \/ a \in Updaters)
    /\ inflight' = [inflight EXCEPT ![i] =
            [from |-> a, to |-> b, value |-> v, reserved |-> ReservedOf(a), ret |-> FALSE]]
    /\ UNCHANGED <<frozen, totals>>

(* ESDTNFTUpdateAttributes, ESDTNFTAddURI: the holder writes the metadata. *)
UpdateMetaData(a) ==
    /\ a \in Updaters /\ MayUse(a) /\ HasMetaData(a)
    /\ entry' = [entry EXCEPT ![ShardOf[a]] = Saved(@, TRUE, "updated", TRUE, old[a])]
    /\ old' = [old EXCEPT ![a] = FALSE]
    /\ UNCHANGED <<quantity, frozen, inflight, totals>>

(* ESDTMetaDataRecreate and its kin, for a dynamic type: the entry of the
   caller's shard is written, or made, whoever holds the units, and also before
   the nonce is created. *)
RecreateMetaData(a) ==
    /\ Dynamic /\ a \in Updaters
    /\ entry' = [entry EXCEPT ![ShardOf[a]] =
            [value |-> IF @ = NoEntry THEN 0 ELSE @.value, reserved |-> "updated"]]
    /\ UNCHANGED <<quantity, frozen, old, inflight, totals>>
-----------------------------------------------------------------------------
(* What the node does with messages *)

(* Faulty: the message is not taken off. *)
Deliver_Twice(i) ==
    LET m == inflight[i]
    IN  /\ ~Free(i)
        /\ m.ret \/ ~frozen[m.to]
        /\ SaveAndCount(m.to, TRUE, MergedReserved(EntryOf(m.to), m.to, m.reserved),
                        FALSE, m.value, FALSE)
        /\ UNCHANGED <<frozen, inflight, totals>>

(* addNFTToDestination: the record takes the Properties of the message, which
   are those of an account that was not frozen. *)
Deliver(i) ==
    LET m == inflight[i]
    IN  /\ ~Free(i)
        /\ m.ret \/ ~frozen[m.to]
        /\ SaveAndCount(m.to, TRUE, MergedReserved(EntryOf(m.to), m.to, m.reserved),
                        FALSE, m.value, FALSE)
        /\ frozen' = [frozen EXCEPT ![m.to] = FALSE]
        /\ inflight' = [inflight EXCEPT ![i] = NoMessage]
        /\ UNCHANGED totals

SendBack(i) ==
    LET m == inflight[i]
    IN  /\ ~Free(i) /\ ~m.ret
        /\ inflight' = [inflight EXCEPT ![i] =
                [m EXCEPT !.from = m.to, !.to = m.from, !.ret = TRUE]]
        /\ UNCHANGED <<quantity, frozen, old, entry, totals>>

(* A return is refused by the DRWA gate. *)
Strand(i) ==
    /\ ~Free(i) /\ inflight[i].ret
    /\ inflight' = [inflight EXCEPT ![i] = NoMessage]
    /\ stranded' = stranded + inflight[i].value
    /\ UNCHANGED <<quantity, frozen, old, entry, minted, burned, wiped>>
-----------------------------------------------------------------------------
(* Calls by the ESDT system contract *)

ToggleFreeze(a, freeze) ==
    /\ frozen' = [frozen EXCEPT ![a] = freeze]
    /\ UNCHANGED <<quantity, old, entry, inflight, totals>>

(* Faulty: the units go and stay in the liquidity, as before
   WipeSingleNFTLiquidityDecreaseFlag. *)
Wipe_NotCounted(a) ==
    /\ frozen[a]
    /\ quantity' = [quantity EXCEPT ![a] = 0]
    /\ wiped' = wiped + quantity[a]
    /\ frozen' = [frozen EXCEPT ![a] = FALSE]
    /\ old' = [old EXCEPT ![a] = FALSE]
    /\ UNCHANGED <<entry, inflight, minted, burned, stranded>>

(* The record is deleted; nothing is saved before the liquidity is counted.  A
   frozen record without quantity has no type, and no liquidity. *)
Wipe(a) ==
    /\ frozen[a]
    /\ IF quantity[a] = 0 THEN UNCHANGED entry
       ELSE /\ LiquidityAllows(EntryOf(a), -quantity[a])
            /\ entry' = [entry EXCEPT ![ShardOf[a]] = LiquidityAdded(@, -quantity[a], FALSE)]
    /\ quantity' = [quantity EXCEPT ![a] = 0]
    /\ wiped' = wiped + quantity[a]
    /\ frozen' = [frozen EXCEPT ![a] = FALSE]
    /\ old' = [old EXCEPT ![a] = FALSE]
    /\ UNCHANGED <<inflight, minted, burned, stranded>>
-----------------------------------------------------------------------------
UserCall ==
    \E v \in Values :
        \/ Create(v)
        \/ AddQuantity(v)
        \/ \E a \in Accounts :
            \/ Burn(a, v)
            \/ \E b \in Accounts :
                \/ TransferInShard(a, b, v)
                \/ \E i \in Slots : TransferOut(a, b, v, i)

MetaDataCall == \E a \in Updaters : UpdateMetaData(a) \/ RecreateMetaData(a)

Delivery == \E i \in Slots : Deliver(i) \/ SendBack(i) \/ Strand(i)

SystemCall ==
    \E a \in Managed : Wipe(a) \/ \E freeze \in BOOLEAN : ToggleFreeze(a, freeze)

Next == UserCall \/ MetaDataCall \/ Delivery \/ SystemCall

Spec == Init /\ [][Next]_vars
-----------------------------------------------------------------------------
(* Properties *)

TypeOK ==
    /\ quantity \in [Accounts -> Nat]
    /\ frozen \in [Accounts -> BOOLEAN]
    /\ old \in [Accounts -> BOOLEAN]
    /\ entry \in [Shards -> Entries \cup {NoEntry}]
    /\ inflight \in [Slots -> Messages \cup {NoMessage}]
    /\ minted \in Nat /\ burned \in Nat /\ wiped \in Nat /\ stranded \in Nat

(* What accounts of shard s hold. *)
Held(s) == Total([a \in {b \in Accounts : ShardOf[b] = s} |-> quantity[a]])

(* The liquidity an entry counts is what the accounts of its shard hold, through
   every transfer, refund, burn and wipe (AddToLiquiditySystemAcc and its callers). *)
LiquidityMatches ==
    \A s \in Shards :
        entry[s] # NoEntry /\ entry[s].reserved = "counted" => entry[s].value = Held(s)

(* Whoever holds units finds their metadata, on the record or on the system account
   of the shard: the entry is not deleted while anyone there still needs it. *)
HeldTokensHaveMetaData == \A a \in Accounts : quantity[a] > 0 => HasMetaData(a)

ValueInFlight == [i \in Slots |-> IF Free(i) THEN 0 ELSE inflight[i].value]

(* Units are not made or lost: what was created is held, on its way, or accounted
   for, although a transfer is two calls on two shards and may come back. *)
QuantityConserved ==
    minted = Total(quantity) + Total(ValueInFlight) + burned + wiped + stranded

(* No quantity or liquidity falls below zero, every record and message keeps its type,
   and every unit is accounted for, through transfers, refunds, burns and wipes. *)
QuantitiesHold == TypeOK /\ QuantityConserved

(* The nonce gets its first units. *)
Created == minted = 0 /\ minted' > 0

(* Metadata that was updated on a shard stays there, marked as updated, whatever
   quantity leaves the shard: nothing else remembers the update.  Only the creation
   of the nonce, which knows no older metadata, writes it over. *)
UpdatesSurvive ==
    [][~Created =>
          \A s \in Shards :
              entry[s] # NoEntry /\ entry[s].reserved = "updated"
              => entry'[s] # NoEntry /\ entry'[s].reserved = "updated"]_vars

(* esdtDataStorage.go:596 says of records that still have their metadata that they
   "are not compatible with the new liquidity model,so we set the reserved field to
   nil": when such a record is written anew, the entry of its shard counts nothing. *)
OldUnitsNotCounted ==
    [][\A a \in Accounts :
          old[a] /\ ~old'[a] /\ entry'[ShardOf[a]] # NoEntry
          => entry'[ShardOf[a]].reserved = "none"]_vars

(* Units on their way still belong to the account that sent them. *)
OwnerInFlight(i) == IF inflight[i].ret THEN inflight[i].to ELSE inflight[i].from

InFlightOf(a) ==
    [i \in Slots |-> IF Free(i) \/ OwnerInFlight(i) # a THEN 0 ELSE inflight[i].value]

Book == INSTANCE TokenBook WITH
    Owners <- Accounts,
    Holders <- Accounts,
    Creators <- {Creator},
    Opening <- OldQuantity,
    MaxIssue <- MaxSupply,
    owned <- [a \in Accounts |-> quantity[a] + Total(InFlightOf(a))],
    issued <- minted - Total(OldQuantity),
    retired <- burned + wiped + stranded

(* One nonce of a semi-fungible token implements the book of a fungible one: each
   holder keeps what it has until the shard of the recipient takes it, a transfer
   that fails moves nothing, and no frozen account gains units or gets new ones,
   but for the creator, whom the creation of the nonce unfreezes. *)
BookSpec == Book!Spec
=============================================================================
