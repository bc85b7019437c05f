-------------------------- MODULE MetaDataVersions --------------------------
(***************************************************************************)
(* The metadata of one nonce of a dynamic token.  It is kept in several    *)
(* places, each with a version of every field, the round in which the      *)
(* field was last written there: for a dynamic SFT or meta-ESDT one copy   *)
(* on the system account of each shard, for a dynamic NFT one under each   *)
(* account that has a record.  A copy travels with every unit, and is      *)
(* merged field by field with the copy at the destination.                 *)
(*                                                                         *)
(* A behaviour is about one token, of one of three kinds: "shards", with   *)
(* a copy on each shard; "frozen", the like with accounts that may be      *)
(* frozen while a refund to them is on its way; "accounts", an NFT.        *)
(*                                                                         *)
(* known, in a copy, is history: the writes the copy stems from.  Left     *)
(* out: wipes and calls of quantity 0 (see NFTLiquidity), the length of    *)
(* fields and gas, and checks that only refuse calls.  Two writes of one   *)
(* place in one round count as one.                                        *)
(***************************************************************************)
EXTENDS Integers

CONSTANTS
    Places,      \* shards or accounts, as the token has it
    Fields,
    Creator, Royalties, URIs, Attributes, \* fields with a call of their own
    Updaters,    \* places from which the metadata may be changed
    FirstHolder, \* where the nonce was created
    Supply,      \* of a token whose copies are on shards
    Slots,
    MaxRound,
    NoCopy, NoMessage,
    Empty,       \* value of a field nobody has written
    Created      \* value of a field since the nonce was created

Writes == [field: Fields, by: Places, round: Nat \ {0}]

Copies == [version: [Fields -> Nat], value: [Fields -> Writes \cup {Empty, Created}],
           known: SUBSET Writes]

Messages == [from: Places, to: Places, copy: Copies, ret: BOOLEAN]

ASSUME VersionsAssumption ==
    /\ {Creator, Royalties, URIs, Attributes} \subseteq Fields
    /\ FirstHolder \in Places /\ Updaters \subseteq Places
    /\ Supply \in Nat /\ MaxRound \in Nat
    /\ NoCopy \notin Copies /\ NoMessage \notin Messages
    /\ Empty \notin Writes /\ Created \notin Writes /\ Empty # Created

Tokens == {"shards", "frozen", "accounts"}

VARIABLES
    token,     \* of this behaviour
    copy,      \* the metadata kept at each place
    units,     \* what accounts of the place hold
    inflight,
    round      \* CurrentRound, the same in all shards

vars == <<token, copy, units, inflight, round>>

(* The type is DynamicSFT or DynamicMeta, not DynamicNFT. *)
OnShards == token # "accounts"

FreshCopy(value) ==
    [version |-> [f \in Fields |-> 0], value |-> [f \in Fields |-> value], known |-> {}]

Init ==
    /\ token \in Tokens
    /\ copy = [p \in Places |-> IF p = FirstHolder THEN FreshCopy(Created) ELSE NoCopy]
    /\ units = [p \in Places |-> IF p # FirstHolder THEN 0 ELSE IF OnShards THEN Supply ELSE 1]
    /\ inflight = [i \in Slots |-> NoMessage]
    /\ round = 1

Free(i) == inflight[i] = NoMessage

(* wasMetaDataUpdated *)
Updated(c) == \E f \in Fields : c.version[f] > 0
-----------------------------------------------------------------------------
(* Faulty: of two fields with the same version the current one stays. *)
Merge_KeepsEqual(current, transferred) ==
    LET newer(f) == current.version[f] >= transferred.version[f]
    IN  [version |-> [f \in Fields |-> IF newer(f) THEN current.version[f]
                                       ELSE transferred.version[f]],
         value |-> [f \in Fields |-> IF newer(f) THEN current.value[f]
                                     ELSE transferred.value[f]],
         known |-> current.known \cup transferred.known]

(* Faulty: the version of a field is taken over without its value. *)
Merge_VersionOnly(current, transferred) ==
    LET newer(f) == current.version[f] > transferred.version[f]
    IN  [version |-> [f \in Fields |-> IF newer(f) THEN current.version[f]
                                       ELSE transferred.version[f]],
         value |-> transferred.value,
         known |-> current.known \cup transferred.known]

(* mergeEsdtData: current is kept in the fields in which it is newer. *)
Merge(current, transferred) ==
    LET newer(f) == current.version[f] > transferred.version[f]
    IN  [version |-> [f \in Fields |-> IF newer(f) THEN current.version[f]
                                       ELSE transferred.version[f]],
         value |-> [f \in Fields |-> IF newer(f) THEN current.value[f]
                                     ELSE transferred.value[f]],
         known |-> current.known \cup transferred.known]

(* Faulty: what arrives replaces what is there. *)
Arrived_Replaces(c, t, blind) == t

(* The copy at a place once t has been merged and saved there.  blind: the record
   of the recipient has no type, and its metadata is not looked up.  On a system
   account what was never updated is not written again. *)
Arrived(c, t, blind) ==
    LET merged == IF c = NoCopy \/ blind THEN t ELSE Merge(c, t)
    IN  IF c = NoCopy \/ ~OnShards \/ Updated(merged) THEN merged ELSE c

(* The copy c after a call at p that writes the fields F: getEsdtInfo makes a hollow
   one where there is none. *)
Written(c, p, F) ==
    LET old == IF c = NoCopy THEN FreshCopy(Empty) ELSE c
        write(f) == [field |-> f, by |-> p, round |-> round]
    IN  [version |-> [f \in Fields |-> IF f \in F THEN round ELSE old.version[f]],
         value |-> [f \in Fields |-> IF f \in F THEN write(f) ELSE old.value[f]],
         known |-> old.known \cup {write(f) : f \in F}]

-----------------------------------------------------------------------------
(* Calls that write metadata *)

Save(p, F) ==
    /\ p \in Updaters
    /\ copy' = [copy EXCEPT ![p] = Written(@, p, F)]
    /\ UNCHANGED <<units, inflight, round>>

(* ESDTMetaDataRecreate *)
Recreate(p) == Save(p, Fields)

(* ESDTMetaDataUpdate: the fields given, and the creator in any case. *)
Update(p, F) == Save(p, F \cup {Creator})

ModifyCreator(p) == Save(p, {Creator})

ModifyRoyalties(p) == Save(p, {Royalties})

SetNewURIs(p) == Save(p, {URIs})

(* ESDTNFTAddURI and ESDTNFTUpdateAttributes are for those who have units. *)
SaveHeld(p, f) == units[p] > 0 /\ copy[p] # NoCopy /\ Save(p, {f})

AddURI(p) == SaveHeld(p, URIs)

UpdateAttributes(p) == SaveHeld(p, Attributes)
-----------------------------------------------------------------------------
(* Units that move *)

(* The copy of p when a unit has left: a record without value is deleted; an entry
   is kept when it leaves by a transfer, and when it was updated. *)
Left(p, keep) ==
    IF units[p] > 1 \/ (OnShards /\ (keep \/ Updated(copy[p]))) THEN copy[p] ELSE NoCopy

(* ESDTNFTTransfer on the sender's shard. *)
TransferOut(p, q, i) ==
    /\ p # q /\ units[p] > 0 /\ copy[p] # NoCopy /\ Free(i)
    /\ inflight' = [inflight EXCEPT ![i] =
            [from |-> p, to |-> q, copy |-> copy[p], ret |-> FALSE]]
    /\ copy' = [copy EXCEPT ![p] = Left(p, TRUE)]
    /\ units' = [units EXCEPT ![p] = @ - 1]
    /\ UNCHANGED round

(* ... and at the destination.  A refund may find its recipient frozen, with a
   record that has neither value nor type. *)
Deliver(i, blind) ==
    LET m == inflight[i]
    IN  /\ ~Free(i)
        /\ blind => token = "frozen" /\ m.ret
        /\ copy' = [copy EXCEPT ![m.to] = Arrived(@, m.copy, blind)]
        /\ units' = [units EXCEPT ![m.to] = @ + 1]
        /\ inflight' = [inflight EXCEPT ![i] = NoMessage]
        /\ UNCHANGED round

SendBack(i) ==
    LET m == inflight[i]
    IN  /\ ~Free(i) /\ ~m.ret
        /\ inflight' = [inflight EXCEPT ![i] =
                [m EXCEPT !.from = m.to, !.to = m.from, !.ret = TRUE]]
        /\ UNCHANGED <<copy, units, round>>

(* ESDTNFTBurn *)
Burn(p) ==
    /\ units[p] > 0 /\ copy[p] # NoCopy
    /\ copy' = [copy EXCEPT ![p] = Left(p, FALSE)]
    /\ units' = [units EXCEPT ![p] = @ - 1]
    /\ UNCHANGED <<inflight, round>>

NextRound ==
    /\ round < MaxRound
    /\ round' = round + 1
    /\ UNCHANGED <<copy, units, inflight>>

Next ==
    /\ UNCHANGED token
    /\ \/ \E p \in Places :
           \/ Recreate(p) \/ \E F \in SUBSET Fields : Update(p, F)
           \/ ModifyCreator(p) \/ ModifyRoyalties(p) \/ SetNewURIs(p)
           \/ AddURI(p) \/ UpdateAttributes(p)
           \/ \E q \in Places, i \in Slots : TransferOut(p, q, i)
           \/ Burn(p)
       \/ \E i \in Slots : SendBack(i) \/ \E blind \in BOOLEAN : Deliver(i, blind)
       \/ NextRound

Spec == Init /\ [][Next]_vars
-----------------------------------------------------------------------------
(* Properties *)

TypeOK ==
    /\ token \in Tokens
    /\ copy \in [Places -> Copies \cup {NoCopy}]
    /\ units \in [Places -> Nat]
    /\ inflight \in [Slots -> Messages \cup {NoMessage}]
    /\ round \in Nat \ {0}

KnownCopies ==
    {copy[p] : p \in {q \in Places : copy[q] # NoCopy}}
        \cup {inflight[i].copy : i \in {j \in Slots : ~Free(j)}}

(* A copy has in each field what the newest write it stems from has put there, under
   the version of that write, whichever way and in whichever order the writes came
   together: merging neither prefers older values nor mixes a value with the version
   of another (mergeEsdtData, changeEsdtVersion). *)
CopyIsNewestKnown ==
    \A c \in KnownCopies, f \in Fields :
        LET writes == {w \in c.known : w.field = f}
        IN  /\ \A w \in writes : w.round <= c.version[f]
            /\ IF writes = {} THEN c.version[f] = 0 /\ c.value[f] \in {Empty, Created}
               ELSE c.value[f] \in writes /\ c.value[f].round = c.version[f]

(* Copies and messages keep their types, and a copy has the newest writes it knows,
   however the copies of two places have met (mergeEsdtData). *)
CopiesHold == TypeOK /\ CopyIsNewestKnown

(* Where units are, no field is empty, although getEsdtInfo makes hollow copies in
   places that have none and those are merged with the full ones. *)
HeldCopiesComplete ==
    /\ \A p \in Places : units[p] > 0 =>
            copy[p] # NoCopy /\ \A f \in Fields : copy[p].value[f] # Empty
    /\ \A i \in Slots : ~Free(i) => \A f \in Fields : inflight[i].copy.value[f] # Empty

(* No holder has metadata with an empty field, whatever the token, unless refunds
   meet frozen accounts (getEsdtInfo, mergeEsdtData): such a refund may find a hollow
   copy and leaves it. *)
HeldCompleteUnlessFrozen == token # "frozen" => HeldCopiesComplete

(* A write that reached the copy at p stays in it in this step, unless it is the
   arrival of a refund. *)
WritesStay(p) ==
    copy[p] # NoCopy =>
        \/ copy'[p] # NoCopy /\ copy[p].known \subseteq copy'[p].known
        \/ copy'[p] = NoCopy /\ copy[p].known = {}
        \/ \E i \in Slots : /\ ~Free(i) /\ inflight[i].ret /\ inflight[i].to = p
                            /\ inflight'[i] = NoMessage

(* If the message in slot i arrives in this step, the copy there then knows every
   write that the copy in the message did, and every one that it knew before. *)
ArrivalKeepsWrites(i) ==
    LET m == inflight[i]
    IN  ~Free(i) /\ inflight'[i] = NoMessage =>
            /\ m.copy.known \subseteq copy'[m.to].known
            /\ copy[m.to] # NoCopy => copy[m.to].known \subseteq copy'[m.to].known

(* On shards a write is never lost, unless a refund meets a frozen account: neither a
   message that arrives nor a unit that leaves takes an update away; and merging what
   arrives with what is there loses no write of either, on shards as under accounts
   (addNFTToDestination, mergeEsdtData, AddToLiquiditySystemAcc). *)
WritesKept ==
    /\ [][OnShards => \A p \in Places : WritesStay(p)]_vars
    /\ [][token # "frozen" => \A i \in Slots : ArrivalKeepsWrites(i)]_vars
=============================================================================
