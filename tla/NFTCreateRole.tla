---------------------------- MODULE NFTCreateRole ----------------------------
(***************************************************************************)
(* Who may create NFTs of one collection, and from which nonce on.         *)
(*                                                                         *)
(* A collection with one creator: the ESDT contract on the metachain       *)
(* orders the current owner's shard to give up the role; that shard reads  *)
(* and resets the owner's latest nonce and hands both on, within the       *)
(* shard at once, to another shard in a message.                           *)
(*                                                                         *)
(* A collection with many creators (ESDTRoleNFTCreateMultiShard): each one *)
(* counts from a start of its own, made of the last byte of its address.   *)
(*                                                                         *)
(* What creation stores besides the nonce is left out.                     *)
(***************************************************************************)
EXTENDS Integers, FiniteSets

CONSTANTS
    Accounts,
    Shards,
    ShardOf,     \* [Accounts -> Shards]
    LastByte,    \* the last byte of each address
    MultiShard,  \* the collection has many creators
    FirstOwner,  \* the only creator the ESDT contract named at first, otherwise
    Block,       \* math.MaxUint64 / 256, the nonces between two starts
    MaxNonce,    \* math.MaxUint64
    MaxCreates,  \* bound on the NFTs created in all
    NoCommand, NoMessage

Nonces == 0..MaxNonce
Commands == [at: Accounts, to: Accounts]
Messages == [to: Accounts, nonce: Nonces]

(* The ESDT contract gives the multi-shard role only to addresses that end
   differently; a block of nonces is never used up. *)
ASSUME CreateRoleAssumption ==
    /\ ShardOf \in [Accounts -> Shards]
    /\ Block \in Nat /\ MaxNonce \in Nat /\ MaxCreates \in 0..Block
    /\ LastByte \in [Accounts -> Nat]
    /\ \A a \in Accounts : Block * LastByte[a] + Block <= MaxNonce
    /\ MultiShard \in BOOLEAN
    /\ MultiShard => \A a, b \in Accounts : LastByte[a] = LastByte[b] => a = b
    /\ FirstOwner \in Accounts
    /\ NoCommand \notin Commands /\ NoMessage \notin Messages

VARIABLES
    copies,      \* times ESDTRoleNFTCreate is in the account's role list
    latestNonce, \* the value under the account's nonce key, 0 when there is none
    created,     \* how many NFTs were created under each nonce
    creates,     \* how many NFTs were created in all
    creators,    \* who has the role by the ESDT contract's record
    stopped,     \* the ESDT contract ended creation
    command,     \* order to hand over, on its way to the current owner's shard
    message,     \* role and nonce on their way to the next owner's shard
    unset        \* accounts to which ESDTUnSetRole is on its way

held == <<copies, latestNonce>>
minting == <<created, creates>>
record == <<creators, stopped>>
traffic == <<command, message, unset>>
vars == <<held, minting, record, traffic>>

Init ==
    /\ creators = IF MultiShard THEN {} ELSE {FirstOwner}
    /\ copies = [a \in Accounts |-> IF a \in creators THEN 1 ELSE 0]
    /\ latestNonce = [a \in Accounts |-> 0]
    /\ created = [n \in Nonces |-> 0] /\ creates = 0
    /\ stopped = FALSE
    /\ command = NoCommand /\ message = NoMessage /\ unset = {}

-----------------------------------------------------------------------------
(* Creation *)

(* esdtNFTCreate.ProcessBuiltinFunction: the nonce is a uint64. *)
Create(a) ==
    LET nextNonce == (latestNonce[a] + 1) % (MaxNonce + 1)
    IN  /\ copies[a] > 0 /\ creates < MaxCreates
        /\ latestNonce' = [latestNonce EXCEPT ![a] = nextNonce]
        /\ created' = [created EXCEPT ![nextNonce] = @ + 1]
        /\ creates' = creates + 1
        /\ UNCHANGED <<copies, record, traffic>>

-----------------------------------------------------------------------------
(* esdtNFTCreateRoleTransfer *)

(* deleteCreateRoleFromAccount: one copy, if there is any. *)
RoleTaken(a) == [copies EXCEPT ![a] = IF @ > 0 THEN @ - 1 ELSE 0]

(* addCreateRoleToAccount: appended unless it is in the list. *)
RoleAdded(list, b) == [list EXCEPT ![b] = IF @ > 0 THEN @ ELSE 1]

(* executeTransferNFTCreateChangeAtCurrentOwner.  It does not ask whether the
   account has the role.  The output transfer it always makes is executed in
   another shard only: in this one its sender's account is present, which
   ProcessBuiltinFunction refuses. *)
ChangeAtCurrentOwner ==
    /\ command # NoCommand
    /\ LET a == command.at
           b == command.to
       IN  IF ShardOf[a] = ShardOf[b]
           THEN /\ latestNonce' = [latestNonce EXCEPT ![a] = 0, ![b] = latestNonce[a]]
                /\ copies' = RoleAdded(RoleTaken(a), b)
                /\ UNCHANGED message
           ELSE /\ latestNonce' = [latestNonce EXCEPT ![a] = 0]
                /\ copies' = RoleTaken(a)
                /\ message' = [to |-> b, nonce |-> latestNonce[a]]
    /\ command' = NoCommand
    /\ UNCHANGED <<minting, record, unset>>

(* Faulty: only the nonce is written. *)
ChangeAtNextOwner_NonceOnly ==
    /\ message # NoMessage
    /\ latestNonce' = [latestNonce EXCEPT ![message.to] = message.nonce]
    /\ message' = NoMessage
    /\ UNCHANGED <<copies, minting, record, command, unset>>

(* Faulty: the nonce handed over is taken for the next free one. *)
ChangeAtNextOwner_NextFree ==
    /\ message # NoMessage
    /\ latestNonce' = [latestNonce EXCEPT ![message.to] = (message.nonce + 1) % (MaxNonce + 1)]
    /\ copies' = RoleAdded(copies, message.to)
    /\ message' = NoMessage
    /\ UNCHANGED <<minting, record, command, unset>>

(* executeTransferNFTCreateChangeAtNextOwner *)
ChangeAtNextOwner ==
    /\ message # NoMessage
    /\ latestNonce' = [latestNonce EXCEPT ![message.to] = message.nonce]
    /\ copies' = RoleAdded(copies, message.to)
    /\ message' = NoMessage
    /\ UNCHANGED <<minting, record, command, unset>>

-----------------------------------------------------------------------------
(* esdtRoles *)

(* Faulty: the last byte itself is the start. *)
StartNonce_NoBlock(a) == LastByte[a]

(* computeStartNonce *)
StartNonce(a) == Block * LastByte[a]

(* The nonce goes to the start whenever the multi-shard role is among the
   arguments, whether it is set or unset. *)
NonceAfterRoleChange(a) ==
    [latestNonce EXCEPT ![a] = IF MultiShard THEN StartNonce(a) ELSE @]

(* ESDTSetRole for a creator the ESDT contract has no record of. *)
SetCreator(a) ==
    /\ MultiShard /\ ~stopped /\ a \notin creators
    /\ creators' = creators \cup {a}
    /\ copies' = [copies EXCEPT ![a] = @ + 1]
    /\ latestNonce' = NonceAfterRoleChange(a)
    /\ UNCHANGED <<minting, stopped, traffic>>

(* Faulty: the nonce is reset and the role stays. *)
UnSetCreator_NonceOnly(a) ==
    /\ a \in unset
    /\ unset' = unset \ {a}
    /\ latestNonce' = NonceAfterRoleChange(a)
    /\ UNCHANGED <<copies, minting, record, command, message>>

(* ESDTUnSetRole arrives *)
UnSetCreator(a) ==
    /\ a \in unset
    /\ unset' = unset \ {a}
    /\ copies' = RoleTaken(a)
    /\ latestNonce' = NonceAfterRoleChange(a)
    /\ UNCHANGED <<minting, record, command, message>>

-----------------------------------------------------------------------------
(* The ESDT contract: it orders one thing at a time.  Nothing in this code
   makes it wait; what goes wrong when it does not is told in the README. *)

Idle == command = NoCommand /\ message = NoMessage

OrderTransfer(b) ==
    /\ ~MultiShard /\ ~stopped /\ Idle
    /\ b \notin creators
    /\ \E a \in creators : command' = [at |-> a, to |-> b]
    /\ creators' = {b}
    /\ UNCHANGED <<held, minting, stopped, message, unset>>

StopCreate ==
    /\ ~stopped /\ Idle
    /\ stopped' = TRUE
    /\ unset' = creators
    /\ UNCHANGED <<held, minting, creators, command, message>>

Next ==
    \/ \E a \in Accounts : Create(a) \/ SetCreator(a) \/ UnSetCreator(a) \/ OrderTransfer(a)
    \/ ChangeAtCurrentOwner
    \/ ChangeAtNextOwner
    \/ StopCreate

Spec == Init /\ [][Next]_vars

(* The node executes what the metachain and the other shards send. *)
FairSpec ==
    /\ Spec
    /\ WF_vars(ChangeAtCurrentOwner)
    /\ WF_vars(ChangeAtNextOwner)
    /\ \A a \in Accounts : WF_vars(UnSetCreator(a))

-----------------------------------------------------------------------------
(* Properties *)

TypeOK ==
    /\ copies \in [Accounts -> Nat]
    /\ latestNonce \in [Accounts -> Nonces]
    /\ created \in [Nonces -> Nat]
    /\ creates \in 0..MaxCreates
    /\ creators \subseteq Accounts /\ unset \subseteq Accounts
    /\ stopped \in BOOLEAN
    /\ command \in Commands \cup {NoCommand}
    /\ message \in Messages \cup {NoMessage}

(* No two NFTs of the collection get one nonce, whoever creates them, in
   whichever shard, before, during and after a hand-over: the second one would
   be saved over the first (saveLatestNonce, computeStartNonce). *)
UniqueNonces == \A n \in Nonces : created[n] <= 1

(* No nonce leaves the range of uint64, wraps or is used twice, whoever creates. *)
NoncesHold == TypeOK /\ UniqueNonces

(* With one creator the nonces used are 1, 2, 3 and so on without a gap: the
   next owner goes on where the last one stopped. *)
NoncesGapless == ~MultiShard => {n \in Nonces : created[n] > 0} = 1..creates

Carriers == {a \in Accounts : copies[a] > 0} \cup ({message} \ {NoMessage})

(* With one creator the role is in exactly one place, an account or the message
   that carries it, until creation was stopped; it is neither doubled nor lost
   on its way between shards. *)
RoleInOnePlace ==
    ~MultiShard =>
        \E c \in Accounts \cup Messages :
            Carriers = IF stopped /\ unset = {} THEN {} ELSE {c}

(* Once every ESDTUnSetRole arrived nobody has the role any more. *)
StopEndsCreation ==
    stopped /\ unset = {} => \A a \in Accounts : copies[a] = 0

(* Whoever the ESDT contract names as creator gets the role in the end, unless
   creation is stopped. *)
NamedCreatorGetsRole ==
    \A a \in Accounts :
        a \in creators ~> copies[a] > 0 \/ stopped

Book == INSTANCE CreatorBook WITH
    Creators <- Accounts,
    First <- FirstOwner,
    Numbers <- Nonces,
    numbered <- created,
    count <- creates,
    pen <- copies,
    underway <- message # NoMessage,
    named <- creators,
    ended <- stopped

(* A collection with one creator, whose role and nonce are in the shard of an account
   or in a message between two shards, implements the book with one pen: each NFT gets
   the number after the last, only one account can create and none while the message
   travels, the role reaches the creator named last, and does not move after the end. *)
BookSpec == Book!Spec
=============================================================================
