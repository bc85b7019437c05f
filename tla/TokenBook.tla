----------------------------- MODULE TokenBook -----------------------------
(***************************************************************************)
(* What the functions of a fungible token, or those of one nonce of a      *)
(* semi-fungible one, promise, shards and messages left out: one book of   *)
(* who owns how much.  A transfer is one step here, although the code      *)
(* debits and credits in two shards at two times; units come only from an  *)
(* issue and go only by being retired or seized; a frozen account receives *)
(* nothing and issues nothing, but what it had on its way may move on.  A  *)
(* creator that opens the book does so frozen or not, and is not afterwards. *)
(***************************************************************************)
EXTENDS Integers

CONSTANTS
    Owners,     \* everyone who can own units
    Holders,    \* the owners that can be frozen and paid: all but the issuer
    Creators,   \* the holders that may open the book
    Opening,    \* what each owner has at first
    MaxIssue    \* bound on the amount of one issue

VARIABLES owned, frozen, issued, retired

vars == <<owned, frozen, issued, retired>>

Unfrozen(o) == o \in Holders => ~frozen[o]

Init ==
    /\ owned = Opening
    /\ frozen = [h \in Holders |-> FALSE]
    /\ issued = 0 /\ retired = 0

Issue(o, v) ==
    /\ Unfrozen(o)
    /\ owned' = [owned EXCEPT ![o] = @ + v]
    /\ issued' = issued + v
    /\ UNCHANGED <<frozen, retired>>

(* The first units of all: the creator's record is made anew, and what froze it
   is forgotten. *)
Open(c, v) ==
    /\ retired = 0 /\ \A o \in Owners : owned[o] = 0
    /\ owned' = [owned EXCEPT ![c] = @ + v]
    /\ frozen' = [frozen EXCEPT ![c] = FALSE]
    /\ issued' = issued + v
    /\ UNCHANGED retired

Retire(o, v) ==
    /\ v <= owned[o]
    /\ owned' = [owned EXCEPT ![o] = @ - v]
    /\ retired' = retired + v
    /\ UNCHANGED <<frozen, issued>>

Move(o, h, v) ==
    /\ ~frozen[h]
    /\ v <= owned[o]
    /\ owned' = [[owned EXCEPT ![o] = @ - v] EXCEPT ![h] = @ + v]
    /\ UNCHANGED <<frozen, issued, retired>>

Freeze(h) ==
    /\ frozen' = [frozen EXCEPT ![h] = TRUE]
    /\ UNCHANGED <<owned, issued, retired>>

Unfreeze(h) ==
    /\ frozen' = [frozen EXCEPT ![h] = FALSE]
    /\ UNCHANGED <<owned, issued, retired>>

(* Only a frozen account is seized, and it is unfrozen by it. *)
Seize(h, v) ==
    /\ frozen[h]
    /\ v <= owned[h]
    /\ owned' = [owned EXCEPT ![h] = @ - v]
    /\ frozen' = [frozen EXCEPT ![h] = FALSE]
    /\ retired' = retired + v
    /\ UNCHANGED issued

Next ==
    \/ \E o \in Owners :
        \/ \E v \in 0..MaxIssue : Issue(o, v)
        \/ \E v \in 0..owned[o] : Retire(o, v)
        \/ \E h \in Holders, v \in 0..owned[o] : Move(o, h, v)
    \/ \E c \in Creators, v \in 0..MaxIssue : Open(c, v)
    \/ \E h \in Holders :
        \/ Freeze(h)
        \/ Unfreeze(h)
        \/ \E v \in 0..owned[h] : Seize(h, v)

Spec == Init /\ [][Next]_vars
=============================================================================
