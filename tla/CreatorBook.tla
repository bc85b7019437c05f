----------------------------- MODULE CreatorBook -----------------------------
(***************************************************************************)
(* What a collection with one creator promises, shards, orders and         *)
(* messages left out.  There is one pen, and it numbers the NFTs 1, 2, 3   *)
(* and so on.  It goes from its holder to whoever is named next, at once   *)
(* or with a time on its way in which nothing is created, and is put away  *)
(* at the end.                                                             *)
(***************************************************************************)
EXTENDS Integers

CONSTANTS Creators, First, Numbers

VARIABLES
    numbered,  \* how many NFTs have each number
    count,     \* how many NFTs there are
    pen,       \* how often each creator has the pen
    underway,  \* the pen is on its way
    named,     \* who has the pen, or is to get it
    ended

vars == <<numbered, count, pen, underway, named, ended>>

HeldBy(some) == [c \in Creators |-> IF c \in some THEN 1 ELSE 0]

Init ==
    /\ numbered = [n \in Numbers |-> 0] /\ count = 0
    /\ named = {First} /\ pen = HeldBy(named)
    /\ underway = FALSE /\ ended = FALSE

Create ==
    /\ \E c \in Creators : pen = HeldBy({c})
    /\ count' = count + 1 /\ count' \in Numbers
    /\ numbered' = [numbered EXCEPT ![count'] = 1]
    /\ UNCHANGED <<pen, underway, named, ended>>

(* Nobody is named before the one named last has the pen. *)
Name(c) ==
    /\ pen = HeldBy(named) /\ ~ended
    /\ named' = {c}
    /\ UNCHANGED <<numbered, count, pen, underway, ended>>

HandOver ==
    /\ ~underway /\ ~ended
    /\ pen' = HeldBy(named)
    /\ UNCHANGED <<numbered, count, underway, named, ended>>

Send ==
    /\ ~underway /\ ~ended
    /\ underway' = TRUE /\ pen' = HeldBy({})
    /\ UNCHANGED <<numbered, count, named, ended>>

Receive ==
    /\ underway
    /\ underway' = FALSE /\ pen' = HeldBy(named)
    /\ UNCHANGED <<numbered, count, named, ended>>

End ==
    /\ pen = HeldBy(named)
    /\ ended' = TRUE
    /\ UNCHANGED <<numbered, count, pen, underway, named>>

PutAway ==
    /\ ended
    /\ pen' = HeldBy({})
    /\ UNCHANGED <<numbered, count, underway, named, ended>>

Next ==
    \/ Create
    \/ \E c \in Creators : Name(c)
    \/ HandOver \/ Send \/ Receive
    \/ End \/ PutAway

Spec == Init /\ [][Next]_vars
=============================================================================
