------------------------- MODULE MCTokenFunctions -------------------------
(* TokenFunctions on small sets: batches of transfers between three accounts on two
   shards, the settings of a token, and the deletion and addition of metadata.  A behaviour
   exercises one of them, the others stand still. *)
EXTENDS TokenFunctions, TLC, Integers, Sequences, SequencesExt

CONSTANTS a1, a2, b1, tokA, tokB, contX, contY

MCShardOf == [a \in Holders |-> IF a = b1 THEN 2 ELSE 1]
MCStart ==
    [a \in Holders |-> [t \in BatchTokens |->
        IF a = a1 THEN IF t = "sft" THEN 2 ELSE 1 ELSE IF a = a2 /\ t = "ft" THEN 1 ELSE 0]]
MCRegulated == {<<a1, "ft">>}
MCFreezable == {<<a1, "ft">>, <<a1, "sft">>}

-----------------------------------------------------------------------------
(* Every list of up to four arguments, and lists of up to eight that begin as a list
   should: two intervals of one token, or one interval of each of two. *)
SmallNumbers == 0..3
Pairs == SmallNumbers \X SmallNumbers
LongLists ==
    {<<t, 2>> \o p \o q : t \in ListTokens, p \in Pairs, q \in Pairs}
        \cup {<<t, c>> \o p \o <<u, d>> \o q :
                t \in ListTokens, u \in ListTokens, c \in {1, 2}, d \in {1, 2},
                p \in Pairs, q \in Pairs}
(* Intervals that end at the largest number, 15, and counts that wrap the index: 8 and
   15 read the same place or the token again. *)
LargeLists ==
    {<<t, 1, n, 15>> : t \in ListTokens, n \in {1, 3, 15}}
        \cup {<<t, 2, 2, 2, n, 15>> : t \in ListTokens, n \in {1, 15}}
        \cup {<<t, 2, n, 15, 2, 2>> : t \in ListTokens, n \in {1, 15}}
        \cup {<<t, c, u, 1, 1, 2>> : t \in ListTokens, c \in {7, 8, 15}, u \in ListTokens \cup {1}}
        \cup {<<t, 1, 1, 1, u, c, 1, 2>> : t \in ListTokens, u \in ListTokens, c \in {7, 8, 15}}
AllLists == BoundedSeq(SmallNumbers \cup ListTokens, 4) \cup LongLists \cup LargeLists
ShortLists == BoundedSeq({0, 1, 2, tokA}, 4)

Described == [k \in ListTokens \X MetaNonces |-> [nonce |-> k[2], content |-> contX]]
SomeDescribed ==
    {[k \in ListTokens \X MetaNonces |-> IF k[2] = 1 THEN e ELSE Described[k]] : e \in {NoEntry, Bare}}
MCStarts == {Described} \cup SomeDescribed

OneItem == [token : {tokA}, nonce : 0..2, metaData : [nonce : 0..2, content : {contX, contY}]]
OneOrTwoItems == {<<n>> : n \in OneItem} \cup (OneItem \X OneItem)

-----------------------------------------------------------------------------
VARIABLE exercised  \* what this behaviour exercises

MCInit ==
    /\ exercised \in {"batches", "settings", "deletion", "addition"}
    /\ TokenInit
    /\ IF exercised = "addition" THEN metaRecords \in SomeDescribed ELSE metaRecords = Described
    /\ exercised # "settings" => settingBytes = [t \in SettingTokens |-> <<>>]

(* One deletion with any list; or an addition before or after a short deletion, or two. *)
ShortListStep ==
    /\ \/ /\ Metas!Idle
          /\ \/ \E list \in ShortLists : Metas!CallDelete(list)
             \/ \E list \in Additions : Metas!CallAdd(list)
       \/ Metas!Running
    /\ UNCHANGED <<batched, set>>

MCNext ==
    /\ UNCHANGED exercised
    /\ \/ exercised = "batches" /\ BatchStep
       \/ exercised = "settings" /\ SettingStep
       \/ exercised = "deletion" /\ (Metas!Idle => listCalls = 0) /\ ListStep /\ loop' # "items"
       \/ exercised = "addition" /\ ShortListStep

MCSpec == MCInit /\ [][MCNext]_<<exercised, tokenVars>> /\ Metas!Fairness
-----------------------------------------------------------------------------
(* Every deletion and every addition ends, but for a deletion with an interval up to
   the largest number or with a count that wraps the index. *)
CallsEnd == Metas!CallsEnd
=============================================================================
