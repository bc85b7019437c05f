--------------------------- MODULE MCNFTLiquidity ---------------------------
(* NFTLiquidity on two shards, s1 with alice and bob, s2 with carol: a
   semi-fungible nonce, whose accounts are frozen and wiped, or a dynamic one,
   which accounts of both shards update. *)
EXTENDS NFTLiquidity, TLC

CONSTANTS alice, bob, carol, s1, s2

MCShardOf == [a \in Accounts |-> IF a = carol THEN s2 ELSE s1]

NothingOld == [a \in Accounts |-> 0]

(* alice and carol hold units whose metadata is on their records. *)
OldUnits == [a \in Accounts |-> IF a = alice THEN 2 ELSE IF a = carol THEN 1 ELSE 0]

VARIABLE dynamic  \* the nonce of this behaviour is of a dynamic type

DynamicNonce ==
    INSTANCE NFTLiquidity WITH
        Dynamic <- TRUE, Updaters <- {alice, carol}, Values <- {1, 2}, Managed <- {}

MCInit == Init /\ dynamic \in BOOLEAN

MCNext ==
    /\ UNCHANGED dynamic
    /\ \/ ~dynamic /\ Next
       \/ dynamic /\ DynamicNonce!Next

MCSpec == MCInit /\ [][MCNext]_<<vars, dynamic>>

(* A nonce that is not dynamic. *)
PlainSpec == Init /\ dynamic = FALSE /\ [][Next /\ UNCHANGED dynamic]_<<vars, dynamic>>
=============================================================================
