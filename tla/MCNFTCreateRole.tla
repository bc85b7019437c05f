--------------------------- MODULE MCNFTCreateRole ---------------------------
(* NFTCreateRole with alice and bob on shard s1, carol and dan on
   shard s2. *)
EXTENDS NFTCreateRole, TLC

CONSTANTS alice, bob, carol, dan, s1, s2

MCShardOf == (alice :> s1) @@ (bob :> s1) @@ (carol :> s2) @@ (dan :> s2)

MCLastByte == (alice :> 0) @@ (bob :> 1) @@ (carol :> 2) @@ (dan :> 3)
=============================================================================
