-------------------------- MODULE MCMetaDataVersions --------------------------
(* MetaDataVersions with two fields, written from two places, for the three kinds of
   token: the copies on two shards, the like with refunds to frozen accounts, and the
   copies under three accounts. *)
EXTENDS MetaDataVersions, TLC

CONSTANTS p1, p2, p3

(* Of shards there are two, p1 and p2. *)
OnTwoShards == \A i \in Slots : Free(i) \/ p3 \notin {inflight[i].from, inflight[i].to}

MCNext == Next /\ (OnShards => OnTwoShards')

MCSpec == Init /\ [][MCNext]_vars
=============================================================================
