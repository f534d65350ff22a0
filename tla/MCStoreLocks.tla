---------------------------- MODULE MCStoreLocks ----------------------------
(* One timeline map with two shards, the other maps with one.                *)
EXTENDS StoreLocks

MCTimelines == <<"original">>
MCShards == [m \in Map |-> IF m = "original" THEN 2 ELSE 1]
=============================================================================
