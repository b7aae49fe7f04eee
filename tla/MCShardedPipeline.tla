-------------------------- MODULE MCShardedPipeline --------------------------
(***************************************************************************)
(* Small sharded pipelines for TLC: all symbols on one shard, and three    *)
(* symbols of which two hash to the same shard.                            *)
(***************************************************************************)
EXTENDS ShardedPipeline

Together == [y \in Symbols |-> 0]
Spread == [y \in Symbols |-> IF y = "GOOG" THEN 1 ELSE 0]
=============================================================================
