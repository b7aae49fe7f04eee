--------------------------- MODULE MCPipelineRunner ---------------------------
(***************************************************************************)
(* A runner with two shards, so that the order of creating and joining     *)
(* threads, and a start() that fails between two of them, matter.          *)
(***************************************************************************)
EXTENDS PipelineRunner
=============================================================================
