----------------------------- MODULE MCObjectPool -----------------------------
(***************************************************************************)
(* The pools under two pipelines of two shards, built one after the other. *)
(***************************************************************************)
EXTENDS ObjectPool

\* process_pending() as the tests use it: the process's first pipeline, and
\* symbols that all belong to shard 0.
FirstPipelineShard0 == <<{0}, {}>>

\* process_pending() for every symbol.
AnyShard == <<Shards, Shards>>
=============================================================================
