--------------------------- MODULE MCPipelineStage ---------------------------
(* Instances of one pipeline hop for TLC. *)
EXTENDS PipelineStage
=============================================================================
