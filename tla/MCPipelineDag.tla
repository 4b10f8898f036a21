--------------------------- MODULE MCPipelineDag ---------------------------
(* TLC instances of PipelineDag. *)
EXTENDS PipelineDag

=============================================================================
