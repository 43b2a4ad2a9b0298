------------------------------ MODULE MCPipeline -------------------------------
(* Instances of Pipeline for TLC. *)
EXTENDS Pipeline

CONSTANTS r1, r2
=============================================================================
