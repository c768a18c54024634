------------------------------ MODULE MCPipeline ------------------------------
(* An instance of Pipeline for TLC. *)
EXTENDS Pipeline

CONSTANTS p1, d1, d2
=============================================================================
