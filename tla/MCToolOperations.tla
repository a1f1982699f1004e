-------------------------- MODULE MCToolOperations --------------------------
(* Model-checking instance of ToolOperations.                              *)
EXTENDS ToolOperations
=============================================================================
