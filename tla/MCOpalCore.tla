----------------------------- MODULE MCOpalCore -----------------------------
(***************************************************************************)
(* Constants for the model checking of OpalCore: the sets of operations,    *)
(* PINs that fit and one too long for cmd_buf.                              *)
(***************************************************************************)
EXTENDS OpalRefinement

MCAllOperations == AllOperations
MCWithoutRevert == AllOperations \ {"revert"}
MCWithoutDestroy == AllOperations \ {"destroy"}
MCPinLen == [p \in Pins |-> IF p = "huge" THEN 450 ELSE 8]
=============================================================================
