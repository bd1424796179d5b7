--------------------------- MODULE MCOpalUnreliable ---------------------------
(***************************************************************************)
(* Constants for the model checking of OpalUnreliable.                      *)
(***************************************************************************)
EXTENDS OpalUnreliable

MCAllOperations == AllOperations
MCPinLen == [p \in Pins |-> 8]
=============================================================================
