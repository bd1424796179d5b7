------------------------------ MODULE MCOpalApp ------------------------------
(***************************************************************************)
(* Constants for the model checking of OpalApp.                             *)
(***************************************************************************)
EXTENDS OpalApp

MCAllOperations == AllOperations
MCApps == FreeRtosApps \cup Tests
MCPinLen == [p \in Pins |-> CASE p = "PSID" -> 32 [] p = "long" -> 64 [] OTHER -> 6]
=============================================================================
