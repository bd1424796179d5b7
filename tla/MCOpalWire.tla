----------------------------- MODULE MCOpalWire -----------------------------
(***************************************************************************)
(* Constants for the model checking of OpalWire: one task, credentials on   *)
(* both sides of every change in the length of an atom header and of the    *)
(* last byte of cmd_buf (400 bytes fit a StartSession and 401 do not).      *)
(***************************************************************************)
EXTENDS OpalWire, TLC

MCOperations == AllOperations
MCPinLen == [p15 |-> 15, p16 |-> 16, p32 |-> 32, p255 |-> 255, p256 |-> 256,
             p400 |-> 400, p401 |-> 401]
=============================================================================
