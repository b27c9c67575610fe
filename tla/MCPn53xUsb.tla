---------------------------- MODULE MCPn53xUsb ----------------------------
(* A slice of 2 units of 100 ms; timeout_command (350 ms) as 3 units.      *)
EXTENDS Pn53xUsb
=============================================================================
