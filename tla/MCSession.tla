---------------------------- MODULE MCSession ----------------------------
(* Two targets InListPassiveTarget can select; Innovatron is of the        *)
(* ISO14443-B' family.                                                     *)
EXTENDS Session

CONSTANTS t1, t2, Innovatron
=============================================================================
