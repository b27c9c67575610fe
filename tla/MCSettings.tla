---------------------------- MODULE MCSettings ----------------------------
(* One bit per symbol and two symbols observed.  Of the properties kept in *)
(* registers that are not observed, the application sets one by itself.    *)
EXTENDS Settings
=============================================================================
