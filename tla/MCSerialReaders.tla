-------------------------- MODULE MCSerialReaders --------------------------
(* Both drivers, one opening and two or three calls of two commands.       *)
EXTENDS SerialReaders
=============================================================================
