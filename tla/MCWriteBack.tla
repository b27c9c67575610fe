---------------------------- MODULE MCWriteBack ----------------------------
(* Two-bit registers: CIU_Status2, which is cached and which the chip also  *)
(* changes by itself, and a register outside the cached range.              *)
EXTENDS WriteBack, TLC

CONSTANTS b0, b1, Status2, Outside

BitSymmetry == Permutations({b0, b1})
=============================================================================
