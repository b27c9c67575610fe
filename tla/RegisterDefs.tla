---------------------------- MODULE RegisterDefs ----------------------------
(***************************************************************************)
(* Registers of a PN53x chip and the vocabulary shared by the abstract     *)
(* register file and the write-back cache that implements it.              *)
(***************************************************************************)
CONSTANTS Reg,       \* registers of the cached range
          Raw,       \* registers outside it
          Volatile,  \* registers an RF command may change by itself
          Bit        \* bit positions of a register

ASSUME RegisterAssumption ==
    /\ Reg \cap Raw = {}
    /\ Volatile \subseteq Reg \cup Raw
    /\ Bit # {}

AllReg == Reg \cup Raw
Value == SUBSET Bit              \* a register value: the set of its 1 bits
Registers == [AllReg -> Value]
None == [r \in AllReg |-> {}]

Unanswered == [ok |-> TRUE]      \* a success that no answer came with
Result == [ok : BOOLEAN, val : Value] \cup {Unanswered}
Success(v) == [ok |-> TRUE, val |-> v]
Failure == [ok |-> FALSE, val |-> {}]

\* v under the symbol mask m, the other bits as in old
Masked(old, m, v) == (v \cap m) \cup (old \ m)
=============================================================================
