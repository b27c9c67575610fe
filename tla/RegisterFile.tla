---------------------------- MODULE RegisterFile ----------------------------
(***************************************************************************)
(* What the register interface of the PN53x layer promises its callers: a  *)
(* file of registers written under a symbol mask.  A write to a cached     *)
(* register is only buffered (its bits are "dirty"); the next command      *)
(* makes the chip run under every buffered value.  An operation that       *)
(* reports an error puts in doubt the bits that were dirty when it ran,    *)
(* and no other bit: every bit that is not in doubt is what its last       *)
(* writer asked for, whatever failed before.  An abort that is reported as *)
(* a success puts more in doubt: every bit of the registers that were to   *)
(* be written.                                                             *)
(***************************************************************************)
EXTENDS RegisterDefs

VARIABLES mem,     \* the register contents the callers rely on
          dirty,   \* bits written since the last synchronisation
          doubt,   \* bits an error left in doubt
          ret      \* result of the last operation: success, value observed

fileVars == <<mem, dirty, doubt, ret>>

FileInit ==
    /\ mem \in Registers
    /\ dirty = None
    /\ doubt = None
    /\ ret = Success({})

\* A masked write is accepted into the buffer.
Buffer(r, m, v) ==
    /\ mem' = [mem EXCEPT ![r] = Masked(@, m, v)]
    /\ dirty' = [dirty EXCEPT ![r] = @ \cup m]
    /\ doubt' = [doubt EXCEPT ![r] = @ \ m]
    /\ ret' = Success({})

\* Everything buffered has reached the chip.
Sync ==
    /\ dirty' = None
    /\ UNCHANGED <<mem, doubt, ret>>

\* A command reads register r, or runs under it: nothing is held back and
\* every bit that is not in doubt has the value asked for.  Afterwards the
\* volatile registers may hold anything.
Command(r) ==
    /\ dirty = None
    /\ \E v \in Value :
         /\ v \ doubt[r] = mem[r] \ doubt[r]
         /\ ret' = Success(v)
    /\ mem' \in Registers
    /\ \A s \in AllReg \ Volatile : mem'[s] = mem[s]
    /\ UNCHANGED <<dirty, doubt>>

\* A register outside the cache is written at once, up to the bits in doubt.
Store(r, m, v) ==
    /\ dirty = None
    /\ doubt' = [doubt EXCEPT ![r] = @ \ m]
    /\ \E new \in Value :
         /\ new \ doubt'[r] = Masked(mem[r], m, v) \ doubt'[r]
         /\ mem' = [mem EXCEPT ![r] = new]
    /\ ret' = Success({})
    /\ UNCHANGED dirty

\* In the registers of S every bit that is not in doubt keeps its value.
Kept(S) ==
    /\ mem' \in Registers
    /\ \A r \in S : mem'[r] \ doubt'[r] = mem[r] \ doubt'[r]

\* An operation reports an error.  Only the bits it was carrying to the chip
\* (the dirty ones, or those of the register being stored) come into doubt.
Fail ==
    /\ ret' = Failure
    /\ \/ doubt' = [r \in AllReg |-> doubt[r] \cup dirty[r]]
       \/ /\ dirty = None
          /\ \E r \in Raw, m \in Value : doubt' = [doubt EXCEPT ![r] = @ \cup m]
    /\ dirty' = None
    /\ Kept(AllReg \ Volatile)

\* An abort of a write-back: the bits it was carrying come into doubt, and what
\* it read back is anything, so that the other bits of a register with pending
\* bits, or bits in doubt, may be written too.
AbortSync ==
    /\ dirty' \in {dirty, None}
    /\ doubt' \in Registers
    /\ \A r \in AllReg :  /\ doubt[r] \subseteq doubt'[r]
                          /\ dirty' = None => dirty[r] \subseteq doubt'[r]
                          /\ (r \in Raw \/ dirty[r] \cup doubt[r] = {}) => doubt'[r] = doubt[r]
    /\ Kept(AllReg)
    /\ UNCHANGED ret

\* An abort of a command: it has no answer, or of a direct write bits of its
\* register come into doubt.
AbortCommand ==
    /\ dirty = None
    /\ \/ ret' = Unanswered /\ UNCHANGED doubt
       \/ /\ ret' \in {ret, Success({})}
          /\ \E r \in Raw, m \in Value : doubt' = [doubt EXCEPT ![r] = @ \cup m]
    /\ Kept(AllReg \ Volatile)
    /\ UNCHANGED dirty

FileNext ==
    \/ \E r \in Reg, m, v \in Value : Buffer(r, m, v)
    \/ Sync
    \/ \E r \in AllReg : Command(r)
    \/ \E r \in Raw, m, v \in Value : Store(r, m, v)
    \/ Fail
    \/ AbortSync
    \/ AbortCommand

FileSpec == FileInit /\ [][FileNext]_fileVars
=============================================================================
