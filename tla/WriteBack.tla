------------------------------ MODULE WriteBack ------------------------------
(***************************************************************************)
(* The register write-back cache of libnfc/chips/pn53x.c.                  *)
(*                                                                         *)
(* pn53x_write_register on a cached register only merges the write into    *)
(* wb_data/wb_mask and raises wb_trigged.  The next pn53x_transceive,      *)
(* whatever its command, first runs pn53x_writeback_register: it reads     *)
(* back the registers whose mask is partial, then writes the whole ones.   *)
(* Each of these exchanges with the chip, and the command itself, may fail *)
(* before or after the chip has acted on it.  Registers outside the cached *)
(* range are read, modified and written at once.                           *)
(*                                                                         *)
(* pn532_uart_receive returns what sending the ACK gave when it is         *)
(* aborted: 0, a success without an answer.  The buffers of the callers    *)
(* are then read as they were, and those of a read are not initialised.    *)
(*                                                                         *)
(* dirty and doubt are history variables: no action reads them.            *)
(***************************************************************************)

EXTENDS RegisterDefs

\* A command handed to pn53x_transceive: a register read, an RF command (reg
\* is then a register it runs under), or the two halves of a direct write.
Job ==      [op : {"read", "exec"}, reg : AllReg, mask : {{}}, val : {{}}]
       \cup [op : {"modify", "store"}, reg : Raw, mask : Value, val : Value]

VARIABLES chip,        \* the registers of the chip
          wb_data,     \* cached values
          wb_mask,     \* cached bits that wait for a write-back
          wb_trigged,  \* a write-back is wanted
          pc,          \* which exchange of the transceive is under way
          job,         \* the command the transceive was called for
          ret,         \* what the last operation returned
          dirty, doubt \* history: bits not yet sent, bits an error put in doubt

vars == <<chip, wb_data, wb_mask, wb_trigged, pc, job, ret, dirty, doubt>>

cacheVars == <<wb_data, wb_mask, wb_trigged>>

TypeOK ==
    /\ chip \in Registers
    /\ wb_data \in [Reg -> Value]
    /\ wb_mask \in [Reg -> Value]
    /\ wb_trigged \in BOOLEAN
    /\ pc \in {"idle", "readback", "writeback", "command"}
    /\ job \in Job
    /\ ret \in Result
    /\ dirty \in Registers
    /\ doubt \in Registers

\* pn53x_data_new clears the masks and the trigger; wb_data is left as malloc
\* returned it, and the chip holds whatever the last program left there.
Init ==
    /\ chip \in Registers
    /\ wb_data \in [Reg -> Value]
    /\ wb_mask = [r \in Reg |-> {}]
    /\ wb_trigged = FALSE
    /\ pc = "idle"
    /\ job \in [op : {"read"}, reg : AllReg, mask : {{}}, val : {{}}]
    /\ ret = Success({})
    /\ dirty = None
    /\ doubt = None

-----------------------------------------------------------------------------
(* pn53x_write_register, cached range                                      *)

write_register(r, m, v) ==
    /\ pc = "idle"
    /\ wb_data' = [wb_data EXCEPT ![r] = ((@ \cap wb_mask[r]) \ m) \cup (v \cap m)]
    /\ wb_mask' = [wb_mask EXCEPT ![r] = @ \cup m]
    /\ wb_trigged' = TRUE
    /\ ret' = Success({})
    /\ dirty' = [dirty EXCEPT ![r] = @ \cup m]
    /\ doubt' = [doubt EXCEPT ![r] = @ \ m]
    /\ UNCHANGED <<chip, pc, job>>

-----------------------------------------------------------------------------
(* pn53x_transceive and pn53x_writeback_register                           *)

Partial(r) == wb_mask[r] \notin {{}, Bit}
Whole(r) == wb_mask[r] = Bit

\* A transceive begins.  When nothing triggered a write-back the command goes
\* out at once; otherwise the trigger is cleared first and the registers under
\* a partial mask, if any, are read.
transceive(j) ==
    /\ pc = "idle"
    /\ job' = j
    /\ pc' = CASE ~wb_trigged -> "command"
               [] wb_trigged /\ (\E r \in Reg : Partial(r)) -> "readback"
               [] OTHER -> "writeback"
    /\ wb_trigged' = FALSE
    /\ UNCHANGED <<chip, wb_data, wb_mask, ret, dirty, doubt>>

\* Register r as the callers see it: the cached bits over the chip's.
Completed(r) == Masked(chip[r], wb_mask[r], wb_data[r])

\* The transceive returns; what it was carrying comes into doubt if it fails.
Return(res) == pc' = "idle" /\ ret' = res
PutInDoubt == doubt' = [r \in AllReg |-> doubt[r] \cup dirty[r]]

\* mutant: the bits of the mask alone are taken for the whole register
readback_ok_MutNoMerge ==
    /\ pc = "readback"
    /\ wb_mask' = [r \in Reg |-> IF Partial(r) THEN Bit ELSE wb_mask[r]]
    /\ pc' = "writeback"
    /\ UNCHANGED <<chip, wb_data, wb_trigged, job, ret, dirty, doubt>>

\* The registers were read: a mask becomes whole, or empty when the chip
\* already holds the requested value.
readback_ok ==
    /\ pc = "readback"
    /\ wb_data' = [r \in Reg |-> IF Partial(r) THEN Completed(r) ELSE wb_data[r]]
    /\ wb_mask' = [r \in Reg |->
                     IF ~Partial(r) THEN wb_mask[r]
                     ELSE IF wb_data'[r] # chip[r] THEN Bit ELSE {}]
    /\ pc' = "writeback"
    /\ UNCHANGED <<chip, wb_trigged, job, ret, dirty, doubt>>

\* The read was aborted: what lay in the buffer is taken for the registers.
readback_abort ==
    /\ pc = "readback"
    /\ \E abtRes \in [Reg -> Value] :
         /\ wb_data' = [r \in Reg |-> IF Partial(r) THEN Masked(abtRes[r], wb_mask[r], wb_data[r]) ELSE wb_data[r]]
         /\ wb_mask' = [r \in Reg |->
                          IF ~Partial(r) THEN wb_mask[r]
                          ELSE IF wb_data'[r] # abtRes[r] THEN Bit ELSE {}]
    /\ pc' = "writeback"
    /\ doubt' = [r \in AllReg |-> IF r \in Reg /\ Partial(r) THEN Bit ELSE doubt[r]]
    /\ UNCHANGED <<chip, wb_trigged, job, ret, dirty>>

\* The read failed: the masks are kept but the trigger is already cleared.
readback_fail ==
    /\ pc = "readback"
    /\ Return(Failure)
    /\ PutInDoubt
    /\ dirty' = None
    /\ UNCHANGED <<chip, cacheVars, job>>

\* mutant: a register stays pending after it was written
ResetMasks_MutKept == UNCHANGED wb_mask

\* The masks are reset while the WriteRegister command is built.
ResetMasks == wb_mask' = [r \in Reg |-> IF Whole(r) THEN {} ELSE wb_mask[r]]

writeback_ok ==
    /\ pc = "writeback"
    /\ chip' = [r \in AllReg |-> IF r \in Reg /\ Whole(r) THEN wb_data[r] ELSE chip[r]]
    /\ ResetMasks
    /\ pc' = "command"
    /\ dirty' = None
    /\ UNCHANGED <<wb_data, wb_trigged, job, ret, doubt>>

\* The write failed, for each register before or after it took effect.  No
\* command is sent, so nothing can fail, when no mask is whole.
writeback_fail ==
    /\ pc = "writeback"
    /\ \E r \in Reg : Whole(r)
    /\ \E S \in SUBSET {r \in Reg : Whole(r)} :
         chip' = [r \in AllReg |-> IF r \in S THEN wb_data[r] ELSE chip[r]]
    /\ ResetMasks
    /\ Return(Failure)
    /\ PutInDoubt
    /\ dirty' = None
    /\ UNCHANGED <<wb_data, wb_trigged, job>>

\* The write was aborted, which the command that follows does not hear of.
writeback_abort ==
    /\ pc = "writeback"
    /\ \E r \in Reg : Whole(r)
    /\ \E S \in SUBSET {r \in Reg : Whole(r)} :
         chip' = [r \in AllReg |-> IF r \in S THEN wb_data[r] ELSE chip[r]]
    /\ ResetMasks
    /\ pc' = "command"
    /\ PutInDoubt
    /\ dirty' = None
    /\ UNCHANGED <<wb_data, wb_trigged, job, ret>>

-----------------------------------------------------------------------------
(* The command of the transceive itself                                    *)

\* pn53x_ReadRegister
read_ok ==
    /\ pc = "command"
    /\ job.op = "read"
    /\ Return(Success(chip[job.reg]))
    /\ UNCHANGED <<chip, cacheVars, job, dirty, doubt>>

\* An RF command runs; the chip may leave other values in the volatile
\* registers, whether or not the host hears of the end of the command.
Disturbed == {c \in Registers : \A r \in AllReg \ Volatile : c[r] = chip[r]}

exec_ok ==
    /\ pc = "command"
    /\ job.op = "exec"
    /\ chip' \in Disturbed
    /\ Return(Success(chip[job.reg]))
    /\ UNCHANGED <<cacheVars, job, dirty, doubt>>

exec_fail ==
    /\ pc = "command"
    /\ job.op = "exec"
    /\ chip' \in Disturbed
    /\ Return(Failure)
    /\ UNCHANGED <<cacheVars, job, dirty, doubt>>

\* A read or an RF command is aborted: what its caller takes for the answer is
\* none.
command_abort ==
    /\ pc = "command"
    /\ \/ job.op = "read" /\ UNCHANGED chip
       \/ job.op = "exec" /\ chip' \in Disturbed
    /\ Return(Unanswered)
    /\ UNCHANGED <<cacheVars, job, dirty, doubt>>

\* pn53x_write_register, direct write: under a partial mask the register is
\* read first, and written by a second transceive only if its value changes.
modify_ok ==
    /\ pc = "command"
    /\ job.op = "modify"
    /\ LET new == Masked(chip[job.reg], job.mask, job.val) IN
         \/ /\ new # chip[job.reg]
            /\ job' = [job EXCEPT !.op = "store", !.val = new]
            /\ UNCHANGED <<pc, ret, doubt>>
         \/ /\ new = chip[job.reg]
            /\ Return(Success({}))
            /\ doubt' = [doubt EXCEPT ![job.reg] = @ \ job.mask]
            /\ UNCHANGED job
    /\ UNCHANGED <<chip, cacheVars, dirty>>

\* The read of a direct write is aborted.
modify_abort ==
    /\ pc = "command"
    /\ job.op = "modify"
    /\ \E ui8CurrentValue \in Value :
         LET new == Masked(ui8CurrentValue, job.mask, job.val) IN
           \/ /\ new # ui8CurrentValue
              /\ job' = [job EXCEPT !.op = "store", !.val = new]
              /\ doubt' = [doubt EXCEPT ![job.reg] = Bit]
              /\ UNCHANGED <<pc, ret>>
           \/ /\ new = ui8CurrentValue
              /\ Return(Success({}))
              /\ doubt' = [doubt EXCEPT ![job.reg] = @ \cup job.mask]
              /\ UNCHANGED job
    /\ UNCHANGED <<chip, cacheVars, dirty>>

\* A register read fails: of a plain read, or of a direct write.
read_fail ==
    /\ pc = "command"
    /\ job.op \in {"read", "modify"}
    /\ Return(Failure)
    /\ UNCHANGED <<chip, cacheVars, job, dirty, doubt>>

\* pn53x_WriteRegister
store_ok ==
    /\ pc = "command"
    /\ job.op = "store"
    /\ chip' = [chip EXCEPT ![job.reg] = job.val]
    /\ Return(Success({}))
    /\ doubt' = [doubt EXCEPT ![job.reg] = @ \ job.mask]
    /\ UNCHANGED <<cacheVars, job, dirty>>

store_fail ==
    /\ pc = "command"
    /\ job.op = "store"
    /\ chip' \in {chip, [chip EXCEPT ![job.reg] = job.val]}
    /\ Return(Failure)
    /\ doubt' = [doubt EXCEPT ![job.reg] = @ \cup job.mask]
    /\ UNCHANGED <<cacheVars, job, dirty>>

\* A direct write is aborted, before or after it took effect.
store_abort ==
    /\ pc = "command"
    /\ job.op = "store"
    /\ chip' \in {chip, [chip EXCEPT ![job.reg] = job.val]}
    /\ Return(Success({}))
    /\ doubt' = [doubt EXCEPT ![job.reg] = @ \cup job.mask]
    /\ UNCHANGED <<cacheVars, job, dirty>>

-----------------------------------------------------------------------------
\* What callers ask for.  A direct write under the full mask skips the read.
Request == {j \in Job : /\ j.op = "store" => j.mask = Bit
                        /\ j.op = "modify" => j.mask # Bit}

Next ==
    \/ \E r \in Reg, m, v \in Value : write_register(r, m, v)
    \/ \E j \in Request : transceive(j)
    \/ readback_ok \/ readback_fail
    \/ writeback_ok \/ writeback_fail
    \/ read_ok \/ read_fail
    \/ exec_ok \/ exec_fail
    \/ modify_ok
    \/ store_ok \/ store_fail
    \/ readback_abort \/ writeback_abort
    \/ command_abort \/ modify_abort \/ store_abort

Spec == Init /\ [][Next]_vars

-----------------------------------------------------------------------------
(* Properties                                                              *)

\* The register file the cache implements: the callers' view of a register is
\* its pending bits over the chip's.
Mem == [r \in AllReg |-> IF r \in Reg THEN Completed(r) ELSE chip[r]]

File == INSTANCE RegisterFile WITH mem <- Mem

\* The write-back cache of pn53x_write_register, pn53x_writeback_register and
\* pn53x_transceive implements the register file, through every failure: a
\* command runs under every value written before it, and an error puts in
\* doubt the bits it was carrying and no others.  An abort that is taken for a
\* success puts in doubt whole registers, those of which some bits were pending
\* or in doubt, and no other.
ImplementsRegisterFile == File!FileSpec

\* What is pending between calls is what was written and not yet sent, or was
\* left in doubt by a failed write-back.
PendingWhileCached ==
    pc \in {"idle", "readback"} =>
        \A r \in Reg : /\ dirty[r] \subseteq wb_mask[r]
                       /\ wb_mask[r] \subseteq dirty[r] \cup doubt[r]

\* Once read back, a register is pending as a whole or not at all, and the
\* bits nobody wrote are written with the value the chip has, unless the
\* reading was aborted.
PendingAfterReadback ==
    pc = "writeback" =>
        \A r \in Reg :
            /\ wb_mask[r] \in {{}, Bit}
            /\ wb_mask[r] = {} => dirty[r] \subseteq doubt[r] \/ wb_data[r] = chip[r]
            /\ wb_mask[r] = Bit =>
                 wb_data[r] \ (dirty[r] \cup doubt[r]) = chip[r] \ (dirty[r] \cup doubt[r])

\* Nothing written is forgotten: between calls, bits that wait to be sent have
\* the trigger up, so the next transceive sends them.
NothingForgotten ==
    /\ pc = "idle" /\ dirty # None => wb_trigged
    /\ pc # "idle" => ~wb_trigged

\* The command itself is sent only once every pending bit has been sent.
FlushedBeforeCommand ==
    pc = "command" => /\ dirty = None
                      /\ \A r \in Reg : wb_mask[r] \subseteq doubt[r]

\* The registers outside the cached range are never pending.
RawNeverDirty == \A r \in Raw : dirty[r] = {}

\* The second half of a direct write leaves the bits outside the mask as the
\* chip has them, but those that an aborted reading put in doubt.
StoreInProgress ==
    pc # "idle" /\ job.op = "store" =>
        job.val \ (job.mask \cup doubt[job.reg]) = chip[job.reg] \ (job.mask \cup doubt[job.reg])

\* The invariant that carries the correctness of the cache across failures of
\* any exchange of pn53x_writeback_register and pn53x_transceive, and aborts.
CacheInv ==
    /\ TypeOK
    /\ PendingWhileCached
    /\ PendingAfterReadback
    /\ NothingForgotten
    /\ FlushedBeforeCommand
    /\ RawNeverDirty
    /\ StoreInProgress
=============================================================================
