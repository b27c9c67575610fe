----------------------------- MODULE DeviceProofs -----------------------------
(***************************************************************************)
(* Two parts of the library around a device.  The write-back cache         *)
(* implements the register file, for any registers, any width and any      *)
(* sequence of failures.  And however many processes list, open and close  *)
(* devices on whatever machine, a serial port has one user unless two      *)
(* raced for it, the PC/SC context lives as long as it is needed, what     *)
(* nfc_list_devices names can be opened, and it misses nothing that was    *)
(* left alone.                                                             *)
(***************************************************************************)
EXTENDS WriteBack, Discovery, FiniteSetTheorems, FunctionTheorems, TLAPS

-----------------------------------------------------------------------------
(* The write-back cache                                                    *)

\* Membership in Value and the shape of a request.
LEMMA ValueClosed ==
    ASSUME NEW a \in Value, NEW b \in Value, NEW c \in Value
    PROVE  /\ a \cup b \in Value
           /\ a \ b \in Value
           /\ a \cap b \in Value
           /\ Masked(a, b, c) \in Value
           /\ {} \in Value /\ Bit \in Value
  BY DEF Value, Masked

LEMMA InitType == Init => TypeOK
  <1> SUFFICES ASSUME Init PROVE TypeOK
    OBVIOUS
  <1>1. None \in Registers /\ [r \in Reg |-> {}] \in [Reg -> Value]
    BY DEF None, Registers, Value
  <1>2. Success({}) \in Result
    BY DEF Success, Result, Value
  <1>3. job \in Job
    BY DEF Init, Job
  <1> QED
    BY <1>1, <1>2, <1>3 DEF Init, TypeOK

LEMMA JobType ==
    ASSUME NEW j \in Job
    PROVE  /\ j.reg \in AllReg
           /\ j.mask \in Value /\ j.val \in Value
           /\ j.op \in {"read", "exec", "modify", "store"}
           /\ j.op \in {"modify", "store"} => j.reg \in Raw
  BY DEF Job, Value, AllReg

LEMMA NextType == TypeOK /\ [Next]_vars => TypeOK'
  <1> SUFFICES ASSUME TypeOK, [Next]_vars PROVE TypeOK'
    OBVIOUS
  <1>j. /\ job.reg \in AllReg
        /\ job.mask \in Value /\ job.val \in Value
        /\ job.op \in {"modify", "store"} => job.reg \in Raw
    BY JobType DEF TypeOK
  <1>n. None \in Registers
    BY DEF None, Registers, Value
  <1>s. \A v \in Value : Success(v) \in Result
    BY DEF Success, Result
  <1>f. Failure \in Result
    BY DEF Failure, Result, Value
  <1>d. PutInDoubt => doubt' \in Registers
    BY DEF PutInDoubt, TypeOK, Registers, Value
  <1>m. ResetMasks => wb_mask' \in [Reg -> Value]
    BY DEF ResetMasks, TypeOK, Value
  <1>1. ASSUME NEW r \in Reg, NEW m \in Value, NEW v \in Value,
               write_register(r, m, v)
        PROVE  TypeOK'
    <2>1. wb_data' \in [Reg -> Value] /\ wb_mask' \in [Reg -> Value]
      BY <1>1 DEF write_register, TypeOK, Value
    <2>2. dirty' \in Registers /\ doubt' \in Registers
      BY <1>1 DEF write_register, TypeOK, Registers, Value
    <2>3. ret' \in Result
      BY <1>1, <1>s DEF write_register, Value
    <2> QED
      BY <1>1, <2>1, <2>2, <2>3 DEF write_register, TypeOK
  <1>2. ASSUME NEW j \in Request, transceive(j)
        PROVE  TypeOK'
    BY <1>2 DEF transceive, TypeOK, Request
  <1>3. CASE readback_ok
    <2>1. wb_data' \in [Reg -> Value] /\ wb_mask' \in [Reg -> Value]
      <3>1. \A r \in Reg : Completed(r) \in Value
        BY ValueClosed DEF Completed, TypeOK, Registers, AllReg
      <3>2. {} \in Value /\ Bit \in Value
        BY DEF Value
      <3> QED
        BY <1>3, <3>1, <3>2 DEF readback_ok, TypeOK
    <2> QED
      BY <1>3, <2>1 DEF readback_ok, TypeOK
  <1>4. CASE readback_fail
    BY <1>4, <1>n, <1>f, <1>d DEF readback_fail, Return, cacheVars, TypeOK
  <1>5. CASE writeback_ok
    <2>1. chip' \in Registers
      BY <1>5 DEF writeback_ok, TypeOK, Registers
    <2> QED
      BY <1>5, <2>1, <1>n, <1>m DEF writeback_ok, TypeOK
  <1>6. CASE writeback_fail
    <2>1. chip' \in Registers
      BY <1>6 DEF writeback_fail, TypeOK, Registers, AllReg
    <2> QED
      BY <1>6, <2>1, <1>n, <1>m, <1>f, <1>d DEF writeback_fail, Return, TypeOK
  <1>7. CASE read_ok
    <2>1. Success(chip[job.reg]) \in Result
      BY <1>s, <1>j DEF TypeOK, Registers
    <2> QED
      BY <1>7, <2>1 DEF read_ok, Return, cacheVars, TypeOK
  <1>8. CASE read_fail
    BY <1>8, <1>f DEF read_fail, Return, cacheVars, TypeOK
  <1>9. CASE exec_ok
    <2>1. Success(chip[job.reg]) \in Result
      BY <1>s, <1>j DEF TypeOK, Registers
    <2> QED
      BY <1>9, <2>1 DEF exec_ok, Disturbed, Return, cacheVars, TypeOK
  <1>10. CASE exec_fail
    BY <1>10, <1>f DEF exec_fail, Disturbed, Return, cacheVars, TypeOK
  <1>11. CASE modify_ok
    <2>1. doubt' \in Registers
      BY <1>11, <1>j DEF modify_ok, TypeOK, Registers, Value
    <2>2. job' \in Job
      <3>1. job \in [op : {"modify", "store"}, reg : Raw, mask : Value, val : Value]
        BY <1>11 DEF modify_ok, TypeOK, Job
      <3>2. Masked(chip[job.reg], job.mask, job.val) \in Value
        BY <1>j, ValueClosed DEF TypeOK, Registers
      <3>3. [job EXCEPT !.op = "store", !.val = Masked(chip[job.reg], job.mask, job.val)]
              \in [op : {"modify", "store"}, reg : Raw, mask : Value, val : Value]
        BY <3>1, <3>2
      <3>4. job' = job \/ job' = [job EXCEPT !.op = "store", !.val = Masked(chip[job.reg], job.mask, job.val)]
        BY <1>11 DEF modify_ok
      <3> QED
        BY <3>1, <3>3, <3>4 DEF Job
    <2>3. ret' \in Result /\ pc' \in {"idle", "readback", "writeback", "command"}
      BY <1>11, <1>s DEF modify_ok, Return, TypeOK, Value
    <2> QED
      BY <1>11, <2>1, <2>2, <2>3 DEF modify_ok, cacheVars, TypeOK
  <1>12. CASE store_ok
    <2>1. chip' \in Registers /\ doubt' \in Registers
      BY <1>12, <1>j DEF store_ok, TypeOK, Registers, Value
    <2> QED
      BY <1>12, <2>1, <1>s DEF store_ok, Return, cacheVars, TypeOK, Value
  <1>13. CASE store_fail
    <2>1. chip' \in Registers /\ doubt' \in Registers
      BY <1>13, <1>j DEF store_fail, TypeOK, Registers, Value
    <2> QED
      BY <1>13, <2>1, <1>f DEF store_fail, Return, cacheVars, TypeOK
  <1>14. CASE UNCHANGED vars
    BY <1>14 DEF vars, TypeOK
  <1>15. CASE readback_abort
    <2>1. PICK abtRes \in [Reg -> Value] :
            /\ wb_data' = [r \in Reg |-> IF Partial(r) THEN Masked(abtRes[r], wb_mask[r], wb_data[r]) ELSE wb_data[r]]
            /\ wb_mask' = [r \in Reg |->
                             IF ~Partial(r) THEN wb_mask[r]
                             ELSE IF wb_data'[r] # abtRes[r] THEN Bit ELSE {}]
      BY <1>15 DEF readback_abort
    <2>2. wb_data' \in [Reg -> Value] /\ wb_mask' \in [Reg -> Value]
      <3>1. \A r \in Reg : Masked(abtRes[r], wb_mask[r], wb_data[r]) \in Value
        BY ValueClosed DEF TypeOK
      <3>2. {} \in Value /\ Bit \in Value
        BY DEF Value
      <3> QED
        BY <2>1, <3>1, <3>2 DEF TypeOK
    <2>3. doubt' \in Registers
      <3>1. Bit \in Value
        BY DEF Value
      <3> QED
        BY <1>15, <3>1 DEF readback_abort, TypeOK, Registers
    <2> QED
      BY <1>15, <2>2, <2>3 DEF readback_abort, TypeOK
  <1>16. CASE writeback_abort
    <2>1. chip' \in Registers
      BY <1>16 DEF writeback_abort, TypeOK, Registers, AllReg
    <2> QED
      BY <1>16, <2>1, <1>n, <1>m, <1>d DEF writeback_abort, TypeOK
  <1>17. CASE command_abort
    <2>1. Unanswered \in Result
      BY DEF Result
    <2>2. chip' \in Registers
      BY <1>17 DEF command_abort, Disturbed, TypeOK
    <2> QED
      BY <1>17, <2>1, <2>2 DEF command_abort, Return, cacheVars, TypeOK
  <1>18. CASE modify_abort
    <2>1. doubt' \in Registers
      BY <1>18, <1>j DEF modify_abort, TypeOK, Registers, Value
    <2>2. PICK current \in Value :
            job' = job \/ job' = [job EXCEPT !.op = "store", !.val = Masked(current, job.mask, job.val)]
      BY <1>18 DEF modify_abort
    <2>3. job' \in Job
      <3>1. job \in [op : {"modify", "store"}, reg : Raw, mask : Value, val : Value]
        BY <1>18 DEF modify_abort, TypeOK, Job
      <3>2. Masked(current, job.mask, job.val) \in Value
        BY <1>j, ValueClosed
      <3>3. [job EXCEPT !.op = "store", !.val = Masked(current, job.mask, job.val)]
              \in [op : {"modify", "store"}, reg : Raw, mask : Value, val : Value]
        BY <3>1, <3>2
      <3> QED
        BY <2>2, <3>1, <3>3 DEF Job
    <2>4. ret' \in Result /\ pc' \in {"idle", "readback", "writeback", "command"}
      BY <1>18, <1>s DEF modify_abort, Return, TypeOK, Value
    <2> QED
      BY <1>18, <2>1, <2>3, <2>4 DEF modify_abort, cacheVars, TypeOK
  <1>19. CASE store_abort
    <2>1. chip' \in Registers /\ doubt' \in Registers
      BY <1>19, <1>j DEF store_abort, TypeOK, Registers, Value
    <2> QED
      BY <1>19, <2>1, <1>s DEF store_abort, Return, cacheVars, TypeOK, Value
  <1> QED
    BY <1>1, <1>2, <1>3, <1>4, <1>5, <1>6, <1>7, <1>8, <1>9, <1>10, <1>11,
       <1>12, <1>13, <1>14, <1>15, <1>16, <1>17, <1>18, <1>19 DEF Next

\* The fields of the write-back cache, the chip and the history keep their
\* types in every behaviour of the code.
THEOREM Typing == Spec => []TypeOK
  <1> QED
    BY InitType, NextType, PTL DEF Spec

-----------------------------------------------------------------------------
(* The invariant of the cache                                              *)

LEMMA InitCache == Init => CacheInv
  <1> SUFFICES ASSUME Init PROVE CacheInv
    OBVIOUS
  <1>1. TypeOK
    BY InitType
  <1>2. \A r \in AllReg : dirty[r] = {}
    BY DEF Init, None
  <1> QED
    BY <1>1, <1>2 DEF Init, CacheInv, PendingWhileCached, PendingAfterReadback,
       NothingForgotten, FlushedBeforeCommand, RawNeverDirty, StoreInProgress, AllReg

LEMMA NextCache == CacheInv /\ [Next]_vars => CacheInv'
  <1> SUFFICES ASSUME CacheInv, [Next]_vars PROVE CacheInv'
    OBVIOUS
  <1>t. TypeOK /\ TypeOK'
    BY NextType DEF CacheInv
  <1>j. /\ job.mask \in Value /\ job.val \in Value
        /\ job.op \in {"modify", "store"} => job.reg \in Raw
    BY <1>t, JobType DEF TypeOK
  <1>n. \A r \in AllReg : None[r] = {}
    BY DEF None
  <1>r. Reg \subseteq AllReg /\ Raw \subseteq AllReg /\ \A r \in Raw : r \notin Reg
    BY RegisterAssumption DEF AllReg
  <1> USE DEF CacheInv
  <1>1. ASSUME NEW r \in Reg, NEW m \in Value, NEW v \in Value,
               write_register(r, m, v)
        PROVE  CacheInv'
    <2>1. /\ dirty' = [dirty EXCEPT ![r] = @ \cup m]
          /\ doubt' = [doubt EXCEPT ![r] = @ \ m]
          /\ wb_mask' = [wb_mask EXCEPT ![r] = @ \cup m]
          /\ pc = "idle" /\ pc' = "idle" /\ wb_trigged'
      BY <1>1 DEF write_register
    <2>2. PendingWhileCached'
      BY <2>1, <1>t, <1>r DEF PendingWhileCached, TypeOK, Registers
    <2>3. RawNeverDirty'
      BY <2>1, <1>t, <1>r DEF RawNeverDirty, TypeOK, Registers
    <2> QED
      BY <2>1, <2>2, <2>3, <1>t DEF PendingAfterReadback, NothingForgotten,
         FlushedBeforeCommand, StoreInProgress
  <1>2. ASSUME NEW j \in Request, transceive(j)
        PROVE  CacheInv'
    <2>1. pc = "idle" /\ job' = j /\ ~wb_trigged'
          /\ UNCHANGED <<chip, wb_data, wb_mask, ret, dirty, doubt>>
      BY <1>2 DEF transceive
    <2>2. \/ ~wb_trigged /\ pc' = "command"
          \/ pc' = "readback"
          \/ /\ pc' = "writeback"
             /\ \A r \in Reg : wb_mask[r] \in {{}, Bit}
      BY <1>2, <1>t DEF transceive, TypeOK, Partial
    <2>3. PendingWhileCached' /\ RawNeverDirty'
      BY <2>1 DEF PendingWhileCached, RawNeverDirty
    <2>4. PendingAfterReadback'
      <3> SUFFICES ASSUME pc' = "writeback", NEW r \in Reg
                   PROVE  /\ wb_mask[r] \in {{}, Bit}
                          /\ wb_mask[r] = {} => dirty[r] \subseteq doubt[r] \/ wb_data[r] = chip[r]
                          /\ wb_mask[r] = Bit =>
                               wb_data[r] \ (dirty[r] \cup doubt[r])
                                 = chip[r] \ (dirty[r] \cup doubt[r])
        BY <2>1 DEF PendingAfterReadback
      <3>1. dirty[r] \subseteq wb_mask[r] /\ wb_mask[r] \subseteq dirty[r] \cup doubt[r]
        BY <2>1 DEF PendingWhileCached
      <3>2. wb_data[r] \subseteq Bit /\ chip[r] \subseteq Bit
        BY <1>t, <1>r DEF TypeOK, Registers, Value
      <3>3. wb_mask[r] = Bit => wb_data[r] \ (dirty[r] \cup doubt[r]) = {}
                                /\ chip[r] \ (dirty[r] \cup doubt[r]) = {}
        BY <3>1, <3>2
      <3> QED
        BY <3>1, <3>3, <2>2
    <2>5. FlushedBeforeCommand'
      <3> SUFFICES ASSUME pc' = "command" PROVE FlushedBeforeCommand'
        BY DEF FlushedBeforeCommand
      <3>1. dirty = None
        BY <2>1, <2>2 DEF NothingForgotten
      <3> QED
        BY <3>1, <2>1, <1>n, <1>r DEF FlushedBeforeCommand, PendingWhileCached
    <2>6. NothingForgotten'
      BY <2>1, <2>2 DEF NothingForgotten
    <2>7. StoreInProgress'
      <3>1. CASE j.op = "store"
        <4>1. j.mask = Bit /\ j.val \subseteq Bit
          BY <3>1, JobType DEF Request, Value
        <4>2. chip[j.reg] \subseteq Bit
          BY <1>t, JobType DEF TypeOK, Registers, Request, Value
        <4> QED
          BY <4>1, <4>2, <2>1 DEF StoreInProgress
      <3> QED
        BY <3>1, <2>1 DEF StoreInProgress
    <2> QED
      BY <2>3, <2>4, <2>5, <2>6, <2>7, <1>t
  <1>3. CASE readback_ok
    <2>1. pc = "readback" /\ pc' = "writeback"
          /\ UNCHANGED <<chip, wb_trigged, job, ret, dirty, doubt>>
      BY <1>3 DEF readback_ok
    <2>2. PendingAfterReadback'
      <3> SUFFICES ASSUME NEW r \in Reg
                   PROVE  /\ wb_mask'[r] \in {{}, Bit}
                          /\ wb_mask'[r] = {} => dirty[r] \subseteq doubt[r] \/ wb_data'[r] = chip[r]
                          /\ wb_mask'[r] = Bit =>
                               wb_data'[r] \ (dirty[r] \cup doubt[r])
                                 = chip[r] \ (dirty[r] \cup doubt[r])
        BY <2>1 DEF PendingAfterReadback
      <3>1. dirty[r] \subseteq wb_mask[r] /\ wb_mask[r] \subseteq dirty[r] \cup doubt[r]
        BY <2>1 DEF PendingWhileCached
      <3>2. wb_data[r] \subseteq Bit /\ wb_mask[r] \subseteq Bit /\ chip[r] \subseteq Bit
        BY <1>t, <1>r DEF TypeOK, Registers, Value
      <3>3. CASE Partial(r)
        <4>1. wb_data'[r] = (wb_data[r] \cap wb_mask[r]) \cup (chip[r] \ wb_mask[r])
          BY <1>3, <3>3 DEF readback_ok, Completed, Masked
        <4>2. wb_mask'[r] = IF wb_data'[r] # chip[r] THEN Bit ELSE {}
          BY <1>3, <3>3 DEF readback_ok
        <4>3. wb_data'[r] \ (dirty[r] \cup doubt[r]) = chip[r] \ (dirty[r] \cup doubt[r])
          BY <4>1, <3>1
        <4> QED
          BY <4>2, <4>3, RegisterAssumption
      <3>4. CASE ~Partial(r)
        <4>1. wb_data'[r] = wb_data[r] /\ wb_mask'[r] = wb_mask[r] /\ wb_mask[r] \in {{}, Bit}
          BY <1>3, <3>4 DEF readback_ok, Partial
        <4>2. wb_mask[r] = {} => dirty[r] = {}
          BY <3>1
        <4>3. wb_mask[r] = Bit => wb_data[r] \ (dirty[r] \cup doubt[r]) = {}
                                  /\ chip[r] \ (dirty[r] \cup doubt[r]) = {}
          BY <3>1, <3>2
        <4> QED
          BY <4>1, <4>2, <4>3
      <3> QED
        BY <3>3, <3>4
    <2> QED
      BY <2>1, <2>2, <1>t DEF PendingWhileCached, NothingForgotten,
         FlushedBeforeCommand, RawNeverDirty, StoreInProgress
  <1>4. CASE readback_fail
    <2>1. /\ pc = "readback" /\ pc' = "idle" /\ dirty' = None
          /\ doubt' = [r \in AllReg |-> doubt[r] \cup dirty[r]]
          /\ UNCHANGED <<chip, wb_data, wb_mask, wb_trigged, job>>
      BY <1>4 DEF readback_fail, Return, PutInDoubt, cacheVars
    <2>2. PendingWhileCached'
      BY <2>1, <1>n, <1>r DEF PendingWhileCached
    <2> QED
      BY <2>1, <2>2, <1>n, <1>r, <1>t DEF PendingAfterReadback, NothingForgotten,
         FlushedBeforeCommand, RawNeverDirty, StoreInProgress
  <1>5. CASE writeback_ok
    <2>1. /\ pc = "writeback" /\ pc' = "command" /\ dirty' = None
          /\ wb_mask' = [r \in Reg |-> IF Whole(r) THEN {} ELSE wb_mask[r]]
          /\ chip' = [r \in AllReg |-> IF r \in Reg /\ Whole(r) THEN wb_data[r] ELSE chip[r]]
          /\ UNCHANGED <<wb_data, wb_trigged, job, doubt>>
      BY <1>5 DEF writeback_ok, ResetMasks
    <2>2. FlushedBeforeCommand'
      BY <2>1 DEF FlushedBeforeCommand, PendingAfterReadback, Whole
    <2>3. StoreInProgress'
      <3> SUFFICES ASSUME job.op = "store" PROVE chip'[job.reg] = chip[job.reg]
        BY <2>1 DEF StoreInProgress
      <3> QED
        BY <1>j, <1>r, <2>1
    <2> QED
      BY <2>1, <2>2, <2>3, <1>n, <1>r, <1>t DEF PendingWhileCached, PendingAfterReadback,
         NothingForgotten, RawNeverDirty
  <1>6. CASE writeback_fail
    <2>1. /\ pc = "writeback" /\ pc' = "idle" /\ dirty' = None
          /\ wb_mask' = [r \in Reg |-> IF Whole(r) THEN {} ELSE wb_mask[r]]
          /\ doubt' = [r \in AllReg |-> doubt[r] \cup dirty[r]]
          /\ UNCHANGED <<wb_data, wb_trigged, job>>
      BY <1>6 DEF writeback_fail, ResetMasks, Return, PutInDoubt
    <2>2. PendingWhileCached'
      BY <2>1, <1>n, <1>r DEF PendingWhileCached, PendingAfterReadback, Whole
    <2> QED
      BY <2>1, <2>2, <1>n, <1>r, <1>t DEF PendingAfterReadback, NothingForgotten,
         FlushedBeforeCommand, RawNeverDirty, StoreInProgress
  <1>7. ASSUME pc = "command", pc' = "idle", UNCHANGED <<cacheVars, dirty>>,
               \A r \in Reg : doubt'[r] = doubt[r]
        PROVE  CacheInv'
    <2>1. wb_mask' = wb_mask /\ dirty' = None
      BY <1>7 DEF cacheVars, FlushedBeforeCommand
    <2>2. PendingWhileCached'
      BY <1>7, <2>1, <1>n, <1>r DEF PendingWhileCached, FlushedBeforeCommand
    <2> QED
      BY <1>7, <2>1, <2>2, <1>n, <1>r, <1>t DEF PendingAfterReadback, NothingForgotten,
         FlushedBeforeCommand, RawNeverDirty, StoreInProgress, cacheVars
  <1>8. CASE read_ok \/ read_fail \/ exec_ok \/ exec_fail
    BY <1>8, <1>7 DEF read_ok, read_fail, exec_ok, exec_fail, Return
  <1>9. CASE store_ok \/ store_fail
    <2>1. job.reg \in Raw
      BY <1>9, <1>j DEF store_ok, store_fail
    <2>2. \A r \in Reg : doubt'[r] = doubt[r]
      BY <1>9, <2>1, <1>r, <1>t DEF store_ok, store_fail, TypeOK, Registers
    <2> QED
      BY <1>9, <1>7, <2>2 DEF store_ok, store_fail, Return
  <1>10. CASE modify_ok
    <2>1. job.reg \in Raw
      BY <1>10, <1>j DEF modify_ok
    <2>2. CASE job' = job /\ pc' = "idle"
      <3>1. \A r \in Reg : doubt'[r] = doubt[r]
        BY <1>10, <2>1, <1>r, <1>t DEF modify_ok, TypeOK, Registers
      <3> QED
        BY <1>10, <1>7, <2>2, <3>1 DEF modify_ok
    <2>3. CASE /\ job' = [job EXCEPT !.op = "store",
                            !.val = Masked(chip[job.reg], job.mask, job.val)]
               /\ UNCHANGED <<pc, doubt>>
      <3>1. pc = "command" /\ UNCHANGED <<chip, wb_data, wb_mask, wb_trigged, dirty, pc, doubt>>
        BY <1>10, <2>3 DEF modify_ok, cacheVars
      <3>2. StoreInProgress'
        <4>1. job.reg \in AllReg /\ job \in Job
          BY <2>1, <1>r, <1>t DEF TypeOK
        <4>2. /\ job'.reg = job.reg /\ job'.mask = job.mask
              /\ job'.val = Masked(chip[job.reg], job.mask, job.val)
          BY <2>3, <4>1 DEF Job
        <4> QED
          BY <3>1, <4>2 DEF StoreInProgress, Masked
      <3> QED
        BY <3>1, <3>2, <1>t DEF PendingWhileCached, PendingAfterReadback,
           NothingForgotten, FlushedBeforeCommand, RawNeverDirty
    <2> QED
      BY <1>10, <2>2, <2>3 DEF modify_ok, Return
  <1>11. CASE UNCHANGED vars
    BY <1>11, <1>t DEF vars, PendingWhileCached, PendingAfterReadback,
       NothingForgotten, FlushedBeforeCommand, RawNeverDirty, StoreInProgress
  <1>12. CASE readback_abort
    <2>1. /\ pc = "readback" /\ pc' = "writeback"
          /\ doubt' = [r \in AllReg |-> IF r \in Reg /\ Partial(r) THEN Bit ELSE doubt[r]]
          /\ UNCHANGED <<chip, wb_trigged, job, ret, dirty>>
      BY <1>12 DEF readback_abort
    <2>2. ASSUME NEW r \in Reg, Partial(r)
          PROVE  wb_mask'[r] \in {{}, Bit} /\ doubt'[r] = Bit /\ wb_data'[r] \subseteq Bit /\ chip[r] \subseteq Bit
                 /\ dirty[r] \subseteq Bit
      BY <1>12, <1>t, <1>r, <2>1, <2>2 DEF readback_abort, TypeOK, Registers, Value
    <2>3. ASSUME NEW r \in Reg, ~Partial(r)
          PROVE  wb_mask'[r] = wb_mask[r] /\ wb_mask[r] \in {{}, Bit} /\ wb_data'[r] = wb_data[r] /\ doubt'[r] = doubt[r]
                 /\ wb_data[r] \subseteq Bit /\ chip[r] \subseteq Bit
      BY <1>12, <1>t, <1>r, <2>1, <2>3 DEF readback_abort, Partial, TypeOK, Registers, Value
    <2>4. PendingAfterReadback'
      <3> SUFFICES ASSUME NEW r \in Reg
                   PROVE  /\ wb_mask'[r] \in {{}, Bit}
                          /\ wb_mask'[r] = {} => dirty[r] \subseteq doubt'[r] \/ wb_data'[r] = chip[r]
                          /\ wb_mask'[r] = Bit =>
                               wb_data'[r] \ (dirty[r] \cup doubt'[r])
                                 = chip[r] \ (dirty[r] \cup doubt'[r])
        BY <2>1 DEF PendingAfterReadback
      <3>1. dirty[r] \subseteq wb_mask[r] /\ wb_mask[r] \subseteq dirty[r] \cup doubt[r]
        BY <2>1 DEF PendingWhileCached
      <3>2. CASE Partial(r)
        BY <2>2, <3>2
      <3>3. CASE ~Partial(r)
        BY <2>3, <3>1, <3>3
      <3> QED
        BY <3>2, <3>3
    <2>5. StoreInProgress'
      <3> SUFFICES ASSUME job.op = "store" PROVE doubt'[job.reg] = doubt[job.reg]
        BY <2>1 DEF StoreInProgress
      <3> QED
        BY <1>j, <1>r, <2>1
    <2> QED
      BY <2>1, <2>4, <2>5, <1>t DEF PendingWhileCached, NothingForgotten,
         FlushedBeforeCommand, RawNeverDirty
  <1>13. CASE writeback_abort
    <2>1. /\ pc = "writeback" /\ pc' = "command" /\ dirty' = None
          /\ wb_mask' = [r \in Reg |-> IF Whole(r) THEN {} ELSE wb_mask[r]]
          /\ doubt' = [r \in AllReg |-> doubt[r] \cup dirty[r]]
          /\ UNCHANGED <<wb_data, wb_trigged, job>>
      BY <1>13 DEF writeback_abort, ResetMasks, PutInDoubt
    <2>2. FlushedBeforeCommand'
      BY <2>1 DEF FlushedBeforeCommand, PendingAfterReadback, Whole
    <2>3. StoreInProgress'
      <3> SUFFICES ASSUME job.op = "store" PROVE chip'[job.reg] = chip[job.reg] /\ doubt'[job.reg] = doubt[job.reg]
        BY <2>1 DEF StoreInProgress
      <3>1. chip'[job.reg] = chip[job.reg]
        BY <1>j, <1>r, <1>13 DEF writeback_abort
      <3>2. dirty[job.reg] = {}
        BY <1>j DEF RawNeverDirty
      <3> QED
        BY <1>j, <1>r, <2>1, <3>1, <3>2
    <2> QED
      BY <2>1, <2>2, <2>3, <1>n, <1>r, <1>t DEF PendingWhileCached, PendingAfterReadback,
         NothingForgotten, RawNeverDirty
  <1>14. CASE command_abort
    BY <1>14, <1>7 DEF command_abort, Return
  <1>15. CASE store_abort
    <2>1. job.reg \in Raw
      BY <1>15, <1>j DEF store_abort
    <2>2. \A r \in Reg : doubt'[r] = doubt[r]
      BY <1>15, <2>1, <1>r, <1>t DEF store_abort, TypeOK, Registers
    <2> QED
      BY <1>15, <1>7, <2>2 DEF store_abort, Return
  <1>16. CASE modify_abort
    <2>1. job.reg \in Raw /\ \A r \in Reg : doubt'[r] = doubt[r]
      BY <1>16, <1>j, <1>r, <1>t DEF modify_abort, TypeOK, Registers
    <2>2. CASE pc' = "idle"
      BY <1>16, <1>7, <2>1, <2>2 DEF modify_abort
    <2>3. CASE /\ job' = [job EXCEPT !.op = "store", !.val = job'.val]
               /\ doubt' = [doubt EXCEPT ![job.reg] = Bit] /\ UNCHANGED pc
      <3>1. pc = "command" /\ UNCHANGED <<chip, wb_data, wb_mask, wb_trigged, dirty, pc>>
        BY <1>16, <2>3 DEF modify_abort, cacheVars
      <3>2. StoreInProgress'
        <4>1. job.reg \in AllReg /\ job \in Job
          BY <2>1, <1>r, <1>t DEF TypeOK
        <4>2. job'.reg = job.reg /\ job'.val \subseteq Bit /\ chip'[job.reg] \subseteq Bit
          <5>1. job'.reg = job.reg
            BY <2>3, <4>1 DEF Job
          <5>2. job'.val \in Value
            BY <1>t, JobType DEF TypeOK
          <5> QED
            BY <1>t, <4>1, <5>1, <5>2 DEF TypeOK, Registers, Value
        <4>3. doubt'[job'.reg] = Bit
          BY <1>t, <2>3, <4>1, <4>2 DEF TypeOK, Registers
        <4> QED
          BY <4>2, <4>3 DEF StoreInProgress
      <3> QED
        BY <2>1, <3>1, <3>2, <1>t DEF PendingWhileCached, PendingAfterReadback,
           NothingForgotten, FlushedBeforeCommand, RawNeverDirty
    <2>4. PICK current \in Value :
            \/ pc' = "idle"
            \/ /\ job' = [job EXCEPT !.op = "store", !.val = Masked(current, job.mask, job.val)]
               /\ doubt' = [doubt EXCEPT ![job.reg] = Bit] /\ UNCHANGED pc
      BY <1>16 DEF modify_abort, Return
    <2>5. job' = [job EXCEPT !.op = "store", !.val = Masked(current, job.mask, job.val)]
            => job' = [job EXCEPT !.op = "store", !.val = job'.val]
      BY <1>t DEF TypeOK, Job
    <2> QED
      BY <2>2, <2>3, <2>4, <2>5
  <1> QED
    BY <1>1, <1>2, <1>3, <1>4, <1>5, <1>6, <1>8, <1>9, <1>10, <1>11, <1>12, <1>13,
       <1>14, <1>15, <1>16 DEF Next

\* Through any sequence of writes, commands and failed exchanges, the cache
\* keeps every unsent bit pending, is clean when a command goes out, and
\* completes a partial register with nothing but the chip's own bits, unless
\* the reading was aborted: then every bit of that register is in doubt.
THEOREM CacheSafety == Spec => []CacheInv
  <1> QED
    BY InitCache, NextCache, PTL DEF Spec

-----------------------------------------------------------------------------
(* The register file is implemented                                        *)

LEMMA InitFile == Init => File!FileInit
  <1> SUFFICES ASSUME Init PROVE File!FileInit
    OBVIOUS
  <1>1. TypeOK
    BY InitType
  <1>2. Mem \in Registers
    BY <1>1, ValueClosed DEF Mem, Completed, TypeOK, Registers, AllReg
  <1> QED
    BY <1>2 DEF Init, File!FileInit, File!Registers, File!None, File!Success,
       File!AllReg, File!Value, Registers, None, Success, AllReg, Value

\* What a step does to the callers' view of the registers.
LEMMA ViewOfStep ==
    ASSUME CacheInv, Next
    PROVE  /\ Mem \in Registers /\ Mem' \in Registers
           /\ readback_ok => Mem' = Mem
           /\ writeback_ok => Mem' = Mem
  <1>t. TypeOK /\ TypeOK'
    BY NextType DEF CacheInv
  <1>1. Mem \in Registers
    BY <1>t, ValueClosed DEF Mem, Completed, TypeOK, Registers, AllReg
  <1>2. Mem' \in Registers
    <2>1. \A r \in Reg : Masked(chip'[r], wb_mask'[r], wb_data'[r]) \in Value
      BY <1>t, ValueClosed DEF TypeOK, Registers, AllReg
    <2> QED
      BY <1>t, <2>1 DEF Mem, Completed, TypeOK, Registers, AllReg
  <1>3. ASSUME readback_ok PROVE Mem' = Mem
    <2> SUFFICES ASSUME NEW r \in Reg
                 PROVE  Masked(chip'[r], wb_mask'[r], wb_data'[r])
                          = Masked(chip[r], wb_mask[r], wb_data[r])
      BY <1>3 DEF Mem, Completed, readback_ok
    <2>1. wb_data[r] \subseteq Bit /\ wb_mask[r] \subseteq Bit /\ chip[r] \subseteq Bit
      BY <1>t DEF TypeOK, Registers, Value, AllReg
    <2>2. CASE Partial(r)
      <3>1. /\ wb_data'[r] = Masked(chip[r], wb_mask[r], wb_data[r])
            /\ wb_mask'[r] = IF wb_data'[r] # chip[r] THEN Bit ELSE {}
            /\ chip' = chip
        BY <1>3, <2>2 DEF readback_ok, Completed
      <3>2. wb_data'[r] \subseteq Bit
        BY <3>1, <2>1 DEF Masked
      <3>3. Masked(chip[r], wb_mask'[r], wb_data'[r]) = wb_data'[r]
        BY <3>1, <3>2, <2>1 DEF Masked
      <3> QED
        BY <3>1, <3>3
    <2>3. CASE ~Partial(r)
      BY <1>3, <2>3 DEF readback_ok
    <2> QED
      BY <2>2, <2>3
  <1>4. ASSUME writeback_ok PROVE Mem' = Mem
    <2>1. \A r \in Raw : chip'[r] = chip[r]
      BY <1>4, RegisterAssumption DEF writeback_ok, AllReg
    <2> SUFFICES ASSUME NEW r \in Reg
                 PROVE  Masked(chip'[r], wb_mask'[r], wb_data'[r])
                          = Masked(chip[r], wb_mask[r], wb_data[r])
      BY <2>1 DEF Mem, Completed, AllReg
    <2>2. wb_data[r] \subseteq Bit /\ wb_mask[r] \subseteq Bit /\ chip[r] \subseteq Bit
      BY <1>t DEF TypeOK, Registers, Value, AllReg
    <2>3. /\ wb_data'[r] = wb_data[r]
          /\ wb_mask'[r] = IF Whole(r) THEN {} ELSE wb_mask[r]
          /\ chip'[r] = IF Whole(r) THEN wb_data[r] ELSE chip[r]
      BY <1>4 DEF writeback_ok, ResetMasks, AllReg
    <2> QED
      BY <2>2, <2>3 DEF Whole, Masked
  <1> QED
    BY <1>1, <1>2, <1>3, <1>4

\* Every step of the code is a step of the register file, or none.
LEMMA NextFile == CacheInv /\ [Next]_vars => [File!FileNext]_File!fileVars
  <1> SUFFICES ASSUME CacheInv, Next PROVE [File!FileNext]_File!fileVars
    BY DEF vars, File!fileVars, Mem, Completed
  <1> USE DEF File!Registers, File!None, File!Success, File!Failure, File!AllReg,
              File!Value, File!Masked, File!Unanswered, File!Kept, Registers, None, Success, Failure, Unanswered
  <1>t. TypeOK /\ TypeOK'
    BY NextType DEF CacheInv
  <1>v. Mem \in [AllReg -> Value] /\ Mem' \in [AllReg -> Value]
    BY ViewOfStep
  <1>j. /\ job.reg \in AllReg /\ job.mask \in Value /\ job.val \in Value
        /\ job.op \in {"modify", "store"} => job.reg \in Raw
    BY <1>t, JobType DEF TypeOK
  <1>r. Reg \cup Raw = AllReg /\ \A r \in Raw : r \notin Reg
    BY RegisterAssumption DEF AllReg
  <1>m. /\ \A r \in Reg : Mem[r] = Masked(chip[r], wb_mask[r], wb_data[r])
        /\ \A r \in Reg : Mem'[r] = Masked(chip'[r], wb_mask'[r], wb_data'[r])
        /\ \A r \in Raw : Mem[r] = chip[r] /\ Mem'[r] = chip'[r]
    BY <1>r DEF Mem, Completed
  <1>d. pc = "command" => \A r \in AllReg : dirty[r] = {}
    BY DEF CacheInv, FlushedBeforeCommand
  <1>1. ASSUME NEW r \in Reg, NEW m \in Value, NEW v \in Value,
               write_register(r, m, v)
        PROVE  File!Buffer(r, m, v)
    <2>1. /\ wb_data' = [wb_data EXCEPT ![r] = ((@ \cap wb_mask[r]) \ m) \cup (v \cap m)]
          /\ wb_mask' = [wb_mask EXCEPT ![r] = @ \cup m]
          /\ chip' = chip
      BY <1>1 DEF write_register
    <2>2. Mem'[r] = Masked(Mem[r], m, v)
      <3>1. wb_data'[r] = ((wb_data[r] \cap wb_mask[r]) \ m) \cup (v \cap m)
            /\ wb_mask'[r] = wb_mask[r] \cup m
        BY <2>1, <1>t DEF TypeOK
      <3> QED
        BY <3>1, <2>1, <1>m DEF Masked
    <2>3. \A s \in AllReg : s # r => Mem'[s] = Mem[s]
      BY <2>1, <1>m, <1>r, <1>t DEF TypeOK
    <2>4. Mem' = [Mem EXCEPT ![r] = Masked(@, m, v)]
      BY <2>2, <2>3, <1>v, <1>r
    <2> QED
      BY <1>1, <2>4 DEF write_register, File!Buffer, Masked
  <1>2. ASSUME NEW j \in Request, transceive(j)
        PROVE  UNCHANGED File!fileVars
    BY <1>2 DEF transceive, File!fileVars, Mem, Completed
  <1>3. ASSUME readback_ok PROVE UNCHANGED File!fileVars
    BY <1>3, ViewOfStep DEF readback_ok, File!fileVars
  <1>4. ASSUME readback_fail PROVE File!Fail
    <2>1. Mem' = Mem
      BY <1>4 DEF readback_fail, cacheVars, Mem, Completed
    <2> QED
      BY <1>4, <2>1, <1>v DEF readback_fail, Return, PutInDoubt, File!Fail, AllReg, Value
  <1>5. ASSUME writeback_ok PROVE File!Sync
    BY <1>5, ViewOfStep DEF writeback_ok, File!Sync, AllReg
  <1>6. ASSUME writeback_fail PROVE File!Fail
    <2>1. ASSUME NEW r \in AllReg PROVE Mem'[r] \ doubt'[r] = Mem[r] \ doubt'[r]
      <3>1. doubt'[r] = doubt[r] \cup dirty[r]
        BY <1>6 DEF writeback_fail, PutInDoubt
      <3>2. CASE r \in Raw
        BY <3>2, <1>6, <1>m, <1>r DEF writeback_fail
      <3>3. CASE r \in Reg /\ wb_mask[r] = Bit
        <4>1. wb_mask'[r] = {} /\ chip'[r] \in {chip[r], wb_data[r]}
          BY <1>6, <3>3 DEF writeback_fail, ResetMasks, Whole
        <4>2. chip[r] \subseteq Bit /\ wb_data[r] \subseteq Bit
          BY <1>t, <3>3 DEF TypeOK, Value
        <4>3. Mem[r] = wb_data[r] /\ Mem'[r] = chip'[r]
          <5>1. Mem[r] = (wb_data[r] \cap Bit) \cup (chip[r] \ Bit)
            BY <3>3, <1>m DEF Masked
          <5>2. Mem'[r] = (wb_data'[r] \cap {}) \cup (chip'[r] \ {})
            BY <3>3, <4>1, <1>m DEF Masked
          <5> QED
            BY <5>1, <5>2, <4>2
        <4>4. wb_data[r] \ doubt'[r] = chip[r] \ doubt'[r]
          BY <3>1, <3>3, <1>6 DEF writeback_fail, CacheInv, PendingAfterReadback
        <4> QED
          BY <4>1, <4>3, <4>4
      <3>4. CASE r \in Reg /\ wb_mask[r] # Bit
        BY <3>4, <1>6, <1>m DEF writeback_fail, ResetMasks, Whole
      <3> QED
        BY <3>2, <3>3, <3>4, <1>r
    <2> QED
      BY <1>6, <2>1, <1>v DEF writeback_fail, Return, PutInDoubt, File!Fail, AllReg, Value
  <1>7. ASSUME pc = "command" PROVE chip[job.reg] \ doubt[job.reg] = Mem[job.reg] \ doubt[job.reg]
    <2>1. CASE job.reg \in Reg
      <3>1. wb_mask[job.reg] \subseteq doubt[job.reg]
        BY <1>7, <2>1 DEF CacheInv, FlushedBeforeCommand
      <3> QED
        BY <3>1, <2>1, <1>m DEF Masked
    <2> QED
      BY <2>1, <1>j, <1>r, <1>m
  <1>8. ASSUME read_ok PROVE File!Command(job.reg)
    <2>1. Mem' = Mem
      BY <1>8 DEF read_ok, cacheVars, Mem, Completed
    <2>2. chip[job.reg] \in Value
      BY <1>j, <1>t DEF TypeOK
    <2> QED
      BY <1>8, <1>7, <1>v, <2>1, <2>2 DEF read_ok, Return, File!Command,
         CacheInv, FlushedBeforeCommand, AllReg, Value
  <1>9. ASSUME chip' \in Disturbed, UNCHANGED cacheVars
        PROVE  \A s \in AllReg \ Volatile : Mem'[s] = Mem[s]
    BY <1>9, <1>m, <1>r DEF Disturbed, cacheVars
  <1>10. ASSUME exec_ok PROVE File!Command(job.reg)
    <2>1. chip[job.reg] \in Value
      BY <1>j, <1>t DEF TypeOK
    <2> QED
      BY <1>10, <1>7, <1>9, <1>v, <2>1 DEF exec_ok, Return, File!Command,
         CacheInv, FlushedBeforeCommand, AllReg, Value
  <1>11. ASSUME exec_fail \/ read_fail PROVE File!Fail
    <2>1. \A s \in AllReg \ Volatile : Mem'[s] = Mem[s]
      <3>1. CASE exec_fail
        BY <3>1, <1>9 DEF exec_fail
      <3>2. CASE read_fail
        BY <3>2 DEF read_fail, cacheVars, Mem, Completed
      <3> QED
        BY <1>11, <3>1, <3>2
    <2>2. /\ pc = "command" /\ ret' = Failure
          /\ UNCHANGED <<dirty, doubt>>
      BY <1>11 DEF exec_fail, read_fail, Return
    <2>3. doubt' = [r \in AllReg |-> doubt[r] \cup dirty[r]]
      BY <2>2, <1>d, <1>t DEF TypeOK
    <2>4. dirty = [r \in AllReg |-> {}]
      BY <2>2 DEF CacheInv, FlushedBeforeCommand
    <2> QED
      BY <2>1, <2>2, <2>3, <2>4, <1>v DEF File!Fail, AllReg, Value
  <1>12. ASSUME modify_ok
         PROVE  \/ UNCHANGED File!fileVars
                \/ job.reg \in Raw /\ File!Store(job.reg, job.mask, job.val)
    <2>1. Mem' = Mem /\ dirty' = dirty /\ dirty = None /\ job.reg \in Raw
      BY <1>12, <1>j DEF modify_ok, cacheVars, Mem, Completed, CacheInv, FlushedBeforeCommand
    <2>2. CASE UNCHANGED <<ret, doubt>>
      BY <2>1, <2>2 DEF File!fileVars
    <2>3. CASE /\ Masked(chip[job.reg], job.mask, job.val) = chip[job.reg]
               /\ ret' = Success({})
               /\ doubt' = [doubt EXCEPT ![job.reg] = @ \ job.mask]
      <3>1. Mem[job.reg] = Masked(Mem[job.reg], job.mask, job.val)
        BY <2>1, <2>3, <1>m
      <3>2. Mem' = [Mem EXCEPT ![job.reg] = Masked(Mem[job.reg], job.mask, job.val)]
        BY <2>1, <3>1, <1>v
      <3>3. Masked(Mem[job.reg], job.mask, job.val) \in Value
        BY <1>j, <1>r, <1>v, ValueClosed
      <3> QED
        BY <2>1, <2>3, <3>2, <3>3 DEF File!Store, Masked, AllReg, Value
    <2> QED
      BY <1>12, <2>2, <2>3 DEF modify_ok, Return
  <1>13. ASSUME pc = "command", job.op = "store", UNCHANGED cacheVars,
                chip' = [chip EXCEPT ![job.reg] = job.val]
         PROVE  /\ Mem' = [Mem EXCEPT ![job.reg] = job.val] /\ job.reg \in Raw /\ job.reg \in AllReg
                /\ job.val \ (job.mask \cup doubt[job.reg]) = Mem[job.reg] \ (job.mask \cup doubt[job.reg])
    <2>1. job.reg \in Raw /\ job.reg \in AllReg
          /\ job.val \ (job.mask \cup doubt[job.reg]) = Mem[job.reg] \ (job.mask \cup doubt[job.reg])
      BY <1>13, <1>j, <1>m, <1>r DEF CacheInv, StoreInProgress
    <2>2. Mem'[job.reg] = job.val
      BY <1>13, <2>1, <1>m, <1>t, <1>j DEF TypeOK
    <2>3. \A s \in AllReg : s # job.reg => Mem'[s] = Mem[s]
      BY <1>13, <1>m, <1>r, <1>t DEF TypeOK, cacheVars
    <2> QED
      BY <2>1, <2>2, <2>3, <1>v
  <1>14. ASSUME store_ok PROVE job.reg \in Raw /\ File!Store(job.reg, job.mask, job.val)
    <2>1. /\ pc = "command" /\ job.op = "store" /\ UNCHANGED cacheVars /\ chip' = [chip EXCEPT ![job.reg] = job.val]
          /\ doubt' = [doubt EXCEPT ![job.reg] = @ \ job.mask] /\ ret' = Success({}) /\ dirty' = dirty
      BY <1>14 DEF store_ok, Return
    <2>2. /\ Mem' = [Mem EXCEPT ![job.reg] = job.val] /\ job.reg \in Raw /\ job.reg \in AllReg
          /\ job.val \ (job.mask \cup doubt[job.reg]) = Mem[job.reg] \ (job.mask \cup doubt[job.reg])
      BY <1>13, <2>1
    <2>3. doubt'[job.reg] = doubt[job.reg] \ job.mask
      BY <1>t, <2>1, <2>2 DEF TypeOK
    <2>4. job.val \ doubt'[job.reg] = Masked(Mem[job.reg], job.mask, job.val) \ doubt'[job.reg]
      BY <2>2, <2>3 DEF Masked
    <2>5. dirty = None
      BY <2>1 DEF CacheInv, FlushedBeforeCommand
    <2> QED
      BY <1>j, <2>1, <2>2, <2>4, <2>5 DEF File!Store, Masked, AllReg, Value
  <1>15. ASSUME store_fail \/ store_abort
         PROVE  /\ \A s \in AllReg : Mem'[s] \ doubt'[s] = Mem[s] \ doubt'[s]
                /\ dirty = None /\ UNCHANGED dirty /\ job.reg \in Raw /\ job.mask \in Value
                /\ doubt' = [doubt EXCEPT ![job.reg] = @ \cup job.mask]
    <2>1. /\ pc = "command" /\ job.op = "store" /\ job.reg \in Raw /\ job.reg \in AllReg
          /\ dirty = None /\ UNCHANGED <<dirty, cacheVars>>
          /\ doubt' = [doubt EXCEPT ![job.reg] = @ \cup job.mask]
      BY <1>15, <1>j, <1>r DEF store_fail, store_abort, Return, CacheInv, FlushedBeforeCommand
    <2>2. ASSUME NEW s \in AllReg PROVE Mem'[s] \ doubt'[s] = Mem[s] \ doubt'[s]
      <3>1. CASE chip' = chip
        BY <3>1, <2>1 DEF cacheVars, Mem, Completed
      <3>2. CASE chip' = [chip EXCEPT ![job.reg] = job.val] /\ s # job.reg
        <4>1. Mem'[s] = Mem[s]
          BY <3>2, <2>1, <1>13, <1>v
        <4> QED
          BY <4>1
      <3>3. CASE chip' = [chip EXCEPT ![job.reg] = job.val] /\ s = job.reg
        <4>1. /\ Mem'[s] = job.val
              /\ job.val \ (job.mask \cup doubt[job.reg]) = Mem[job.reg] \ (job.mask \cup doubt[job.reg])
          BY <3>3, <2>1, <1>13, <1>v
        <4>2. doubt'[s] = doubt[job.reg] \cup job.mask
          BY <2>1, <3>3, <1>t DEF TypeOK
        <4> QED
          BY <3>3, <4>1, <4>2
      <3> QED
        BY <1>15, <3>1, <3>2, <3>3 DEF store_fail, store_abort
    <2> QED
      BY <2>1, <2>2, <1>j
  <1>16. ASSUME store_fail PROVE File!Fail
    <2>1. ret' = Failure
      BY <1>16 DEF store_fail, Return
    <2> QED
      BY <1>15, <1>16, <2>1, <1>v DEF File!Fail, AllReg, Value
  <1>17. ASSUME store_abort PROVE File!AbortCommand
    <2>1. ret' = Success({})
      BY <1>17 DEF store_abort, Return
    <2> QED
      BY <1>15, <1>17, <2>1, <1>v DEF File!AbortCommand, AllReg, Value
  <1>18. ASSUME command_abort PROVE File!AbortCommand
    <2>1. \A s \in AllReg \ Volatile : Mem'[s] = Mem[s]
      <3>1. CASE chip' \in Disturbed
        BY <1>9, <1>18, <3>1 DEF command_abort
      <3>2. CASE chip' = chip
        BY <1>18, <3>2 DEF command_abort, cacheVars, Mem, Completed
      <3> QED
        BY <1>18, <3>1, <3>2 DEF command_abort
    <2>2. ret' = Unanswered /\ dirty = None /\ UNCHANGED <<dirty, doubt>>
      BY <1>18 DEF command_abort, Return, CacheInv, FlushedBeforeCommand
    <2> QED
      BY <2>1, <2>2, <1>v DEF File!AbortCommand, AllReg, Value
  <1>19. ASSUME modify_abort PROVE File!AbortCommand
    <2>1. /\ Mem' = Mem /\ dirty' = dirty /\ dirty = None /\ job.reg \in Raw /\ job.reg \in AllReg
          /\ doubt[job.reg] \in Value
      BY <1>19, <1>j, <1>r, <1>t DEF modify_abort, cacheVars, Mem, Completed, CacheInv, FlushedBeforeCommand, TypeOK
    <2>2. ret' \in {ret, Success({})}
      BY <1>19 DEF modify_abort, Return
    <2>3. \E m \in Value : doubt' = [doubt EXCEPT ![job.reg] = @ \cup m]
      <3>1. CASE doubt' = [doubt EXCEPT ![job.reg] = Bit]
        <4>1. doubt[job.reg] \cup Bit = Bit /\ Bit \in Value
          BY <2>1 DEF Value
        <4>2. doubt' = [doubt EXCEPT ![job.reg] = @ \cup Bit]
          BY <3>1, <4>1
        <4> QED
          BY <4>1, <4>2
      <3>2. CASE doubt' = [doubt EXCEPT ![job.reg] = @ \cup job.mask]
        BY <1>j, <3>2
      <3> QED
        BY <1>19, <3>1, <3>2 DEF modify_abort
    <2> QED
      BY <2>1, <2>2, <2>3, <1>v DEF File!AbortCommand, AllReg, Value
  <1>20. ASSUME readback_abort PROVE File!AbortSync
    <2>1. /\ pc = "readback" /\ UNCHANGED <<chip, ret, dirty>>
          /\ doubt' = [r \in AllReg |-> IF r \in Reg /\ Partial(r) THEN Bit ELSE doubt[r]]
      BY <1>20 DEF readback_abort
    <2>2. ASSUME NEW r \in AllReg
          PROVE  /\ Mem'[r] \ doubt'[r] = Mem[r] \ doubt'[r] /\ doubt[r] \subseteq doubt'[r]
                 /\ dirty = None => dirty[r] \subseteq doubt'[r]
                 /\ (r \in Raw \/ dirty[r] \cup doubt[r] = {}) => doubt'[r] = doubt[r]
      <3>0. Mem[r] \subseteq Bit /\ Mem'[r] \subseteq Bit /\ doubt[r] \subseteq Bit
        BY <1>v, <1>t DEF TypeOK, Value
      <3>1. CASE r \in Reg /\ Partial(r)
        <4>1. doubt'[r] = Bit
          BY <2>1, <3>1
        <4>2. wb_mask[r] # {} /\ wb_mask[r] \subseteq dirty[r] \cup doubt[r] /\ r \notin Raw
          BY <1>r, <2>1, <3>1 DEF Partial, CacheInv, PendingWhileCached
        <4>3. dirty[r] \subseteq Bit
          BY <1>t DEF TypeOK, Value
        <4> QED
          BY <3>0, <4>1, <4>2, <4>3
      <3>2. CASE r \in Reg /\ ~Partial(r)
        <4>1. doubt'[r] = doubt[r] /\ wb_mask'[r] = wb_mask[r] /\ wb_data'[r] = wb_data[r]
          BY <1>20, <2>1, <3>2 DEF readback_abort
        <4>2. Mem'[r] = Mem[r]
          BY <1>m, <2>1, <3>2, <4>1
        <4> QED
          BY <4>1, <4>2
      <3>3. CASE r \in Raw
        <4>1. Mem'[r] = Mem[r] /\ doubt'[r] = doubt[r] /\ dirty[r] = {}
          BY <1>m, <1>r, <2>1, <3>3 DEF CacheInv, RawNeverDirty
        <4> QED
          BY <4>1
      <3> QED
        BY <1>r, <3>1, <3>2, <3>3
    <2>3. doubt' \in [AllReg -> Value]
      BY <1>t DEF TypeOK
    <2> QED
      BY <2>1, <2>2, <2>3, <1>v DEF File!AbortSync, AllReg, Value
  <1>21. ASSUME writeback_abort PROVE File!AbortSync
    <2>1. ASSUME NEW r \in AllReg PROVE Mem'[r] \ doubt'[r] = Mem[r] \ doubt'[r]
      <3>1. doubt'[r] = doubt[r] \cup dirty[r]
        BY <1>21 DEF writeback_abort, PutInDoubt
      <3>2. CASE r \in Raw
        BY <3>2, <1>21, <1>m, <1>r DEF writeback_abort
      <3>3. CASE r \in Reg /\ wb_mask[r] = Bit
        <4>1. wb_mask'[r] = {} /\ chip'[r] \in {chip[r], wb_data[r]}
          BY <1>21, <3>3 DEF writeback_abort, ResetMasks, Whole
        <4>2. chip[r] \subseteq Bit /\ wb_data[r] \subseteq Bit
          BY <1>t, <3>3 DEF TypeOK, Value
        <4>3. Mem[r] = wb_data[r] /\ Mem'[r] = chip'[r]
          <5>1. Mem[r] = (wb_data[r] \cap Bit) \cup (chip[r] \ Bit)
            BY <3>3, <1>m DEF Masked
          <5>2. Mem'[r] = (wb_data'[r] \cap {}) \cup (chip'[r] \ {})
            BY <3>3, <4>1, <1>m DEF Masked
          <5> QED
            BY <5>1, <5>2, <4>2
        <4>4. wb_data[r] \ doubt'[r] = chip[r] \ doubt'[r]
          BY <3>1, <3>3, <1>21 DEF writeback_abort, CacheInv, PendingAfterReadback
        <4> QED
          BY <4>1, <4>3, <4>4
      <3>4. CASE r \in Reg /\ wb_mask[r] # Bit
        BY <3>4, <1>21, <1>m DEF writeback_abort, ResetMasks, Whole
      <3> QED
        BY <3>2, <3>3, <3>4, <1>r
    <2>2. /\ dirty' = None /\ UNCHANGED ret /\ doubt' = [r \in AllReg |-> doubt[r] \cup dirty[r]]
          /\ doubt' \in [AllReg -> Value]
      BY <1>21, <1>t DEF writeback_abort, PutInDoubt, TypeOK
    <2>3. \A r \in Raw : dirty[r] = {}
      BY DEF CacheInv, RawNeverDirty
    <2>4. ASSUME NEW r \in AllReg
          PROVE  /\ doubt[r] \subseteq doubt'[r] /\ dirty[r] \subseteq doubt'[r]
                 /\ (r \in Raw \/ dirty[r] \cup doubt[r] = {}) => doubt'[r] = doubt[r]
      BY <2>2, <2>3
    <2> QED
      BY <2>1, <2>2, <2>4, <1>v DEF File!AbortSync, AllReg, Value
  <1> QED
    BY <1>1, <1>2, <1>3, <1>4, <1>5, <1>6, <1>8, <1>10, <1>11, <1>12, <1>14,
       <1>16, <1>17, <1>18, <1>19, <1>20, <1>21, <1>j DEF Next, File!FileNext, AllReg, Value

\* The write-back cache implements the register file: a command runs under
\* every value written before it, and an exchange that fails puts in doubt the
\* bits it was carrying and no others, for any registers and any width.  An abort
\* that pn532_uart_receive reports as a success reaches further: into the other
\* bits of the registers that had bits to be sent, or in doubt.
THEOREM CacheImplementsRegisterFile == Spec => ImplementsRegisterFile
  <1> QED
    BY InitFile, NextFile, CacheSafety, PTL DEF Spec, ImplementsRegisterFile, File!FileSpec

-----------------------------------------------------------------------------
(* Listing and opening devices                                             *)

\* The devices of a process behind PC/SC
Pcsc(D) == {x \in D : x.driver = "acr122_pcsc"}

Shapes ==
    /\ DOMAIN task = Proc /\ DOMAIN held = Proc /\ DOMAIN dev = Proc /\ DOMAIN touched = Proc
    /\ refs \in [Proc -> Nat] /\ lost \in [Proc -> Nat] /\ faults \in Nat
    /\ \A p \in Proc :
         /\ DOMAIN task[p] = DOMAIN Idle
         /\ task[p].op = "open" => task[p].cs \in Connstring
         /\ task[p].op = "open" /\ task[p].uart # "none" => task[p].cs.driver \in Serial
         /\ IsFiniteSet(dev[p])
         /\ \A x \in dev[p] : x = [driver |-> At[x.at], at |-> x.at]

\* While nobody raced, a port somebody has open is claimed, the port a process is
\* about to claim is neither claimed nor about to be claimed by another.
PortClaimed ==
    ~raced => \A p \in Proc :
        /\ held[p] \subseteq claimed
        /\ task[p].uart = "checked" => NextPort(p) \notin claimed
        /\ \A q \in Proc : p # q /\ task[p].uart = "checked" /\ task[q].uart = "checked" => NextPort(p) # NextPort(q)

\* While nobody raced, the devices of a process have their port open, and so has
\* the probe that is under way, on another port.
PortHeld ==
    ~raced => \A p \in Proc :
        /\ \A x \in dev[p] : x.driver \in Serial => x.at \in held[p]
        /\ task[p].uart = "open" => /\ NextPort(p) \in held[p]
                                    /\ \A x \in dev[p] : x.driver \in Serial => x.at # NextPort(p)

\* What is in use was in use when nfc_open began, or was used since.
UseSeen ==
    \A p \in Proc : task[p].op = "open" =>
        /\ \A q \in Proc : \A x \in dev[q] : x.driver \notin Serial => x.at \in touched[p]
        /\ \A port \in claimed : port \in touched[p] \/ (task[p].uart = "open" /\ port = task[p].cs.at)

DiscoveryInv ==
    /\ Shapes /\ PortClaimed /\ PortHeld /\ UseSeen
    /\ OnePerPort /\ ContextHeld /\ OpensListed

-----------------------------------------------------------------------------
(* What a step of one process leaves alone                                 *)

Fields == {"op", "d", "i", "uart", "found", "len", "intrusive", "cs", "dev"}

LEMMA IdleFields == DOMAIN Idle = Fields /\ Idle.op = "idle" /\ Idle.uart = "none" /\ Idle.cs = Nothing
  BY DEF Idle, Fields

\* The processes other than p see at most that a place is being used.
Others(p) ==
    /\ DOMAIN task' = Proc /\ DOMAIN held' = Proc /\ DOMAIN dev' = Proc /\ DOMAIN touched' = Proc
    /\ refs' \in [Proc -> Nat] /\ lost' \in [Proc -> Nat] /\ faults' \in Nat /\ faults <= faults'
    /\ \A q \in Proc \ {p} :
         /\ task'[q] = task[q] /\ held'[q] = held[q] /\ dev'[q] = dev[q]
         /\ refs'[q] = refs[q] /\ lost'[q] = lost[q] /\ (q \in context' <=> q \in context)
         /\ \A x \in touched[q] : x \in touched'[q]

LEMMA ListDevicesEffect ==
    ASSUME DiscoveryInv, NEW p \in Proc, NEW len, NEW b, list_devices(p, len, b)
    PROVE  /\ Others(p) /\ UNCHANGED <<held, claimed, dev, refs, context, raced, lost, crashed>>
           /\ DOMAIN task'[p] = Fields /\ task'[p].uart = "none" /\ task'[p].op = "list"
  BY IdleFields DEF DiscoveryInv, Shapes, list_devices, Others, resources, Fields

LEMMA OpenEffect ==
    ASSUME DiscoveryInv, NEW p \in Proc, NEW cs, open(p, cs)
    PROVE  /\ Others(p) /\ UNCHANGED <<held, claimed, dev, refs, context, raced, lost, crashed>>
           /\ DOMAIN task'[p] = Fields /\ task'[p].uart = "none" /\ task'[p].op = "open" /\ task'[p].cs = cs
           /\ touched'[p] = InUse
  BY IdleFields DEF DiscoveryInv, Shapes, open, Others, resources, Fields

LEMMA ReturnEffect ==
    ASSUME DiscoveryInv, NEW p \in Proc, return(p)
    PROVE  /\ Others(p) /\ UNCHANGED <<held, claimed, dev, refs, context, raced, lost, crashed>>
           /\ DOMAIN task'[p] = Fields /\ task'[p].uart = "none" /\ task'[p].op = "idle"
  BY IdleFields DEF DiscoveryInv, Shapes, return, Others, resources, Fields

LEMMA ScanDoneEffect ==
    ASSUME NEW t, NEW more, DOMAIN t = Fields
    PROVE  /\ DOMAIN ScanDone(t, more) = Fields /\ ScanDone(t, more).uart = "none"
           /\ ScanDone(t, more).op \in {"list", "listed"}
  BY DEF ScanDone, Fields

LEMMA NextProbeEffect ==
    ASSUME NEW t, DOMAIN t = Fields
    PROVE  /\ DOMAIN NextProbe(t) = Fields /\ NextProbe(t).uart = "none" /\ NextProbe(t).cs = t.cs
           /\ NextProbe(t).dev = t.dev /\ NextProbe(t).op = IF t.op = "list" THEN "list" ELSE "opened"
  BY DEF NextProbe, Fields

LEMMA ListedEffect ==
    ASSUME NEW t, NEW new, DOMAIN t = Fields, t.op = "list"
    PROVE  /\ DOMAIN Listed(t, new) = Fields /\ Listed(t, new).uart = "none"
           /\ Listed(t, new).op \in {"list", "listed"}
  <1> DEFINE more == [t EXCEPT !.found = Append(@, new)]
  <1>1. DOMAIN more = Fields /\ more.op = "list"
    BY DEF Fields
  <1>2. Listed(t, new) = ScanDone(t, <<new>>) \/ Listed(t, new) = NextProbe(more)
    BY DEF Listed
  <1> HIDE DEF more
  <1>3. QED
    BY <1>1, <1>2, ScanDoneEffect, NextProbeEffect

\* A scan takes a step: the place is passed over, listed, or the last one.
Scanned(p) ==
    \/ task' = [task EXCEPT ![p] = NextProbe(@)]
    \/ task' = [task EXCEPT ![p] = ScanDone(@, <<>>)]
    \/ \E new : task' = [task EXCEPT ![p] = Listed(@, new)]

LEMMA ScannedEffect ==
    ASSUME DiscoveryInv, NEW p \in Proc, Scanned(p), task[p].op = "list"
    PROVE  /\ DOMAIN task' = Proc /\ (\A q \in Proc \ {p} : task'[q] = task[q])
           /\ DOMAIN task'[p] = Fields /\ task'[p].uart = "none" /\ task'[p].op \in {"list", "listed"}
  <1>1. DOMAIN task = Proc /\ DOMAIN task[p] = Fields
    BY IdleFields DEF DiscoveryInv, Shapes
  <1>2. CASE task' = [task EXCEPT ![p] = NextProbe(@)]
    BY <1>1, <1>2, NextProbeEffect
  <1>3. CASE task' = [task EXCEPT ![p] = ScanDone(@, <<>>)]
    BY <1>1, <1>3, ScanDoneEffect
  <1>4. ASSUME NEW new, task' = [task EXCEPT ![p] = Listed(@, new)]
        PROVE  /\ DOMAIN task' = Proc /\ (\A q \in Proc \ {p} : task'[q] = task[q])
               /\ DOMAIN task'[p] = Fields /\ task'[p].uart = "none" /\ task'[p].op \in {"list", "listed"}
    BY <1>1, <1>4, ListedEffect
  <1>5. QED
    BY <1>2, <1>3, <1>4 DEF Scanned

LEMMA UsbScanEffect ==
    ASSUME DiscoveryInv, NEW p \in Proc, NEW d, usb_scan(p, d)
    PROVE  /\ Others(p) /\ UNCHANGED <<held, claimed, dev, refs, context, raced, lost, crashed>>
           /\ DOMAIN task'[p] = Fields /\ task'[p].uart = "none" /\ task'[p].op \in {"list", "listed"}
  <1>1. Scanned(p) /\ task[p].op = "list"
    BY DEF usb_scan, Scanning, Scanned
  <1>2. UNCHANGED <<held, claimed, dev, refs, context, raced, lost, crashed, touched>> /\ (UNCHANGED faults \/ Fault)
    BY DEF usb_scan, resources
  <1>3. QED
    BY <1>1, <1>2, ScannedEffect DEF DiscoveryInv, Shapes, Others, Fault

LEMMA ScanEndEffect ==
    ASSUME DiscoveryInv, NEW p \in Proc, NEW d, scan_end(p, d)
    PROVE  /\ Others(p) /\ UNCHANGED <<held, claimed, dev, refs, context, raced, lost, crashed>>
           /\ DOMAIN task'[p] = Fields /\ task'[p].uart = "none" /\ task'[p].op \in {"list", "listed"}
  BY ScanDoneEffect, IdleFields DEF DiscoveryInv, Shapes, scan_end, Others, resources

LEMMA PcscScanEffect ==
    ASSUME DiscoveryInv, NEW p \in Proc, pcsc_scan(p)
    PROVE  /\ Others(p) /\ UNCHANGED <<held, claimed, dev, raced, crashed, touched>>
           /\ DOMAIN task'[p] = Fields /\ task'[p].uart = "none" /\ task'[p].op \in {"list", "listed"}
           /\ \/ refs'[p] = refs[p] /\ context' = context /\ lost'[p] >= lost[p]
              \/ refs'[p] = refs[p] + 1 /\ context' = context \cup {p} /\ lost'[p] = lost[p] + 1
  <1>1. UNCHANGED <<held, claimed, dev, raced, crashed, touched>> /\ task[p].op = "list" /\ Scanned(p)
    BY DEF pcsc_scan, Scanning, Scanned
  <1>2. /\ DOMAIN task' = Proc /\ (\A q \in Proc \ {p} : task'[q] = task[q])
        /\ DOMAIN task'[p] = Fields /\ task'[p].uart = "none" /\ task'[p].op \in {"list", "listed"}
    BY <1>1, ScannedEffect
  <1>3. CASE UNCHANGED <<refs, context, lost, faults>>
    BY <1>1, <1>2, <1>3 DEF DiscoveryInv, Shapes, Others
  <1>4. CASE /\ Fault /\ lost' = [lost EXCEPT ![p] = @ + 1]
             /\ \/ refs' = [refs EXCEPT ![p] = @ + 1] /\ context' = context \cup {p}
                \/ refs[p] = 0 /\ UNCHANGED <<refs, context>>
    BY <1>1, <1>2, <1>4 DEF DiscoveryInv, Shapes, Others, Fault
  <1>5. QED
    BY <1>3, <1>4, Zenon DEF pcsc_scan

LEMMA UartCheckEffect ==
    ASSUME DiscoveryInv, NEW p \in Proc, uart_check(p)
    PROVE  /\ Others(p) /\ UNCHANGED <<held, claimed, dev, refs, context, lost, crashed>>
           /\ DOMAIN task'[p] = Fields /\ WantsPort(p) /\ UNCHANGED touched[p]
           /\ \/ /\ NextPort(p) \notin claimed /\ task'[p].uart = "checked"
                 /\ task'[p].op = task[p].op /\ task'[p].cs = task[p].cs /\ task'[p].i = task[p].i
                 /\ raced' = (raced \/ \E q \in Proc \ {p} : task[q].uart = "checked" /\ NextPort(q) = NextPort(p))
              \/ /\ NextPort(p) \in claimed \/ faults' > 0
                 /\ task'[p].uart = "none" /\ UNCHANGED raced /\ task'[p].cs = task[p].cs
                 /\ task'[p].op = IF task[p].op = "list" THEN "list" ELSE "opened"
  <1>1. /\ UNCHANGED <<held, claimed, dev, refs, context, lost, crashed>> /\ WantsPort(p)
        /\ DOMAIN touched' = Proc /\ touched'[p] = touched[p]
        /\ \A q \in Proc \ {p} : \A x \in touched[q] : x \in touched'[q]
    BY DEF DiscoveryInv, Shapes, uart_check, Touch
  <1>2. faults' \in Nat /\ faults <= faults' /\ (Fault => faults' > 0)
    BY DEF DiscoveryInv, Shapes, uart_check, Fault
  <1>3. CASE /\ ~Refused(NextPort(p))
             /\ task' = [task EXCEPT ![p].uart = "checked"]
             /\ raced' = (raced \/ \E q \in Proc \ {p} : task[q].uart = "checked" /\ NextPort(q) = NextPort(p))
    <2>1. /\ DOMAIN task' = Proc /\ (\A q \in Proc \ {p} : task'[q] = task[q])
          /\ DOMAIN task'[p] = Fields /\ task'[p].uart = "checked"
          /\ task'[p].op = task[p].op /\ task'[p].cs = task[p].cs /\ task'[p].i = task[p].i
      BY <1>3, IdleFields DEF DiscoveryInv, Shapes, Fields
    <2>2. QED
      BY <1>1, <1>2, <1>3, <2>1 DEF DiscoveryInv, Shapes, Others, Refused
  <1>4. CASE /\ Refused(NextPort(p)) \/ Fault
             /\ task' = [task EXCEPT ![p] = NextProbe(@)] /\ UNCHANGED raced
    <2>1. /\ DOMAIN task' = Proc /\ (\A q \in Proc \ {p} : task'[q] = task[q])
          /\ DOMAIN task'[p] = Fields /\ task'[p].uart = "none" /\ task'[p].cs = task[p].cs
          /\ task'[p].op = IF task[p].op = "list" THEN "list" ELSE "opened"
      BY <1>4, NextProbeEffect, IdleFields DEF DiscoveryInv, Shapes
    <2>2. QED
      BY <1>1, <1>2, <1>4, <2>1 DEF DiscoveryInv, Shapes, Others, Refused
  <1>5. QED
    BY <1>3, <1>4 DEF uart_check

LEMMA UartClaimEffect ==
    ASSUME DiscoveryInv, NEW p \in Proc, uart_claim(p)
    PROVE  /\ Others(p) /\ UNCHANGED <<dev, refs, context, raced, lost, crashed>>
           /\ task[p].uart = "checked" /\ claimed' = claimed \cup {NextPort(p)}
           /\ held'[p] = held[p] \cup {NextPort(p)}
           /\ DOMAIN task'[p] = Fields /\ task'[p].uart = "open"
           /\ task'[p].op = task[p].op /\ task'[p].cs = task[p].cs /\ task'[p].i = task[p].i
           /\ task'[p].dev = task[p].dev /\ UNCHANGED touched[p]
           /\ \A q \in Proc \ {p} : NextPort(p) \in touched'[q]
  <1>1. /\ DOMAIN task' = Proc /\ (\A q \in Proc \ {p} : task'[q] = task[q])
        /\ DOMAIN task'[p] = Fields /\ task'[p].uart = "open"
        /\ task'[p].op = task[p].op /\ task'[p].cs = task[p].cs /\ task'[p].i = task[p].i
        /\ task'[p].dev = task[p].dev
    BY IdleFields DEF DiscoveryInv, Shapes, Fields, uart_claim
  <1>2. /\ DOMAIN touched' = Proc /\ UNCHANGED touched[p] /\ \A q \in Proc \ {p} : NextPort(p) \in touched'[q]
        /\ \A q \in Proc \ {p} : \A x \in touched[q] : x \in touched'[q]
    BY DEF DiscoveryInv, Shapes, uart_claim, Touch
  <1>3. QED
    BY <1>1, <1>2 DEF DiscoveryInv, Shapes, Others, uart_claim

LEMMA ScanProbeEffect ==
    ASSUME DiscoveryInv, NEW p \in Proc, scan_probe(p)
    PROVE  /\ Others(p) /\ UNCHANGED <<dev, refs, context, raced, lost, crashed>>
           /\ task[p].op = "list" /\ task[p].uart = "open"
           /\ claimed' = claimed \ {NextPort(p)} /\ held'[p] = held[p] \ {NextPort(p)}
           /\ DOMAIN task'[p] = Fields /\ task'[p].uart = "none" /\ task'[p].op \in {"list", "listed"}
  <1>1. /\ task[p].op = "list" /\ task[p].uart = "open" /\ UNCHANGED <<dev, refs, context, raced, lost, crashed>>
        /\ uart_close(p, NextPort(p)) /\ Scanned(p)
    BY DEF scan_probe, Scanned
  <1>2. UNCHANGED <<touched, faults>> \/ (Fault /\ touched' = [touched EXCEPT ![p] = @ \cup {NextPort(p)}])
    BY DEF scan_probe
  <1>3. /\ DOMAIN task' = Proc /\ (\A q \in Proc \ {p} : task'[q] = task[q])
        /\ DOMAIN task'[p] = Fields /\ task'[p].uart = "none" /\ task'[p].op \in {"list", "listed"}
    BY <1>1, ScannedEffect
  <1>4. /\ DOMAIN touched' = Proc /\ \A q \in Proc \ {p} : \A x \in touched[q] : x \in touched'[q]
        /\ faults' \in Nat /\ faults <= faults'
    BY <1>2 DEF DiscoveryInv, Shapes, Fault
  <1>5. QED
    BY <1>1, <1>3, <1>4 DEF DiscoveryInv, Shapes, Others, uart_close

LEMMA OpenProbeEffect ==
    ASSUME DiscoveryInv, NEW p \in Proc, open_probe(p)
    PROVE  /\ Others(p) /\ UNCHANGED <<refs, context, raced, lost, crashed>>
           /\ task[p].op = "open" /\ task[p].uart = "open"
           /\ DOMAIN task'[p] = Fields /\ task'[p].uart = "none" /\ task'[p].op = "opened"
           /\ task'[p].cs = task[p].cs
           /\ \/ /\ At[task[p].cs.at] = task[p].cs.driver /\ UNCHANGED <<held, claimed>>
                 /\ dev'[p] = dev[p] \cup {task[p].cs} /\ task'[p].dev = task[p].cs
              \/ /\ At[task[p].cs.at] # task[p].cs.driver \/ faults' > 0
                 /\ claimed' = claimed \ {task[p].cs.at} /\ held'[p] = held[p] \ {task[p].cs.at}
                 /\ UNCHANGED dev
  <1> DEFINE cs == task[p].cs
             T == [task[p] EXCEPT !.dev = cs]
  <1>1. /\ task[p].op = "open" /\ task[p].uart = "open" /\ UNCHANGED <<refs, context, raced, lost, crashed>>
        /\ UNCHANGED <<touched, faults>> \/ (Fault /\ touched' = [touched EXCEPT ![p] = @ \cup {cs.at}])
    BY DEF open_probe
  <1>2. DOMAIN task[p] = Fields /\ DOMAIN T = Fields /\ T.op = "open" /\ T.dev = cs /\ T.cs = cs
    BY <1>1, IdleFields DEF DiscoveryInv, Shapes, Fields
  <1>3. /\ DOMAIN touched' = Proc /\ \A q \in Proc \ {p} : \A x \in touched[q] : x \in touched'[q]
        /\ faults' \in Nat /\ faults <= faults'
    BY <1>1 DEF DiscoveryInv, Shapes, Fault
  <1>4. CASE /\ At[cs.at] = cs.driver /\ dev' = [dev EXCEPT ![p] = @ \cup {cs}]
             /\ task' = [task EXCEPT ![p] = NextProbe(T)] /\ UNCHANGED <<held, claimed>>
    <2> HIDE DEF T
    <2>1. /\ DOMAIN task' = Proc /\ (\A q \in Proc \ {p} : task'[q] = task[q])
          /\ DOMAIN task'[p] = Fields /\ task'[p].uart = "none" /\ task'[p].op = "opened"
          /\ task'[p].cs = task[p].cs /\ task'[p].dev = cs
      BY <1>2, <1>4, NextProbeEffect DEF DiscoveryInv, Shapes
    <2>2. QED
      BY <1>1, <1>3, <1>4, <2>1 DEF DiscoveryInv, Shapes, Others
  <1>5. CASE /\ At[cs.at] # cs.driver \/ Fault
             /\ uart_close(p, cs.at) /\ task' = [task EXCEPT ![p] = NextProbe(@)] /\ UNCHANGED dev
    <2>1. /\ DOMAIN task' = Proc /\ (\A q \in Proc \ {p} : task'[q] = task[q])
          /\ DOMAIN task'[p] = Fields /\ task'[p].uart = "none" /\ task'[p].op = "opened"
          /\ task'[p].cs = task[p].cs
      BY <1>1, <1>2, <1>5, NextProbeEffect DEF DiscoveryInv, Shapes
    <2>2. Fault => faults' > 0
      BY DEF DiscoveryInv, Shapes, Fault
    <2>3. QED
      BY <1>1, <1>3, <1>5, <2>1, <2>2 DEF DiscoveryInv, Shapes, Others, uart_close
  <1>6. QED
    BY <1>4, <1>5 DEF open_probe

LEMMA OpenNoportEffect ==
    ASSUME DiscoveryInv, NEW p \in Proc, open_noport(p)
    PROVE  /\ Others(p) /\ UNCHANGED <<held, claimed, dev, refs, context, raced, lost, crashed>>
           /\ DOMAIN task'[p] = Fields /\ task[p].op = "open" /\ task'[p].op = "opened"
           /\ task'[p].uart = task[p].uart /\ task'[p].cs = task[p].cs /\ task[p].cs.at = "any"
  BY IdleFields DEF DiscoveryInv, Shapes, open_noport, Others, resources, Fields

LEMMA CrashEffect ==
    ASSUME DiscoveryInv, NEW p \in Proc, crash(p)
    PROVE  /\ Others(p) /\ UNCHANGED <<claimed, raced, touched>>
           /\ crashed' = crashed \cup (held[p] \cap claimed)
           /\ held'[p] = {} /\ dev'[p] = {} /\ refs'[p] = 0 /\ context' = context \ {p} /\ lost'[p] = 0
           /\ DOMAIN task'[p] = Fields /\ task'[p].uart = "none" /\ task'[p].op = "idle"
  BY IdleFields DEF DiscoveryInv, Shapes, crash, Others, Fault

LEMMA UsbEffect ==
    ASSUME DiscoveryInv, NEW p \in Proc, open_usb(p)
    PROVE  /\ Others(p) /\ UNCHANGED <<held, claimed, refs, context, raced, lost, crashed>>
           /\ DOMAIN task'[p] = Fields /\ task[p].op = "open" /\ task'[p].op \in {"open", "opened"}
           /\ task'[p].uart = task[p].uart /\ task'[p].cs = task[p].cs /\ UNCHANGED touched[p]
           /\ \E d \in OnUsb : \E new :
                /\ Accepts(d, task[p].cs) /\ new = [driver |-> d, at |-> UsbPlace(task[p].cs)]
                /\ \/ /\ At[new.at] = d /\ dev'[p] = dev[p] \cup {new} /\ task'[p].dev = new
                      /\ task'[p].op = "opened" /\ \A q \in Proc \ {p} : new.at \in touched'[q]
                   \/ /\ new.at \in InUse \/ At[new.at] # d \/ faults' > 0
                      /\ UNCHANGED dev
  <1>1. PICK k \in Candidates(task[p].cs, task[p].d) :
            LET t == task[p]
                d == nfc_drivers[k]
                new == [driver |-> d, at |-> UsbPlace(t.cs)]
                next == IF t.cs.driver = "usb" /\ Candidates(t.cs, k + 1) # {} THEN [t EXCEPT !.d = k + 1]
                        ELSE [t EXCEPT !.op = "opened"]
            IN /\ d \in OnUsb /\ Touch(p, new.at)
               /\ \/ /\ new.at \notin InUse /\ At[new.at] = d
                     /\ dev' = [dev EXCEPT ![p] = @ \cup {new}]
                     /\ task' = [task EXCEPT ![p] = [t EXCEPT !.op = "opened", !.dev = new]]
                     /\ UNCHANGED faults
                  \/ /\ \/ (new.at \in InUse \/ At[new.at] # d) /\ UNCHANGED faults
                        \/ Fault
                     /\ task' = [task EXCEPT ![p] = next]
                     /\ UNCHANGED dev
    BY DEF open_usb
  <1> DEFINE d == nfc_drivers[k]
             new == [driver |-> d, at |-> UsbPlace(task[p].cs)]
             next == IF task[p].cs.driver = "usb" /\ Candidates(task[p].cs, k + 1) # {}
                     THEN [task[p] EXCEPT !.d = k + 1] ELSE [task[p] EXCEPT !.op = "opened"]
             won == [task[p] EXCEPT !.op = "opened", !.dev = new]
  <1>2. task[p].op = "open" /\ UNCHANGED <<held, claimed, refs, context, raced, lost, crashed>>
    BY DEF open_usb
  <1>3. DOMAIN task[p] = Fields
    BY IdleFields DEF DiscoveryInv, Shapes
  <1>4. /\ DOMAIN won = Fields /\ won.op = "opened" /\ won.dev = new /\ won.uart = task[p].uart /\ won.cs = task[p].cs
        /\ DOMAIN next = Fields /\ next.op \in {"open", "opened"} /\ next.uart = task[p].uart /\ next.cs = task[p].cs
    BY <1>2, <1>3 DEF Fields
  <1>5. Accepts(d, task[p].cs) /\ d \in OnUsb /\ Touch(p, new.at)
    BY <1>1 DEF Candidates
  <1>6. /\ DOMAIN touched' = Proc /\ UNCHANGED touched[p] /\ \A q \in Proc \ {p} : new.at \in touched'[q]
        /\ \A q \in Proc \ {p} : \A x \in touched[q] : x \in touched'[q]
    BY <1>5 DEF DiscoveryInv, Shapes, Touch
  <1>7. \/ /\ At[new.at] = d /\ dev' = [dev EXCEPT ![p] = @ \cup {new}]
           /\ task' = [task EXCEPT ![p] = won] /\ UNCHANGED faults
        \/ /\ new.at \in InUse \/ At[new.at] # d \/ Fault
           /\ UNCHANGED faults \/ Fault
           /\ task' = [task EXCEPT ![p] = next] /\ UNCHANGED dev
    BY <1>1
  <1>8. Fault => faults' \in Nat /\ faults <= faults' /\ faults' > 0
    BY DEF DiscoveryInv, Shapes, Fault
  <1> SUFFICES /\ Others(p) /\ DOMAIN task'[p] = Fields /\ task'[p].op \in {"open", "opened"}
               /\ task'[p].uart = task[p].uart /\ task'[p].cs = task[p].cs
               /\ \/ At[new.at] = d /\ dev'[p] = dev[p] \cup {new} /\ task'[p].dev = new /\ task'[p].op = "opened"
                  \/ (new.at \in InUse \/ At[new.at] # d \/ faults' > 0) /\ UNCHANGED dev
    BY <1>2, <1>5, <1>6
  <1> HIDE DEF d, new, next, won
  <1>9. QED
    BY <1>2, <1>4, <1>6, <1>7, <1>8 DEF DiscoveryInv, Shapes, Others

LEMMA OpenPcscEffect ==
    ASSUME DiscoveryInv, NEW p \in Proc, open_pcsc(p)
    PROVE  /\ Others(p) /\ UNCHANGED <<held, claimed, raced, crashed>>
           /\ DOMAIN task'[p] = Fields /\ task[p].op = "open" /\ task'[p].op = "opened"
           /\ task[p].cs.driver = "acr122_pcsc"
           /\ task'[p].uart = task[p].uart /\ task'[p].cs = task[p].cs /\ UNCHANGED touched[p]
           /\ \E at : \E new :
                /\ task[p].cs.at # "any" => at = task[p].cs.at
                /\ new = [driver |-> "acr122_pcsc", at |-> at]
                /\ \/ at = "any" /\ UNCHANGED <<dev, refs, context, lost>>
                   \/ /\ at \notin InUse /\ At[at] = "acr122_pcsc" /\ UNCHANGED lost
                      /\ refs'[p] = refs[p] + 1 /\ context' = context \cup {p}
                      /\ dev'[p] = dev[p] \cup {new} /\ task'[p].dev = new
                      /\ \A q \in Proc \ {p} : at \in touched'[q]
                   \/ /\ at \in InUse \/ At[at] # "acr122_pcsc" \/ faults' > 0
                      /\ UNCHANGED dev /\ lost'[p] = lost[p] + 1
                      /\ \/ refs'[p] = refs[p] + 1 /\ context' = context \cup {p}
                         \/ UNCHANGED <<refs, context>>
  <1> DEFINE cs == task[p].cs
             list == SelectSeq(Readers, LAMBDA x : At[x] = "acr122_pcsc")
             at == IF cs.at # "any" THEN cs.at ELSE IF list = <<>> THEN "any" ELSE list[1]
             new == [driver |-> "acr122_pcsc", at |-> at]
             won == [task[p] EXCEPT !.op = "opened", !.dev = new]
             gone == [task[p] EXCEPT !.op = "opened"]
  <1>1. /\ task[p].op = "open" /\ cs.driver = "acr122_pcsc" /\ UNCHANGED <<held, claimed, raced, crashed>>
    BY Zenon DEF open_pcsc
  <1>2. \/ /\ at = "any" /\ task' = [task EXCEPT ![p] = gone]
           /\ UNCHANGED <<dev, refs, context, lost, touched, faults>>
        \/ /\ at \notin InUse /\ At[at] = "acr122_pcsc"
           /\ GetContext(p, TRUE)
           /\ dev' = [dev EXCEPT ![p] = @ \cup {new}]
           /\ task' = [task EXCEPT ![p] = won]
           /\ Touch(p, at)
           /\ UNCHANGED <<lost, faults>>
        \/ /\ \/ (at \in InUse \/ At[at] # "acr122_pcsc") /\ UNCHANGED faults
              \/ Fault
           /\ GetContext(p, FALSE)
           /\ lost' = [lost EXCEPT ![p] = @ + 1]
           /\ task' = [task EXCEPT ![p] = gone]
           /\ Touch(p, at)
           /\ UNCHANGED dev
    BY Zenon DEF open_pcsc
  <1>3. cs.at # "any" => at = cs.at
    BY Zenon
  <1>4. new = [driver |-> "acr122_pcsc", at |-> at]
    OBVIOUS
  <1> HIDE DEF at, new
  <1>5. DOMAIN task[p] = Fields
    BY IdleFields DEF DiscoveryInv, Shapes
  <1>6. /\ DOMAIN won = Fields /\ won.op = "opened" /\ won.dev = new /\ won.uart = task[p].uart /\ won.cs = cs
        /\ DOMAIN gone = Fields /\ gone.op = "opened" /\ gone.uart = task[p].uart /\ gone.cs = cs
    BY <1>5 DEF Fields
  <1> HIDE DEF won, gone
  <1>7. Touch(p, at) =>
          /\ DOMAIN touched' = Proc /\ UNCHANGED touched[p] /\ \A q \in Proc \ {p} : at \in touched'[q]
          /\ \A q \in Proc \ {p} : \A x \in touched[q] : x \in touched'[q]
    BY DEF DiscoveryInv, Shapes, Touch
  <1>8. Fault => faults' \in Nat /\ faults <= faults' /\ faults' > 0
    BY DEF DiscoveryInv, Shapes, Fault
  <1>9. CASE at = "any" /\ task' = [task EXCEPT ![p] = gone] /\ UNCHANGED <<dev, refs, context, lost, touched, faults>>
    <2>1. Others(p) /\ task'[p] = gone /\ UNCHANGED touched[p]
      BY <1>1, <1>9 DEF DiscoveryInv, Shapes, Others
    <2>2. QED
      BY <1>1, <1>3, <1>4, <1>6, <1>9, <2>1
  <1>10. CASE /\ at \notin InUse /\ At[at] = "acr122_pcsc"
              /\ GetContext(p, TRUE)
              /\ dev' = [dev EXCEPT ![p] = @ \cup {new}]
              /\ task' = [task EXCEPT ![p] = won]
              /\ Touch(p, at)
              /\ UNCHANGED <<lost, faults>>
    <2>1. refs' = [refs EXCEPT ![p] = @ + 1] /\ context' = context \cup {p}
      BY <1>10 DEF GetContext
    <2>2. Others(p) /\ task'[p] = won /\ dev'[p] = dev[p] \cup {new} /\ refs'[p] = refs[p] + 1
      BY <1>1, <1>7, <1>10, <2>1 DEF DiscoveryInv, Shapes, Others
    <2>3. QED
      BY <1>1, <1>3, <1>4, <1>6, <1>7, <1>10, <2>1, <2>2
  <1>11. CASE /\ ((at \in InUse \/ At[at] # "acr122_pcsc") /\ UNCHANGED faults) \/ Fault
              /\ GetContext(p, FALSE)
              /\ lost' = [lost EXCEPT ![p] = @ + 1]
              /\ task' = [task EXCEPT ![p] = gone]
              /\ Touch(p, at)
              /\ UNCHANGED dev
    <2>1. \/ refs' = [refs EXCEPT ![p] = @ + 1] /\ context' = context \cup {p}
          \/ UNCHANGED <<refs, context>>
      BY <1>11 DEF GetContext
    <2>2. faults' \in Nat /\ faults <= faults' /\ (at \in InUse \/ At[at] # "acr122_pcsc" \/ faults' > 0)
      BY <1>8, <1>11 DEF DiscoveryInv, Shapes
    <2>3. Others(p) /\ task'[p] = gone /\ lost'[p] = lost[p] + 1
          /\ \/ refs'[p] = refs[p] + 1 /\ context' = context \cup {p}
             \/ UNCHANGED <<refs, context>>
      BY <1>1, <1>7, <1>11, <2>1, <2>2 DEF DiscoveryInv, Shapes, Others
    <2>4. QED
      BY <1>1, <1>3, <1>4, <1>6, <1>7, <1>11, <2>2, <2>3
  <1>12. QED
    BY <1>2, <1>9, <1>10, <1>11

LEMMA CloseEffect ==
    ASSUME DiscoveryInv, NEW p \in Proc, NEW x \in dev[p], close(p, x)
    PROVE  /\ Others(p) /\ UNCHANGED <<task, raced, lost, crashed, touched, faults>>
           /\ task[p].op = "idle" /\ dev'[p] = dev[p] \ {x}
           /\ \/ /\ x.driver \in Serial /\ claimed' = claimed \ {x.at} /\ held'[p] = held[p] \ {x.at}
              \/ x.driver \notin Serial /\ UNCHANGED <<held, claimed>>
           /\ \/ x.driver # "acr122_pcsc" /\ UNCHANGED <<refs, context>>
              \/ /\ x.driver = "acr122_pcsc" /\ refs'[p] = refs[p] - 1
                 /\ context' = IF refs[p] = 1 THEN context \ {p} ELSE context
  <1>1. /\ UNCHANGED <<task, raced, lost, crashed, touched, faults>> /\ task[p].op = "idle"
        /\ dev' = [dev EXCEPT ![p] = @ \ {x}]
    BY DEF close
  <1>2. /\ \/ x.driver \in Serial /\ uart_close(p, x.at)
           \/ x.driver \notin Serial /\ UNCHANGED <<held, claimed>>
        /\ \/ x.driver # "acr122_pcsc" /\ UNCHANGED <<refs, context>>
           \/ /\ x.driver = "acr122_pcsc" /\ refs' = [refs EXCEPT ![p] = @ - 1]
              /\ context' = IF refs[p] = 1 THEN context \ {p} ELSE context
    BY DEF close
  <1>3. x.driver = "acr122_pcsc" => refs[p] \in Nat \ {0}
    <2>1. SUFFICES ASSUME x.driver = "acr122_pcsc" PROVE refs[p] \in Nat \ {0}
      BY DEF DiscoveryInv, Shapes
    <2>2. Cardinality(Pcsc(dev[p])) <= refs[p] /\ refs[p] \in Nat /\ IsFiniteSet(dev[p])
      BY DEF DiscoveryInv, Shapes, ContextHeld, Pcsc
    <2>3. IsFiniteSet(Pcsc(dev[p])) /\ x \in Pcsc(dev[p])
      BY <2>1, <2>2, FS_Subset DEF Pcsc
    <2>4. Cardinality(Pcsc(dev[p])) \in Nat /\ Cardinality(Pcsc(dev[p])) # 0
      BY <2>3, FS_EmptySet, FS_CardinalityType
    <2>5. QED
      BY <2>2, <2>4
  <1>4. QED
    BY <1>1, <1>2, <1>3 DEF DiscoveryInv, Shapes, Others, uart_close

-----------------------------------------------------------------------------
(* What has to be seen of a step of p, part by part                        *)

LEMMA ShapesStep ==
    ASSUME DiscoveryInv, NEW p \in Proc, Others(p), DOMAIN task'[p] = Fields,
           task'[p].op = "open" => /\ task'[p].cs \in Connstring
                                   /\ task'[p].uart # "none" => task'[p].cs.driver \in Serial,
           IsFiniteSet(dev'[p]), \A x \in dev'[p] : x = [driver |-> At[x.at], at |-> x.at]
    PROVE  Shapes'
  BY IdleFields DEF DiscoveryInv, Shapes, Others

LEMMA ContextStep ==
    ASSUME DiscoveryInv, NEW p \in Proc, Others(p),
           Cardinality(Pcsc(dev'[p])) <= refs'[p], refs'[p] <= Cardinality(Pcsc(dev'[p])) + lost'[p],
           p \in context' <=> refs'[p] > 0
    PROVE  ContextHeld'
  <1> SUFFICES ASSUME NEW q \in Proc
               PROVE  /\ Cardinality(Pcsc(dev'[q])) <= refs'[q]
                      /\ refs'[q] <= Cardinality(Pcsc(dev'[q])) + lost'[q]
                      /\ q \in context' <=> refs'[q] > 0
    BY DEF ContextHeld, Pcsc
  <1>1. CASE q = p
    BY <1>1
  <1>2. CASE q # p
    <2>1. /\ Cardinality(Pcsc(dev[q])) <= refs[q] /\ refs[q] <= Cardinality(Pcsc(dev[q])) + lost[q]
          /\ q \in context <=> refs[q] > 0
      BY DEF DiscoveryInv, ContextHeld, Pcsc
    <2>2. QED
      BY <1>2, <2>1 DEF Others
  <1>3. QED
    BY <1>1, <1>2

\* The calls of p on PC/SC are as they were, or one more failed.
LEMMA ContextQuiet ==
    ASSUME DiscoveryInv, NEW p \in Proc, Others(p), Pcsc(dev'[p]) = Pcsc(dev[p]),
           \/ refs'[p] = refs[p] /\ (p \in context' <=> p \in context) /\ lost'[p] >= lost[p]
           \/ refs'[p] = refs[p] + 1 /\ p \in context' /\ lost'[p] = lost[p] + 1
    PROVE  ContextHeld'
  <1>1. /\ Cardinality(Pcsc(dev[p])) <= refs[p] /\ refs[p] <= Cardinality(Pcsc(dev[p])) + lost[p]
        /\ p \in context <=> refs[p] > 0
    BY DEF DiscoveryInv, ContextHeld, Pcsc
  <1>2. Cardinality(Pcsc(dev[p])) \in Nat /\ refs[p] \in Nat /\ lost[p] \in Nat /\ lost'[p] \in Nat
    BY FS_Subset, FS_CardinalityType DEF DiscoveryInv, Shapes, Pcsc, Others
  <1>3. /\ Cardinality(Pcsc(dev'[p])) <= refs'[p] /\ refs'[p] <= Cardinality(Pcsc(dev'[p])) + lost'[p]
        /\ p \in context' <=> refs'[p] > 0
    BY <1>1, <1>2
  <1>4. QED
    BY <1>3, ContextStep

Port(t) == IF t.op = "list" THEN Ports[t.i] ELSE t.cs.at

LEMMA PortOfTask == \A q : NextPort(q) = Port(task[q]) /\ NextPort(q)' = Port(task'[q])
  BY DEF NextPort, Port

\* p neither takes nor leaves a port.
LEMMA PortsQuiet ==
    ASSUME DiscoveryInv, NEW p \in Proc, Others(p), UNCHANGED <<held, claimed, raced, crashed>>,
           task'[p].uart = "none" \/ (task'[p].uart = task[p].uart /\ Port(task'[p]) = Port(task[p])),
           \A x \in dev'[p] : x.driver \in Serial => x \in dev[p]
    PROVE  PortClaimed' /\ PortHeld' /\ OnePerPort'
  <1>1. OnePerPort'
    BY DEF DiscoveryInv, OnePerPort
  <1>2. PortClaimed'
    BY PortOfTask DEF DiscoveryInv, PortClaimed, Others
  <1>3. PortHeld'
    BY PortOfTask DEF DiscoveryInv, PortHeld, Others
  <1>4. QED
    BY <1>1, <1>2, <1>3

\* p closes a port it has open.
LEMMA PortsClosed ==
    ASSUME DiscoveryInv, NEW p \in Proc, NEW port, Others(p), UNCHANGED <<raced, crashed>>,
           claimed' = claimed \ {port}, held'[p] = held[p] \ {port}, ~raced => port \in held[p],
           task'[p].uart = "none" \/ (task'[p].uart = task[p].uart /\ Port(task'[p]) = Port(task[p])),
           task[p].uart = "open" /\ task'[p].uart # "none" => (raced \/ Port(task[p]) # port),
           \A x \in dev'[p] : x.driver \in Serial => x \in dev[p] /\ (raced \/ x.at # port)
    PROVE  PortClaimed' /\ PortHeld' /\ OnePerPort'
  <1>1. OnePerPort'
    <2>1. ~raced' => \A q, r \in Proc : q # r => held'[q] \cap held'[r] = {}
      BY DEF DiscoveryInv, OnePerPort, Others
    <2>2. \A a \in claimed' : a \in crashed' \cup UNION {held'[q] : q \in Proc}
      <3> SUFFICES ASSUME NEW a \in claimed', a \notin crashed PROVE \E q \in Proc : a \in held'[q]
        OBVIOUS
      <3>1. PICK q \in Proc : a \in held[q]
        BY DEF DiscoveryInv, OnePerPort
      <3>2. QED
        BY <3>1 DEF Others
    <2>3. QED
      BY <2>1, <2>2 DEF OnePerPort
  <1>2. ~raced => \A q \in Proc \ {p} : port \notin held[q]
    BY DEF DiscoveryInv, OnePerPort
  <1>3. PortClaimed'
    BY <1>2, PortOfTask DEF DiscoveryInv, PortClaimed, Others
  <1>4. PortHeld'
    BY PortOfTask DEF DiscoveryInv, PortHeld, Others
  <1>5. QED
    BY <1>1, <1>3, <1>4

LEMMA UseStep ==
    ASSUME DiscoveryInv, NEW p \in Proc, Others(p),
           \A x \in dev'[p] : x \in dev[p] \/ x.driver \in Serial \/ \A q \in Proc \ {p} : x.at \in touched'[q],
           \A port \in claimed' : port \in claimed \/ \A q \in Proc \ {p} : port \in touched'[q],
           task'[p].op = "open" =>
             /\ \A x \in dev'[p] : x.driver \notin Serial => x.at \in touched'[p]
             /\ \A q \in Proc \ {p} : \A x \in dev[q] : x.driver \notin Serial => x.at \in touched'[p]
             /\ \A port \in claimed' : port \in touched'[p] \/ (task'[p].uart = "open" /\ port = task'[p].cs.at)
    PROVE  UseSeen'
  <1> SUFFICES ASSUME NEW q \in Proc, task'[q].op = "open"
               PROVE  /\ \A r \in Proc : \A x \in dev'[r] : x.driver \notin Serial => x.at \in touched'[q]
                      /\ \A port \in claimed' : port \in touched'[q] \/ (task'[q].uart = "open" /\ port = task'[q].cs.at)
    BY DEF UseSeen
  <1>1. CASE q = p
    BY <1>1 DEF Others
  <1>2. CASE q # p
    BY <1>2 DEF DiscoveryInv, UseSeen, Others
  <1>3. QED
    BY <1>1, <1>2

\* A process has nfc_open return with the device it asked for, or a reason not to.
Opened(t, seen) ==
    t.op = "opened" /\ t.cs.at # "any" /\ t.cs.driver = At[t.cs.at] =>
        t.dev = t.cs \/ t.cs.at \in seen \/ faults' > 0

LEMMA ListedStep ==
    ASSUME DiscoveryInv, NEW p \in Proc, Others(p), Opened(task'[p], touched'[p])
    PROVE  OpensListed'
  BY DEF DiscoveryInv, Shapes, OpensListed, Others, Opened

-----------------------------------------------------------------------------
(* Every step preserves the invariant                                      *)

\* A step that changes neither ports nor devices and ends away from nfc_open.
LEMMA QuietPreserves ==
    ASSUME DiscoveryInv, NEW p \in Proc, Others(p), UNCHANGED <<held, claimed, dev, raced, crashed>>,
           DOMAIN task'[p] = Fields, task'[p].uart = "none", task'[p].op \notin {"open", "opened"},
           \/ refs'[p] = refs[p] /\ (p \in context' <=> p \in context) /\ lost'[p] >= lost[p]
           \/ refs'[p] = refs[p] + 1 /\ p \in context' /\ lost'[p] = lost[p] + 1
    PROVE  DiscoveryInv'
  <1>1. Shapes'
    BY ShapesStep DEF DiscoveryInv, Shapes
  <1>2. PortClaimed' /\ PortHeld' /\ OnePerPort'
    BY PortsQuiet
  <1>3. UseSeen'
    BY UseStep
  <1>4. ContextHeld'
    BY ContextQuiet
  <1>5. OpensListed'
    BY ListedStep DEF Opened
  <1>6. QED
    BY <1>1, <1>2, <1>3, <1>4, <1>5 DEF DiscoveryInv

LEMMA ListPreserves ==
    ASSUME DiscoveryInv, NEW p \in Proc,
           \/ \E len \in Lengths, b \in BOOLEAN : list_devices(p, len, b)
           \/ \E d \in Driver : usb_scan(p, d) \/ scan_end(p, d)
           \/ pcsc_scan(p) \/ return(p)
    PROVE  DiscoveryInv'
  <1>1. refs[p] \in Nat /\ lost[p] \in Nat
    BY DEF DiscoveryInv, Shapes
  <1>2. CASE \E len \in Lengths, b \in BOOLEAN : list_devices(p, len, b)
    BY <1>1, <1>2, ListDevicesEffect, QuietPreserves
  <1>3. CASE \E d \in Driver : usb_scan(p, d)
    BY <1>1, <1>3, UsbScanEffect, QuietPreserves
  <1>4. CASE \E d \in Driver : scan_end(p, d)
    BY <1>1, <1>4, ScanEndEffect, QuietPreserves
  <1>5. CASE pcsc_scan(p)
    BY <1>1, <1>5, PcscScanEffect, QuietPreserves
  <1>6. CASE return(p)
    BY <1>1, <1>6, ReturnEffect, QuietPreserves
  <1>7. QED
    BY <1>2, <1>3, <1>4, <1>5, <1>6

LEMMA OpenPreserves ==
    ASSUME DiscoveryInv, NEW p \in Proc, NEW cs \in Connstring, open(p, cs)
    PROVE  DiscoveryInv'
  <1>1. /\ Others(p) /\ UNCHANGED <<held, claimed, dev, refs, context, raced, lost, crashed>>
        /\ DOMAIN task'[p] = Fields /\ task'[p].uart = "none" /\ task'[p].op = "open" /\ task'[p].cs = cs
        /\ touched'[p] = InUse
    BY OpenEffect
  <1>2. refs[p] \in Nat /\ lost[p] \in Nat
    BY DEF DiscoveryInv, Shapes
  <1>3. Shapes'
    BY <1>1, ShapesStep DEF DiscoveryInv, Shapes
  <1>4. PortClaimed' /\ PortHeld' /\ OnePerPort'
    BY <1>1, PortsQuiet
  <1>5. UseSeen'
    <2>1. (\A q \in Proc : \A x \in dev[q] : x.at \in touched'[p]) /\ \A port \in claimed : port \in touched'[p]
      BY <1>1 DEF InUse
    <2>2. QED
      BY <1>1, <2>1, UseStep
  <1>6. ContextHeld'
    BY <1>1, <1>2, ContextQuiet
  <1>7. OpensListed'
    BY <1>1, ListedStep DEF Opened
  <1>8. QED
    BY <1>3, <1>4, <1>5, <1>6, <1>7 DEF DiscoveryInv

LEMMA UartCheckPreserves ==
    ASSUME DiscoveryInv, NEW p \in Proc, uart_check(p)
    PROVE  DiscoveryInv'
  <1>1. /\ Others(p) /\ UNCHANGED <<held, claimed, dev, refs, context, lost, crashed>>
        /\ DOMAIN task'[p] = Fields /\ WantsPort(p) /\ UNCHANGED touched[p]
    BY UartCheckEffect
  <1>2. refs[p] \in Nat /\ lost[p] \in Nat /\ DOMAIN task[p] = Fields
    BY IdleFields DEF DiscoveryInv, Shapes
  <1>3. task[p].uart = "none" /\ (task[p].op = "list" \/ (task[p].op = "open" /\ task[p].cs.driver \in Serial))
    BY <1>1 DEF WantsPort
  <1>4. NextPort(p) = Port(task[p])
    BY PortOfTask
  <1>5. ContextHeld'
    BY <1>1, <1>2, ContextQuiet
  <1>6. CASE /\ NextPort(p) \notin claimed /\ task'[p].uart = "checked"
             /\ task'[p].op = task[p].op /\ task'[p].cs = task[p].cs /\ task'[p].i = task[p].i
             /\ raced' = (raced \/ \E q \in Proc \ {p} : task[q].uart = "checked" /\ NextPort(q) = NextPort(p))
    <2>1. Shapes'
      BY <1>1, <1>3, <1>6, ShapesStep DEF DiscoveryInv, Shapes
    <2>2. Port(task'[p]) = Port(task[p])
      BY <1>6 DEF Port
    <2>3. ~raced' => ~raced /\ \A q \in Proc \ {p} : task[q].uart = "checked" => Port(task[q]) # Port(task[p])
      BY <1>4, <1>6, PortOfTask
    <2>4. PortClaimed'
      BY <1>1, <1>4, <1>6, <2>2, <2>3, PortOfTask DEF DiscoveryInv, PortClaimed, Others
    <2>5. PortHeld'
      BY <1>1, <1>6, <2>3, PortOfTask DEF DiscoveryInv, PortHeld, Others
    <2>6. OnePerPort'
      BY <1>1, <2>3 DEF DiscoveryInv, OnePerPort
    <2>7. UseSeen'
      BY <1>1, <1>3, <1>6, UseStep DEF DiscoveryInv, UseSeen
    <2>8. OpensListed'
      BY <1>1, <1>3, <1>6, ListedStep DEF Opened
    <2>9. QED
      BY <1>5, <2>1, <2>4, <2>5, <2>6, <2>7, <2>8 DEF DiscoveryInv
  <1>7. CASE /\ NextPort(p) \in claimed \/ faults' > 0
             /\ task'[p].uart = "none" /\ UNCHANGED raced /\ task'[p].cs = task[p].cs
             /\ task'[p].op = IF task[p].op = "list" THEN "list" ELSE "opened"
    <2>1. Shapes'
      BY <1>1, <1>7, ShapesStep DEF DiscoveryInv, Shapes
    <2>2. PortClaimed' /\ PortHeld' /\ OnePerPort'
      BY <1>1, <1>7, PortsQuiet
    <2>3. UseSeen'
      BY <1>1, <1>7, UseStep
    <2>4. task'[p].op = "opened" => task[p].op = "open" /\ Port(task[p]) = task[p].cs.at
      BY <1>3, <1>7 DEF Port
    <2>5. Opened(task'[p], touched'[p])
      BY <1>1, <1>3, <1>4, <1>7, <2>4 DEF Opened, DiscoveryInv, UseSeen
    <2>6. QED
      BY <1>1, <1>5, <2>1, <2>2, <2>3, <2>5, ListedStep DEF DiscoveryInv
  <1>8. QED
    BY <1>6, <1>7, UartCheckEffect

LEMMA UartClaimPreserves ==
    ASSUME DiscoveryInv, NEW p \in Proc, uart_claim(p)
    PROVE  DiscoveryInv'
  <1>1. /\ Others(p) /\ UNCHANGED <<dev, refs, context, raced, lost, crashed>>
        /\ task[p].uart = "checked" /\ claimed' = claimed \cup {NextPort(p)}
        /\ held'[p] = held[p] \cup {NextPort(p)}
        /\ DOMAIN task'[p] = Fields /\ task'[p].uart = "open"
        /\ task'[p].op = task[p].op /\ task'[p].cs = task[p].cs /\ task'[p].i = task[p].i
        /\ task'[p].dev = task[p].dev /\ UNCHANGED touched[p]
        /\ \A q \in Proc \ {p} : NextPort(p) \in touched'[q]
    BY UartClaimEffect
  <1>2. refs[p] \in Nat /\ lost[p] \in Nat
    BY DEF DiscoveryInv, Shapes
  <1>3. NextPort(p) = Port(task[p]) /\ Port(task'[p]) = Port(task[p])
    BY <1>1, PortOfTask DEF Port
  <1>4. Shapes'
    BY <1>1, ShapesStep DEF DiscoveryInv, Shapes
  <1>5. ~raced => /\ Port(task[p]) \notin claimed
                  /\ \A q \in Proc : held[q] \subseteq claimed
                  /\ \A q \in Proc \ {p} : task[q].uart = "checked" => Port(task[q]) # Port(task[p])
    BY <1>1, PortOfTask DEF DiscoveryInv, PortClaimed
  <1>6. PortClaimed'
    BY <1>1, <1>3, <1>5, PortOfTask DEF DiscoveryInv, PortClaimed, Others
  <1>7. PortHeld'
    BY <1>1, <1>3, <1>5, PortOfTask DEF DiscoveryInv, PortHeld, Others
  <1>8. OnePerPort'
    <2>1. ~raced' => \A q, r \in Proc : q # r => held'[q] \cap held'[r] = {}
      BY <1>1, <1>3, <1>5 DEF DiscoveryInv, OnePerPort, Others
    <2>2. \A a \in claimed' : a \in crashed' \cup UNION {held'[q] : q \in Proc}
      <3> SUFFICES ASSUME NEW a \in claimed', a \notin crashed PROVE \E q \in Proc : a \in held'[q]
        BY <1>1
      <3>1. a = NextPort(p) \/ \E q \in Proc : a \in held[q]
        BY <1>1 DEF DiscoveryInv, OnePerPort
      <3>2. QED
        BY <1>1, <3>1 DEF Others
    <2>3. QED
      BY <2>1, <2>2 DEF OnePerPort
  <1>9. UseSeen'
    <2>1. task[p].op = "open" => NextPort(p) = task[p].cs.at
      BY <1>3 DEF Port
    <2>2. QED
      BY <1>1, <2>1, UseStep DEF DiscoveryInv, UseSeen
  <1>10. ContextHeld'
    BY <1>1, <1>2, ContextQuiet
  <1>11. Opened(task'[p], touched'[p])
    <2>1. task[p].op = "opened" /\ task[p].cs.at # "any" /\ task[p].cs.driver = At[task[p].cs.at] =>
             task[p].dev = task[p].cs \/ task[p].cs.at \in touched[p] \/ faults > 0
      BY DEF DiscoveryInv, OpensListed
    <2>2. faults > 0 => faults' > 0
      BY <1>1 DEF DiscoveryInv, Shapes, Others
    <2>3. QED
      BY <1>1, <2>1, <2>2 DEF Opened
  <1>12. QED
    BY <1>1, <1>4, <1>6, <1>7, <1>8, <1>9, <1>10, <1>11, ListedStep DEF DiscoveryInv

LEMMA ScanProbePreserves ==
    ASSUME DiscoveryInv, NEW p \in Proc, scan_probe(p)
    PROVE  DiscoveryInv'
  <1>1. /\ Others(p) /\ UNCHANGED <<dev, refs, context, raced, lost, crashed>>
        /\ task[p].op = "list" /\ task[p].uart = "open"
        /\ claimed' = claimed \ {NextPort(p)} /\ held'[p] = held[p] \ {NextPort(p)}
        /\ DOMAIN task'[p] = Fields /\ task'[p].uart = "none" /\ task'[p].op \in {"list", "listed"}
    BY ScanProbeEffect
  <1>2. refs[p] \in Nat /\ lost[p] \in Nat
    BY DEF DiscoveryInv, Shapes
  <1>3. Shapes'
    BY <1>1, ShapesStep DEF DiscoveryInv, Shapes
  <1>4. ~raced => NextPort(p) \in held[p] /\ \A x \in dev[p] : x.driver \in Serial => x.at # NextPort(p)
    BY <1>1 DEF DiscoveryInv, PortHeld
  <1>5. PortClaimed' /\ PortHeld' /\ OnePerPort'
    BY <1>1, <1>4, PortsClosed
  <1>6. UseSeen'
    BY <1>1, UseStep
  <1>7. ContextHeld'
    BY <1>1, <1>2, ContextQuiet
  <1>8. OpensListed'
    BY <1>1, ListedStep DEF Opened
  <1>9. QED
    BY <1>3, <1>5, <1>6, <1>7, <1>8 DEF DiscoveryInv

LEMMA ClosePreserves ==
    ASSUME DiscoveryInv, NEW p \in Proc, NEW x \in dev[p], close(p, x)
    PROVE  DiscoveryInv'
  <1>1. /\ Others(p) /\ UNCHANGED <<task, raced, lost, crashed, touched, faults>>
        /\ task[p].op = "idle" /\ dev'[p] = dev[p] \ {x}
    BY CloseEffect
  <1>2. /\ refs[p] \in Nat /\ lost[p] \in Nat /\ IsFiniteSet(dev[p]) /\ DOMAIN task[p] = Fields
        /\ \A y \in dev[p] : y = [driver |-> At[y.at], at |-> y.at]
    BY IdleFields DEF DiscoveryInv, Shapes
  <1>3. Shapes'
    <2>1. IsFiniteSet(dev'[p])
      BY <1>1, <1>2, FS_RemoveElement
    <2>2. QED
      BY <1>1, <1>2, <2>1, ShapesStep
  <1>4. PortClaimed' /\ PortHeld' /\ OnePerPort'
    <2>1. CASE x.driver \in Serial /\ claimed' = claimed \ {x.at} /\ held'[p] = held[p] \ {x.at}
      <3>1. ~raced => x.at \in held[p] /\ (task[p].uart = "open" => Port(task[p]) # x.at)
        BY <2>1, PortOfTask DEF DiscoveryInv, PortHeld
      <3>2. \A y \in dev'[p] : y \in dev[p] /\ y.at # x.at
        BY <1>1, <1>2
      <3>3. QED
        BY <1>1, <2>1, <3>1, <3>2, PortsClosed
    <2>2. CASE x.driver \notin Serial /\ UNCHANGED <<held, claimed>>
      BY <1>1, <2>2, PortsQuiet
    <2>3. QED
      BY <2>1, <2>2, CloseEffect
  <1>5. UseSeen'
    BY <1>1, CloseEffect, UseStep
  <1>6. ContextHeld'
    <2>1. CASE x.driver # "acr122_pcsc" /\ UNCHANGED <<refs, context>>
      <3>1. Pcsc(dev'[p]) = Pcsc(dev[p])
        BY <1>1, <2>1 DEF Pcsc
      <3>2. refs'[p] = refs[p] /\ (p \in context' <=> p \in context) /\ lost'[p] >= lost[p]
        BY <1>1, <1>2, <2>1
      <3>3. QED
        BY <1>1, <3>1, <3>2, ContextQuiet
    <2>2. CASE /\ x.driver = "acr122_pcsc" /\ refs'[p] = refs[p] - 1
               /\ context' = IF refs[p] = 1 THEN context \ {p} ELSE context
      <3>1. Pcsc(dev'[p]) = Pcsc(dev[p]) \ {x} /\ x \in Pcsc(dev[p]) /\ IsFiniteSet(Pcsc(dev[p]))
        BY <1>1, <1>2, <2>2, FS_Subset DEF Pcsc
      <3>2. Cardinality(Pcsc(dev'[p])) = Cardinality(Pcsc(dev[p])) - 1 /\ Cardinality(Pcsc(dev[p])) \in Nat
        BY <3>1, FS_RemoveElement, FS_CardinalityType
      <3>3. Cardinality(Pcsc(dev[p])) # 0
        BY <3>1, FS_EmptySet
      <3>4. /\ Cardinality(Pcsc(dev[p])) <= refs[p] /\ refs[p] <= Cardinality(Pcsc(dev[p])) + lost[p]
            /\ p \in context <=> refs[p] > 0
        BY DEF DiscoveryInv, ContextHeld, Pcsc
      <3>5. /\ Cardinality(Pcsc(dev'[p])) <= refs'[p] /\ refs'[p] <= Cardinality(Pcsc(dev'[p])) + lost'[p]
            /\ p \in context' <=> refs'[p] > 0
        BY <1>1, <1>2, <2>2, <3>2, <3>3, <3>4
      <3>6. QED
        BY <1>1, <3>5, ContextStep
    <2>3. QED
      BY <2>1, <2>2, CloseEffect
  <1>7. OpensListed'
    BY <1>1, ListedStep DEF Opened
  <1>8. QED
    BY <1>3, <1>4, <1>5, <1>6, <1>7 DEF DiscoveryInv

LEMMA OpenProbePreserves ==
    ASSUME DiscoveryInv, NEW p \in Proc, open_probe(p)
    PROVE  DiscoveryInv'
  <1> DEFINE cs == task[p].cs
  <1>1. /\ Others(p) /\ UNCHANGED <<refs, context, raced, lost, crashed>>
        /\ task[p].op = "open" /\ task[p].uart = "open"
        /\ DOMAIN task'[p] = Fields /\ task'[p].uart = "none" /\ task'[p].op = "opened"
        /\ task'[p].cs = cs
    BY OpenProbeEffect
  <1>2. /\ refs[p] \in Nat /\ lost[p] \in Nat /\ IsFiniteSet(dev[p])
        /\ cs \in Connstring /\ cs.driver \in Serial
        /\ \A y \in dev[p] : y = [driver |-> At[y.at], at |-> y.at]
    BY <1>1 DEF DiscoveryInv, Shapes
  <1>3. cs = [driver |-> cs.driver, at |-> cs.at] /\ cs.driver # "acr122_pcsc"
    BY <1>2 DEF Connstring, Serial
  <1>4. Port(task[p]) = cs.at /\ NextPort(p) = cs.at
    BY <1>1, PortOfTask DEF Port
  <1>5. ~raced => cs.at \in held[p] /\ \A x \in dev[p] : x.driver \in Serial => x.at # cs.at
    BY <1>1, <1>4 DEF DiscoveryInv, PortHeld
  <1>6. refs'[p] = refs[p] /\ (p \in context' <=> p \in context) /\ lost'[p] >= lost[p]
    BY <1>1, <1>2
  <1>7. CASE /\ At[cs.at] = cs.driver /\ UNCHANGED <<held, claimed>>
             /\ dev'[p] = dev[p] \cup {cs} /\ task'[p].dev = cs
    <2>1. Shapes'
      <3>1. IsFiniteSet(dev'[p])
        BY <1>2, <1>7, FS_AddElement
      <3>2. \A y \in dev'[p] : y = [driver |-> At[y.at], at |-> y.at]
        BY <1>2, <1>3, <1>7
      <3>3. QED
        BY <1>1, <3>1, <3>2, ShapesStep
    <2>2. PortClaimed'
      BY <1>1, <1>7, PortOfTask DEF DiscoveryInv, PortClaimed, Others
    <2>3. PortHeld'
      BY <1>1, <1>5, <1>7, PortOfTask DEF DiscoveryInv, PortHeld, Others
    <2>4. OnePerPort'
      BY <1>1, <1>7 DEF DiscoveryInv, OnePerPort
    <2>5. UseSeen'
      BY <1>1, <1>2, <1>7, UseStep
    <2>6. ContextHeld'
      <3>1. Pcsc(dev'[p]) = Pcsc(dev[p])
        BY <1>3, <1>7 DEF Pcsc
      <3>2. QED
        BY <1>1, <1>6, <3>1, ContextQuiet
    <2>7. OpensListed'
      BY <1>1, <1>7, ListedStep DEF Opened
    <2>8. QED
      BY <2>1, <2>2, <2>3, <2>4, <2>5, <2>6, <2>7 DEF DiscoveryInv
  <1>8. CASE /\ At[cs.at] # cs.driver \/ faults' > 0
             /\ claimed' = claimed \ {cs.at} /\ held'[p] = held[p] \ {cs.at}
             /\ UNCHANGED dev
    <2>1. Shapes'
      BY <1>1, <1>2, <1>8, ShapesStep
    <2>2. PortClaimed' /\ PortHeld' /\ OnePerPort'
      BY <1>1, <1>5, <1>8, PortsClosed
    <2>3. UseSeen'
      BY <1>1, <1>8, UseStep
    <2>4. ContextHeld'
      BY <1>1, <1>6, <1>8, ContextQuiet
    <2>5. OpensListed'
      BY <1>1, <1>8, ListedStep DEF Opened
    <2>6. QED
      BY <2>1, <2>2, <2>3, <2>4, <2>5 DEF DiscoveryInv
  <1>9. QED
    BY <1>7, <1>8, OpenProbeEffect

LEMMA OpenNoportPreserves ==
    ASSUME DiscoveryInv, NEW p \in Proc, open_noport(p)
    PROVE  DiscoveryInv'
  <1>1. /\ Others(p) /\ UNCHANGED <<held, claimed, dev, refs, context, raced, lost, crashed>>
        /\ DOMAIN task'[p] = Fields /\ task[p].op = "open" /\ task'[p].op = "opened"
        /\ task'[p].uart = task[p].uart /\ task'[p].cs = task[p].cs /\ task[p].cs.at = "any"
    BY OpenNoportEffect
  <1>2. refs[p] \in Nat /\ lost[p] \in Nat
    BY DEF DiscoveryInv, Shapes
  <1>3. Port(task'[p]) = Port(task[p])
    BY <1>1 DEF Port
  <1>4. Shapes'
    BY <1>1, ShapesStep DEF DiscoveryInv, Shapes
  <1>5. PortClaimed' /\ PortHeld' /\ OnePerPort'
    BY <1>1, <1>3, PortsQuiet
  <1>6. UseSeen'
    BY <1>1, UseStep
  <1>7. ContextHeld'
    BY <1>1, <1>2, ContextQuiet
  <1>8. OpensListed'
    BY <1>1, ListedStep DEF Opened
  <1>9. QED
    BY <1>4, <1>5, <1>6, <1>7, <1>8 DEF DiscoveryInv

LEMMA CrashPreserves ==
    ASSUME DiscoveryInv, NEW p \in Proc, crash(p)
    PROVE  DiscoveryInv'
  <1>1. /\ Others(p) /\ UNCHANGED <<claimed, raced, touched>>
        /\ crashed' = crashed \cup (held[p] \cap claimed)
        /\ held'[p] = {} /\ dev'[p] = {} /\ refs'[p] = 0 /\ context' = context \ {p} /\ lost'[p] = 0
        /\ DOMAIN task'[p] = Fields /\ task'[p].uart = "none" /\ task'[p].op = "idle"
    BY CrashEffect
  <1>2. Shapes'
    BY <1>1, FS_EmptySet, ShapesStep
  <1>3. PortClaimed'
    BY <1>1, PortOfTask DEF DiscoveryInv, PortClaimed, Others
  <1>4. PortHeld'
    BY <1>1, PortOfTask DEF DiscoveryInv, PortHeld, Others
  <1>5. OnePerPort'
    <2>1. ~raced' => \A q, r \in Proc : q # r => held'[q] \cap held'[r] = {}
      BY <1>1 DEF DiscoveryInv, OnePerPort, Others
    <2>2. \A a \in claimed' : a \in crashed' \cup UNION {held'[q] : q \in Proc}
      <3> SUFFICES ASSUME NEW a \in claimed', a \notin crashed' PROVE \E q \in Proc : a \in held'[q]
        OBVIOUS
      <3>1. PICK q \in Proc : a \in held[q]
        BY <1>1 DEF DiscoveryInv, OnePerPort
      <3>2. QED
        BY <1>1, <3>1 DEF Others
    <2>3. QED
      BY <2>1, <2>2 DEF OnePerPort
  <1>6. UseSeen'
    BY <1>1, UseStep
  <1>7. ContextHeld'
    <2>1. Cardinality(Pcsc(dev'[p])) = 0
      BY <1>1, FS_EmptySet DEF Pcsc
    <2>2. QED
      BY <1>1, <2>1, ContextStep
  <1>8. OpensListed'
    BY <1>1, ListedStep DEF Opened
  <1>9. QED
    BY <1>2, <1>3, <1>4, <1>5, <1>6, <1>7, <1>8 DEF DiscoveryInv

\* What nfc_open finds in use off the serial ports was seen in use.
LEMMA InUseSeen ==
    ASSUME DiscoveryInv, NEW p \in Proc, NEW at \in InUse, task[p].op = "open",
           At[at] \notin Serial, task[p].cs.driver \notin Serial
    PROVE  at \in touched[p]
  <1>1. CASE at \in claimed
    BY <1>1 DEF DiscoveryInv, UseSeen, Shapes
  <1>2. CASE \E q \in Proc : \E x \in dev[q] : x.at = at
    BY <1>2 DEF DiscoveryInv, UseSeen, Shapes
  <1>3. QED
    BY <1>1, <1>2 DEF InUse

\* A driver's name is no wildcard.
LEMMA ListedDriver ==
    ASSUME NEW cs \in Connstring, cs.at # "any", cs.driver = At[cs.at]
    PROVE  cs.driver # "usb" /\ cs = [driver |-> cs.driver, at |-> cs.at]
  <1>1. cs.at \in Place
    BY DEF Connstring, Place
  <1>2. cs.driver \in Serial \cup OnUsb \cup {"acr122_pcsc", "none"}
    BY <1>1, DiscoveryAssumption
  <1>3. QED
    BY <1>2 DEF Connstring, Serial, OnUsb

LEMMA OpenUsbPreserves ==
    ASSUME DiscoveryInv, NEW p \in Proc, open_usb(p)
    PROVE  DiscoveryInv'
  <1> DEFINE cs == task[p].cs
  <1>1. /\ Others(p) /\ UNCHANGED <<held, claimed, refs, context, raced, lost, crashed>>
        /\ DOMAIN task'[p] = Fields /\ task[p].op = "open" /\ task'[p].op \in {"open", "opened"}
        /\ task'[p].uart = task[p].uart /\ task'[p].cs = cs /\ UNCHANGED touched[p]
    BY UsbEffect
  <1>2. /\ refs[p] \in Nat /\ lost[p] \in Nat /\ IsFiniteSet(dev[p]) /\ cs \in Connstring
        /\ task[p].uart # "none" => cs.driver \in Serial
        /\ \A y \in dev[p] : y = [driver |-> At[y.at], at |-> y.at]
    BY <1>1 DEF DiscoveryInv, Shapes
  <1>3. Port(task'[p]) = Port(task[p])
    BY <1>1 DEF Port
  <1>4. refs'[p] = refs[p] /\ (p \in context' <=> p \in context) /\ lost'[p] >= lost[p]
    BY <1>1, <1>2
  <1>5. PICK d \in OnUsb : \E new :
            /\ Accepts(d, cs) /\ new = [driver |-> d, at |-> UsbPlace(cs)]
            /\ \/ /\ At[new.at] = d /\ dev'[p] = dev[p] \cup {new} /\ task'[p].dev = new
                  /\ task'[p].op = "opened" /\ \A q \in Proc \ {p} : new.at \in touched'[q]
               \/ /\ new.at \in InUse \/ At[new.at] # d \/ faults' > 0
                  /\ UNCHANGED dev
    BY UsbEffect
  <1>6. PICK new :
            /\ Accepts(d, cs) /\ new = [driver |-> d, at |-> UsbPlace(cs)]
            /\ \/ /\ At[new.at] = d /\ dev'[p] = dev[p] \cup {new} /\ task'[p].dev = new
                  /\ task'[p].op = "opened" /\ \A q \in Proc \ {p} : new.at \in touched'[q]
               \/ /\ new.at \in InUse \/ At[new.at] # d \/ faults' > 0
                  /\ UNCHANGED dev
    BY <1>5
  <1>7. new.driver = d /\ d \notin Serial /\ d # "acr122_pcsc"
    BY <1>6 DEF Serial, OnUsb
  <1>8. cs.driver = d \/ cs.driver = "usb"
    BY <1>6 DEF Accepts
  <1>9. ASSUME cs.at # "any", cs.driver = At[cs.at]
        PROVE  cs.driver = d /\ new = cs /\ (new.at \in InUse => cs.at \in touched[p])
    <2>1. cs.driver = d /\ cs = [driver |-> d, at |-> cs.at]
      BY <1>2, <1>8, <1>9, ListedDriver
    <2>2. new = cs
      BY <1>6, <1>9, <2>1 DEF UsbPlace
    <2>3. QED
      BY <1>1, <1>7, <1>9, <2>1, <2>2, InUseSeen
  <1>10. Opened(task'[p], touched'[p])
    BY <1>1, <1>6, <1>9 DEF Opened
  <1>11. CASE /\ At[new.at] = d /\ dev'[p] = dev[p] \cup {new} /\ task'[p].op = "opened"
              /\ \A q \in Proc \ {p} : new.at \in touched'[q]
    <2>1. Shapes'
      <3>1. IsFiniteSet(dev'[p])
        BY <1>2, <1>11, FS_AddElement
      <3>2. \A y \in dev'[p] : y = [driver |-> At[y.at], at |-> y.at]
        BY <1>2, <1>6, <1>11
      <3>3. QED
        BY <1>1, <1>2, <3>1, <3>2, ShapesStep
    <2>2. PortClaimed' /\ PortHeld' /\ OnePerPort'
      BY <1>1, <1>3, <1>7, <1>11, PortsQuiet
    <2>3. UseSeen'
      BY <1>1, <1>11, UseStep
    <2>4. ContextHeld'
      <3>1. Pcsc(dev'[p]) = Pcsc(dev[p])
        BY <1>7, <1>11 DEF Pcsc
      <3>2. QED
        BY <1>1, <1>4, <3>1, ContextQuiet
    <2>5. QED
      BY <1>1, <1>10, <2>1, <2>2, <2>3, <2>4, ListedStep DEF DiscoveryInv
  <1>12. CASE UNCHANGED dev
    <2>1. Shapes'
      BY <1>1, <1>2, <1>12, ShapesStep
    <2>2. PortClaimed' /\ PortHeld' /\ OnePerPort'
      BY <1>1, <1>3, <1>12, PortsQuiet
    <2>3. UseSeen'
      BY <1>1, <1>12, UseStep DEF DiscoveryInv, UseSeen
    <2>4. ContextHeld'
      BY <1>1, <1>4, <1>12, ContextQuiet
    <2>5. QED
      BY <1>1, <1>10, <2>1, <2>2, <2>3, <2>4, ListedStep DEF DiscoveryInv
  <1>13. QED
    BY <1>6, <1>11, <1>12

LEMMA OpenPcscPreserves ==
    ASSUME DiscoveryInv, NEW p \in Proc, open_pcsc(p)
    PROVE  DiscoveryInv'
  <1> DEFINE cs == task[p].cs
  <1>1. /\ Others(p) /\ UNCHANGED <<held, claimed, raced, crashed>>
        /\ DOMAIN task'[p] = Fields /\ task[p].op = "open" /\ task'[p].op = "opened"
        /\ task'[p].uart = task[p].uart /\ task'[p].cs = cs /\ UNCHANGED touched[p]
        /\ cs.driver = "acr122_pcsc" /\ cs.driver \notin Serial
    BY OpenPcscEffect DEF Serial
  <1>2. /\ refs[p] \in Nat /\ lost[p] \in Nat /\ IsFiniteSet(dev[p]) /\ cs \in Connstring
        /\ \A y \in dev[p] : y = [driver |-> At[y.at], at |-> y.at]
    BY <1>1 DEF DiscoveryInv, Shapes
  <1>3. Port(task'[p]) = Port(task[p])
    BY <1>1 DEF Port
  <1>4. PICK at : \E new :
            /\ cs.at # "any" => at = cs.at
            /\ new = [driver |-> "acr122_pcsc", at |-> at]
            /\ \/ at = "any" /\ UNCHANGED <<dev, refs, context, lost>>
               \/ /\ at \notin InUse /\ At[at] = "acr122_pcsc" /\ UNCHANGED lost
                  /\ refs'[p] = refs[p] + 1 /\ context' = context \cup {p}
                  /\ dev'[p] = dev[p] \cup {new} /\ task'[p].dev = new
                  /\ \A q \in Proc \ {p} : at \in touched'[q]
               \/ /\ at \in InUse \/ At[at] # "acr122_pcsc" \/ faults' > 0
                  /\ UNCHANGED dev /\ lost'[p] = lost[p] + 1
                  /\ \/ refs'[p] = refs[p] + 1 /\ context' = context \cup {p}
                     \/ UNCHANGED <<refs, context>>
    BY OpenPcscEffect
  <1> DEFINE new == [driver |-> "acr122_pcsc", at |-> at]
  <1>5. ASSUME UNCHANGED dev,
               \/ refs'[p] = refs[p] /\ (p \in context' <=> p \in context) /\ lost'[p] >= lost[p]
               \/ refs'[p] = refs[p] + 1 /\ p \in context' /\ lost'[p] = lost[p] + 1,
               Opened(task'[p], touched'[p])
        PROVE  DiscoveryInv'
    <2>1. Shapes'
      BY <1>1, <1>2, <1>5, ShapesStep
    <2>2. PortClaimed' /\ PortHeld' /\ OnePerPort'
      BY <1>1, <1>3, <1>5, PortsQuiet
    <2>3. UseSeen'
      BY <1>1, <1>5, UseStep
    <2>4. ContextHeld'
      BY <1>1, <1>5, ContextQuiet
    <2>5. QED
      BY <1>1, <1>5, <2>1, <2>2, <2>3, <2>4, ListedStep DEF DiscoveryInv
  <1>6. CASE at = "any" /\ UNCHANGED <<dev, refs, context, lost>>
    <2>1. Opened(task'[p], touched'[p])
      BY <1>1, <1>4, <1>6 DEF Opened
    <2>2. refs'[p] = refs[p] /\ (p \in context' <=> p \in context) /\ lost'[p] >= lost[p]
      BY <1>2, <1>6
    <2>3. QED
      BY <1>5, <1>6, <2>1, <2>2
  <1>7. CASE /\ at \in InUse \/ At[at] # "acr122_pcsc" \/ faults' > 0
             /\ UNCHANGED dev /\ lost'[p] = lost[p] + 1
             /\ \/ refs'[p] = refs[p] + 1 /\ context' = context \cup {p}
                \/ UNCHANGED <<refs, context>>
    <2>1. ASSUME cs.at # "any", cs.driver = At[cs.at] PROVE cs.at \in touched[p] \/ faults' > 0
      <3>1. CASE faults' > 0
        BY <3>1
      <3>2. CASE cs.at \in InUse
        BY <1>1, <2>1, <3>2, InUseSeen
      <3>3. QED
        BY <1>1, <1>4, <1>7, <2>1, <3>1, <3>2
    <2>2. Opened(task'[p], touched'[p])
      BY <1>1, <2>1 DEF Opened
    <2>3. \/ refs'[p] = refs[p] /\ (p \in context' <=> p \in context) /\ lost'[p] >= lost[p]
          \/ refs'[p] = refs[p] + 1 /\ p \in context' /\ lost'[p] = lost[p] + 1
      BY <1>2, <1>7
    <2>4. QED
      BY <1>5, <1>7, <2>2, <2>3
  <1>8. CASE /\ at \notin InUse /\ At[at] = "acr122_pcsc" /\ UNCHANGED lost
             /\ refs'[p] = refs[p] + 1 /\ context' = context \cup {p}
             /\ dev'[p] = dev[p] \cup {new} /\ task'[p].dev = new
             /\ \A q \in Proc \ {p} : at \in touched'[q]
    <2>1. Shapes'
      <3>1. IsFiniteSet(dev'[p])
        BY <1>2, <1>8, FS_AddElement
      <3>2. \A y \in dev'[p] : y = [driver |-> At[y.at], at |-> y.at]
        BY <1>2, <1>8
      <3>3. QED
        BY <1>1, <3>1, <3>2, ShapesStep
    <2>2. PortClaimed' /\ PortHeld' /\ OnePerPort'
      BY <1>1, <1>3, <1>8, PortsQuiet
    <2>3. UseSeen'
      BY <1>1, <1>8, UseStep
    <2>4. ContextHeld'
      <3>1. new \notin Pcsc(dev[p]) /\ Pcsc(dev'[p]) = Pcsc(dev[p]) \cup {new}
        BY <1>8 DEF Pcsc, InUse
      <3>2. IsFiniteSet(Pcsc(dev[p]))
        BY <1>2, FS_Subset DEF Pcsc
      <3>3. Cardinality(Pcsc(dev'[p])) = Cardinality(Pcsc(dev[p])) + 1 /\ Cardinality(Pcsc(dev[p])) \in Nat
        BY <3>1, <3>2, FS_AddElement, FS_CardinalityType
      <3>4. Cardinality(Pcsc(dev[p])) <= refs[p] /\ refs[p] <= Cardinality(Pcsc(dev[p])) + lost[p]
        BY DEF DiscoveryInv, ContextHeld, Pcsc
      <3>5. /\ Cardinality(Pcsc(dev'[p])) <= refs'[p] /\ refs'[p] <= Cardinality(Pcsc(dev'[p])) + lost'[p]
            /\ p \in context' <=> refs'[p] > 0
        BY <1>2, <1>8, <3>3, <3>4
      <3>6. QED
        BY <1>1, <3>5, ContextStep
    <2>5. Opened(task'[p], touched'[p])
      <3>1. cs = [driver |-> cs.driver, at |-> cs.at]
        BY <1>2 DEF Connstring
      <3>2. QED
        BY <1>1, <1>4, <1>8, <3>1 DEF Opened
    <2>6. QED
      BY <1>1, <2>1, <2>2, <2>3, <2>4, <2>5, ListedStep DEF DiscoveryInv
  <1>9. QED
    BY <1>4, <1>6, <1>7, <1>8

-----------------------------------------------------------------------------
(* The theorems                                                            *)

LEMMA InitDiscovery == DiscoveryInit => DiscoveryInv
  <1> SUFFICES ASSUME DiscoveryInit PROVE DiscoveryInv
    OBVIOUS
  <1>1. Shapes
    BY IdleFields, FS_EmptySet DEF DiscoveryInit, Shapes
  <1>2. PortClaimed /\ PortHeld /\ UseSeen /\ OnePerPort /\ OpensListed
    BY IdleFields DEF DiscoveryInit, PortClaimed, PortHeld, UseSeen, OnePerPort, OpensListed
  <1>3. ContextHeld
    <2>1. \A p \in Proc : Cardinality({x \in dev[p] : x.driver = "acr122_pcsc"}) = 0
      <3> SUFFICES ASSUME NEW p \in Proc PROVE Cardinality({x \in dev[p] : x.driver = "acr122_pcsc"}) = 0
        OBVIOUS
      <3>1. {x \in dev[p] : x.driver = "acr122_pcsc"} = {}
        BY DEF DiscoveryInit
      <3>2. QED
        BY <3>1, FS_EmptySet
    <2>2. QED
      BY <2>1 DEF DiscoveryInit, ContextHeld
  <1>4. QED
    BY <1>1, <1>2, <1>3 DEF DiscoveryInv

LEMMA NextDiscovery == DiscoveryInv /\ [DiscoveryNext]_discovery_vars => DiscoveryInv'
  <1> SUFFICES ASSUME DiscoveryInv, [DiscoveryNext]_discovery_vars PROVE DiscoveryInv'
    OBVIOUS
  <1>1. CASE UNCHANGED discovery_vars
    BY <1>1, PortOfTask DEF DiscoveryInv, discovery_vars, Shapes, PortClaimed, PortHeld, UseSeen, OnePerPort, ContextHeld, OpensListed
  <1>2. ASSUME NEW p \in Proc,
               \/ \E len \in Lengths, b \in BOOLEAN : list_devices(p, len, b)
               \/ \E cs \in Connstring : open(p, cs)
               \/ Scan(p) \/ uart_check(p) \/ uart_claim(p) \/ Open(p) \/ return(p) \/ crash(p)
               \/ \E x \in dev[p] : close(p, x)
        PROVE  DiscoveryInv'
    <2>1. CASE \E len \in Lengths, b \in BOOLEAN : list_devices(p, len, b)
      BY <2>1, ListPreserves
    <2>2. CASE \E cs \in Connstring : open(p, cs)
      BY <2>2, OpenPreserves
    <2>3. CASE Scan(p)
      BY <2>3, ListPreserves, ScanProbePreserves DEF Scan
    <2>4. CASE uart_check(p) \/ uart_claim(p)
      BY <2>4, UartCheckPreserves, UartClaimPreserves
    <2>5. CASE Open(p)
      BY <2>5, OpenProbePreserves, OpenNoportPreserves, OpenUsbPreserves, OpenPcscPreserves DEF Open
    <2>6. CASE return(p) \/ crash(p)
      BY <2>6, ListPreserves, CrashPreserves
    <2>7. CASE \E x \in dev[p] : close(p, x)
      BY <2>7, ClosePreserves
    <2>8. QED
      BY <1>2, <2>1, <2>2, <2>3, <2>4, <2>5, <2>6, <2>7
  <1>3. QED
    BY <1>1, <1>2 DEF DiscoveryNext

\* The inductive invariant: the uses of ports, devices and the PC/SC context by
\* the open, scan and close functions of all drivers, interleaved at each system
\* call and cut short by the death of a process, stay consistent.
THEOREM DiscoveryInductive == DiscoverySpec => []DiscoveryInv
  BY InitDiscovery, NextDiscovery, PTL DEF DiscoverySpec

\* uart_open's check of the flag CCLAIMED keeps a serial port to one process
\* unless two are between its two system calls, and uart_close leaves no port
\* claimed that nobody has open.
THEOREM OnePerPortHolds == DiscoverySpec => []OnePerPort
  <1>1. DiscoveryInv => OnePerPort
    BY DEF DiscoveryInv
  <1>2. QED
    BY <1>1, DiscoveryInductive, PTL

\* acr122_pcsc_get_scardcontext and acr122_pcsc_free_scardcontext: the context is
\* released with its last user and not before, and a failed call of
\* acr122_pcsc_scan or acr122_pcsc_open leaks at most the one reference it took.
THEOREM ContextHeldHolds == DiscoverySpec => []ContextHeld
  <1>1. DiscoveryInv => ContextHeld
    BY DEF DiscoveryInv
  <1>2. QED
    BY <1>1, DiscoveryInductive, PTL

\* nfc_open with a full connection string opens that device with that driver,
\* unless another process used it since or a command failed.
THEOREM OpensListedHolds == DiscoverySpec => []OpensListed
  <1>1. DiscoveryInv => OpensListed
    BY DEF DiscoveryInv
  <1>2. QED
    BY <1>1, DiscoveryInductive, PTL

-----------------------------------------------------------------------------
(* nfc_list_devices: the list so far                                       *)

\* The scan of the driver of a place has been there.
Searched(t, x) ==
    \E k \in DOMAIN nfc_drivers :
       /\ nfc_drivers[k] = At[x]
       /\ k < t.d \/ (k = t.d /\ \E j \in DOMAIN Where(At[x]) : j < t.i /\ Where(At[x])[j] = x)

\* A place is listed, was used by somebody, or was not to be looked at.
Accounted(t, x, seen) ==
    \/ x \in seen \/ (At[x] \in Serial /\ ~t.intrusive)
    \/ \E a \in DOMAIN t.found : t.found[a] = [driver |-> At[x], at |-> x]

\* What is listed is there, under its driver, once, and has been searched.
FoundOK(t) ==
    /\ t.found \in Seq([driver : Driver, at : Place]) /\ Len(t.found) <= t.len
    /\ \A a, b \in DOMAIN t.found : t.found[a] = t.found[b] => a = b
    /\ \A a \in DOMAIN t.found : At[t.found[a].at] = t.found[a].driver /\ Searched(t, t.found[a].at)

\* Unless the array is full or something failed, nothing searched is missing.
AllFound(t, seen, n) ==
    Len(t.found) < t.len /\ n = 0 => \A x \in Place : Searched(t, x) => Accounted(t, x, seen)

\* The task of nfc_list_devices, with the places seen in use and the number of
\* failures; a port is only opened by a serial driver that may look.
ListOK(t, seen, n) ==
    /\ t.len \in Nat /\ t.i \in Nat \ {0} /\ t.d \in Nat
    /\ FoundOK(t) /\ AllFound(t, seen, n)
    /\ t.op = "list" => /\ t.d \in 1..6 /\ Len(t.found) < t.len
                        /\ t.uart # "none" => nfc_drivers[t.d] \in Serial /\ t.intrusive /\ t.i \in DOMAIN Ports
    /\ t.op = "listed" => t.uart = "none" /\ (Len(t.found) = t.len \/ t.d > 6)

\* What is in use was in use when nfc_list_devices began, or was used since.
PlacesSeen(p) ==
    task[p].op = "list" =>
      /\ \A port \in claimed : port \in touched[p] \/ (task[p].uart = "open" /\ port = Ports[task[p].i])
      /\ \A q \in Proc : \A x \in dev[q] : x.driver \notin Serial => x.at \in touched[p]

\* The lists that are being filled or were just filled are right so far.
ListInv ==
    \A p \in Proc : /\ task[p].op \in {"list", "listed"} => ListOK(task[p], touched[p], faults)
                    /\ PlacesSeen(p)

-----------------------------------------------------------------------------
(* What a scan has searched                                                *)

\* The table of the drivers
LEMMA Drivers ==
    /\ DOMAIN nfc_drivers = 1..6 /\ Len(nfc_drivers) = 6
    /\ \A k, j \in 1..6 : nfc_drivers[k] = nfc_drivers[j] => k = j
    /\ \A k \in 1..6 : nfc_drivers[k] \in Driver /\ nfc_drivers[k] # "none"
    /\ \A d \in Driver : \E k \in 1..6 : nfc_drivers[k] = d
  <1>1. DOMAIN nfc_drivers = 1..6 /\ Len(nfc_drivers) = 6
    BY DEF nfc_drivers
  <1>2. \A k, j \in 1..6 : nfc_drivers[k] = nfc_drivers[j] => k = j
    BY DEF nfc_drivers
  <1>3. \A k \in 1..6 : nfc_drivers[k] # "none"
    BY DEF nfc_drivers
  <1> QED BY <1>1, <1>2, <1>3 DEF Driver, Elements

\* The table of the places
LEMMA PlaceFacts ==
    /\ \A x \in Place : At[x] \in Driver \cup {"none"} /\ (At[x] # "none" => \E j \in DOMAIN Where(At[x]) : Where(At[x])[j] = x)
    /\ \A d : \A i, j \in DOMAIN Where(d) : Where(d)[i] = Where(d)[j] => i = j
    /\ \A d : Where(d) \in Seq(Place)
  <1>1. \A x \in Place : At[x] \in Serial \cup OnUsb \cup {"acr122_pcsc", "none"}
    BY DiscoveryAssumption
  <1>2. Serial \cup OnUsb \cup {"acr122_pcsc"} \subseteq Driver
    <2>1. \A k \in 1..6 : nfc_drivers[k] \in Driver
      BY Drivers
    <2>2. /\ nfc_drivers[1] \in Driver /\ nfc_drivers[2] \in Driver /\ nfc_drivers[3] \in Driver
          /\ nfc_drivers[4] \in Driver /\ nfc_drivers[5] \in Driver /\ nfc_drivers[6] \in Driver
      BY <2>1
    <2> QED BY <2>2 DEF nfc_drivers, Serial, OnUsb
  <1>3. \A x \in Place : At[x] = "none" \/ x \in Elements(Where(At[x]))
    BY DiscoveryAssumption
  <1>4. \A d : Where(d) \in {Ports, Usb, Readers}
    BY DEF Where
  <1>5. \A s \in {Ports, Usb, Readers} : s \in Seq(Place) /\ \A i, j \in DOMAIN s : s[i] = s[j] => i = j
    BY DiscoveryAssumption
  <1>6. \A x \in Place : At[x] # "none" => \E j \in DOMAIN Where(At[x]) : Where(At[x])[j] = x
    BY <1>3 DEF Elements
  <1> QED BY <1>1, <1>2, <1>4, <1>5, <1>6

\* What was searched is searched later.
LEMMA SearchedOn ==
    ASSUME NEW t, NEW u, NEW x, Searched(t, x), t.d \in Nat, t.i \in Nat, u.d \in Nat, u.i \in Nat,
           t.d < u.d \/ (u.d = t.d /\ t.i <= u.i)
    PROVE  Searched(u, x)
  <1>1. PICK k \in DOMAIN nfc_drivers :
           /\ nfc_drivers[k] = At[x]
           /\ k < t.d \/ (k = t.d /\ \E j \in DOMAIN Where(At[x]) : j < t.i /\ Where(At[x])[j] = x)
    BY DEF Searched
  <1>2. k \in 1..6
    BY Drivers
  <1>3. CASE k < t.d
    BY <1>1, <1>2, <1>3 DEF Searched
  <1>4. CASE k = t.d /\ t.d < u.d
    BY <1>1, <1>2, <1>4 DEF Searched
  <1>5. CASE k = t.d /\ u.d = t.d /\ t.i <= u.i
    <2>1. PICK j \in DOMAIN Where(At[x]) : j < t.i /\ Where(At[x])[j] = x
      BY <1>1, <1>2, <1>5
    <2>2. j \in Nat
      BY PlaceFacts
    <2>3. j < u.i
      BY <1>5, <2>1, <2>2
    <2> QED BY <1>1, <1>5, <2>1, <2>3 DEF Searched
  <1> QED BY <1>1, <1>3, <1>4, <1>5

\* The place a scan is at was not searched, and is the only one that is once it goes on.
LEMMA SearchedNew ==
    ASSUME NEW t, t.d \in 1..6, t.i \in Nat, NEW x, At[x] = nfc_drivers[t.d], t.i \in DOMAIN Where(At[x]), Where(At[x])[t.i] = x
    PROVE  ~Searched(t, x)
  <1>1. SUFFICES ASSUME NEW k \in 1..6, nfc_drivers[k] = At[x],
                        k < t.d \/ (k = t.d /\ \E j \in DOMAIN Where(At[x]) : j < t.i /\ Where(At[x])[j] = x)
                 PROVE  FALSE
    BY Drivers DEF Searched
  <1>2. k = t.d
    BY <1>1, Drivers
  <1>3. PICK j \in DOMAIN Where(At[x]) : j < t.i /\ Where(At[x])[j] = x
    BY <1>1, <1>2
  <1>4. j = t.i
    BY <1>3, PlaceFacts
  <1> QED BY <1>3, <1>4

LEMMA SearchedNext ==
    ASSUME NEW t, NEW u, t.d \in 1..6, t.i \in Nat \ {0}, u.d = t.d, u.i = t.i + 1, NEW x, Searched(u, x), ~Searched(t, x)
    PROVE  At[x] = nfc_drivers[t.d] /\ t.i \in DOMAIN Where(At[x]) /\ Where(At[x])[t.i] = x
  <1>1. PICK k \in DOMAIN nfc_drivers :
           /\ nfc_drivers[k] = At[x]
           /\ k < u.d \/ (k = u.d /\ \E j \in DOMAIN Where(At[x]) : j < u.i /\ Where(At[x])[j] = x)
    BY DEF Searched
  <1>2. ~(k < t.d)
    BY <1>1 DEF Searched
  <1>3. k = t.d
    BY <1>1, <1>2
  <1>4. PICK j \in DOMAIN Where(At[x]) : j < u.i /\ Where(At[x])[j] = x
    BY <1>1, <1>2
  <1>5. j \in Nat
    BY PlaceFacts
  <1>6. ~(j < t.i)
    BY <1>1, <1>3, <1>4 DEF Searched
  <1>7. j = t.i
    BY <1>4, <1>5, <1>6
  <1> QED BY <1>1, <1>3, <1>4, <1>7

\* When a scan is over, what it searched is all that its driver drives.
LEMMA SearchedEnd ==
    ASSUME NEW t, NEW u, t.d \in 1..6, u.d = t.d + 1, u.i = 1, NEW x \in Place, Searched(u, x), ~Searched(t, x)
    PROVE  At[x] = nfc_drivers[t.d] /\ \E j \in DOMAIN Where(At[x]) : Where(At[x])[j] = x /\ ~(j < t.i)
  <1>1. PICK k \in DOMAIN nfc_drivers :
           /\ nfc_drivers[k] = At[x]
           /\ k < u.d \/ (k = u.d /\ \E j \in DOMAIN Where(At[x]) : j < u.i /\ Where(At[x])[j] = x)
    BY DEF Searched
  <1>2. k \in 1..6 /\ At[x] # "none"
    BY <1>1, Drivers
  <1>3. k # u.d
    <2>1. \A j \in DOMAIN Where(At[x]) : j \in Nat /\ j >= 1
      BY PlaceFacts
    <2> QED BY <1>1, <1>2, <2>1
  <1>4. ~(k < t.d)
    BY <1>1 DEF Searched
  <1>5. k = t.d
    BY <1>1, <1>2, <1>3, <1>4
  <1>6. PICK j \in DOMAIN Where(At[x]) : Where(At[x])[j] = x
    BY <1>2, PlaceFacts
  <1>7. ~(j < t.i)
    BY <1>1, <1>5, <1>6 DEF Searched
  <1> QED BY <1>1, <1>5, <1>6, <1>7

-----------------------------------------------------------------------------
(* The list after a step of a scan                                         *)

LEMMA AccountedLater ==
    ASSUME NEW t, NEW u, NEW x, NEW seen, NEW more, seen \subseteq more, Accounted(t, x, seen),
           u.intrusive = t.intrusive, \A a \in DOMAIN t.found : a \in DOMAIN u.found /\ u.found[a] = t.found[a]
    PROVE  Accounted(u, x, more)
  BY DEF Accounted

\* Nothing happens to the list itself.
LEMMA ListLater ==
    ASSUME NEW t, NEW seen, NEW n, NEW more, NEW m, ListOK(t, seen, n), seen \subseteq more, m = 0 => n = 0
    PROVE  ListOK(t, more, m)
  <1>1. AllFound(t, more, m)
    BY AccountedLater DEF ListOK, AllFound
  <1> QED BY <1>1 DEF ListOK

\* A place is passed over: it is of another driver, somebody used it, or something failed.
LEMMA ListPasses ==
    ASSUME NEW t, NEW u, NEW seen, NEW more, NEW n, NEW m, ListOK(t, seen, n), t.op = "list", seen \subseteq more, m = 0 => n = 0,
           u.found = t.found, u.len = t.len, u.intrusive = t.intrusive, u.d = t.d, u.i = t.i + 1, u.op = "list", u.uart = "none",
           NEW place, place = Where(nfc_drivers[t.d])[t.i], At[place] # nfc_drivers[t.d] \/ place \in more \/ m # 0
    PROVE  ListOK(u, more, m)
  <1>1. /\ t.len \in Nat /\ t.i \in Nat \ {0} /\ t.d \in Nat /\ t.d \in 1..6 /\ Len(t.found) < t.len
        /\ FoundOK(t) /\ AllFound(t, seen, n)
    BY DEF ListOK
  <1>2. u.i \in Nat \ {0} /\ t.i <= u.i /\ u.i \in Nat /\ t.i \in Nat
    BY <1>1
  <1>3. FoundOK(u)
    BY <1>1, <1>2, SearchedOn DEF FoundOK
  <1>4. AllFound(u, more, m)
    <2> SUFFICES ASSUME m = 0, NEW x \in Place, Searched(u, x) PROVE Accounted(u, x, more)
      BY DEF AllFound
    <2>1. CASE Searched(t, x)
      BY <1>1, <2>1, AccountedLater DEF AllFound
    <2>2. CASE ~Searched(t, x)
      <3>1. At[x] = nfc_drivers[t.d] /\ Where(At[x])[t.i] = x
        BY <1>1, <2>2, SearchedNext
      <3>2. x = place
        BY <3>1
      <3> QED BY <3>1, <3>2 DEF Accounted
    <2> QED BY <2>1, <2>2
  <1> QED BY <1>1, <1>2, <1>3, <1>4 DEF ListOK

\* The scan of a driver is over.
LEMMA ListGoesOn ==
    ASSUME NEW t, NEW u, NEW seen, NEW n, NEW m, ListOK(t, seen, n), t.op = "list", m = 0 => n = 0,
           u.found = t.found, u.len = t.len, u.intrusive = t.intrusive, u.d = t.d + 1, u.i = 1, u.uart = "none",
           u.op = IF t.d = 6 THEN "listed" ELSE "list",
           (nfc_drivers[t.d] \in Serial /\ ~t.intrusive) \/ t.i > Len(Where(nfc_drivers[t.d])) \/ m # 0
    PROVE  ListOK(u, seen, m)
  <1>1. /\ t.len \in Nat /\ t.i \in Nat \ {0} /\ t.d \in Nat /\ t.d \in 1..6 /\ Len(t.found) < t.len
        /\ FoundOK(t) /\ AllFound(t, seen, n)
    BY DEF ListOK
  <1>2. u.i \in Nat \ {0} /\ u.d \in Nat /\ t.d < u.d /\ u.i \in Nat /\ t.i \in Nat
    BY <1>1
  <1>3. FoundOK(u)
    BY <1>1, <1>2, SearchedOn DEF FoundOK
  <1>4. AllFound(u, seen, m)
    <2> SUFFICES ASSUME m = 0, NEW x \in Place, Searched(u, x) PROVE Accounted(u, x, seen)
      BY DEF AllFound
    <2>1. CASE Searched(t, x)
      BY <1>1, <2>1, AccountedLater DEF AllFound
    <2>2. CASE ~Searched(t, x)
      <3>1. At[x] = nfc_drivers[t.d] /\ \E j \in DOMAIN Where(At[x]) : Where(At[x])[j] = x /\ ~(j < t.i)
        BY <1>1, <2>2, SearchedEnd
      <3>2. PICK j \in DOMAIN Where(At[x]) : ~(j < t.i)
        BY <3>1
      <3>3. j \in 1..Len(Where(At[x])) /\ Len(Where(At[x])) \in Nat
        BY PlaceFacts
      <3>4. ~(t.i > Len(Where(At[x])))
        BY <1>1, <3>2, <3>3
      <3> QED BY <3>1, <3>4 DEF Accounted
    <2> QED BY <2>1, <2>2
  <1>5. u.op = "list" => u.d \in 1..6
    BY <1>1
  <1>6. u.op = "listed" => u.d > 6
    BY <1>1
  <1> QED BY <1>1, <1>2, <1>3, <1>4, <1>5, <1>6 DEF ListOK

\* A device is listed.
LEMMA ListAdds ==
    ASSUME NEW t, NEW u, NEW seen, NEW n, ListOK(t, seen, n), t.op = "list", NEW x \in Place,
           At[x] = nfc_drivers[t.d], t.i \in DOMAIN Where(At[x]), Where(At[x])[t.i] = x,
           u.found = Append(t.found, [driver |-> nfc_drivers[t.d], at |-> x]), u.len = t.len, u.intrusive = t.intrusive, u.uart = "none",
           \/ /\ t.len - Len(t.found) = 1 /\ u.d = t.d + 1 /\ u.i = 1 /\ u.op = "listed"
           \/ /\ t.len - Len(t.found) # 1 /\ u.d = t.d /\ u.i = t.i + 1 /\ u.op = "list"
    PROVE  ListOK(u, seen, n)
  <1> DEFINE new == [driver |-> nfc_drivers[t.d], at |-> x]
  <1>1. /\ t.len \in Nat /\ t.i \in Nat \ {0} /\ t.d \in Nat /\ t.d \in 1..6 /\ Len(t.found) < t.len
        /\ FoundOK(t) /\ AllFound(t, seen, n)
    BY DEF ListOK
  <1>2. u.i \in Nat \ {0} /\ u.d \in Nat /\ u.i \in Nat /\ t.i \in Nat /\ (t.d < u.d \/ (u.d = t.d /\ t.i <= u.i))
    <2>1. \A i, d \in Nat : /\ 1 \in Nat \ {0} /\ 1 \in Nat /\ d + 1 \in Nat /\ d < d + 1
                             /\ i + 1 \in Nat \ {0} /\ i + 1 \in Nat /\ i <= i + 1
      OBVIOUS
    <2>2. t.i \in Nat /\ t.d \in Nat
      BY <1>1
    <2>3. \/ u.d = t.d + 1 /\ u.i = 1
          \/ u.d = t.d /\ u.i = t.i + 1
      OBVIOUS
    <2> QED BY <2>1, <2>2, <2>3, Zenon
  <1>3. new \in [driver : Driver, at : Place] /\ new.driver = nfc_drivers[t.d] /\ new.at = x
    <2>1. nfc_drivers[t.d] \in Driver
      BY <1>1, Drivers
    <2> QED BY <2>1
  <1> HIDE DEF new
  <1>4. t.found \in Seq([driver : Driver, at : Place])
    BY <1>1 DEF FoundOK
  <1>5. /\ u.found = Append(t.found, new) /\ u.found \in Seq([driver : Driver, at : Place])
        /\ Len(t.found) \in Nat /\ Len(u.found) = Len(t.found) + 1 /\ DOMAIN t.found = 1..Len(t.found) /\ DOMAIN u.found = 1..Len(t.found) + 1
        /\ \A a \in 1..Len(t.found) : u.found[a] = t.found[a]
        /\ u.found[Len(t.found) + 1] = new
    BY <1>3, <1>4 DEF new
  <1>6. ~Searched(t, x)
    BY <1>1, SearchedNew
  <1>7. Searched(u, x)
    <2>1. t.d \in DOMAIN nfc_drivers
      BY <1>1, Drivers
    <2>2. CASE u.d = t.d + 1
      <3>1. t.d < u.d
        BY <1>1, <2>2
      <3> QED BY <2>1, <3>1 DEF Searched
    <2>3. CASE u.d = t.d /\ u.i = t.i + 1
      <3>1. t.i < u.i
        BY <1>1, <2>3
      <3> QED BY <2>1, <2>3, <3>1 DEF Searched
    <2> QED BY <2>2, <2>3
  <1>8. FoundOK(u)
    <2>1. Len(u.found) <= u.len
      BY <1>1, <1>5
    <2>2. \A a \in DOMAIN t.found : At[t.found[a].at] = t.found[a].driver /\ Searched(t, t.found[a].at) /\ Searched(u, t.found[a].at)
      BY <1>1, <1>2, SearchedOn DEF FoundOK
    <2>3. \A a \in DOMAIN t.found : t.found[a] # new
      BY <1>3, <1>6, <2>2
    <2>4. \A a, b \in DOMAIN u.found : u.found[a] = u.found[b] => a = b
      <3>1. \A a, b \in DOMAIN t.found : t.found[a] = t.found[b] => a = b
        BY <1>1 DEF FoundOK
      <3>2. \A a \in DOMAIN u.found : a \in DOMAIN t.found \/ a = Len(t.found) + 1
        BY <1>5
      <3> QED BY <1>5, <2>3, <3>1, <3>2
    <2>5. \A a \in DOMAIN u.found : At[u.found[a].at] = u.found[a].driver /\ Searched(u, u.found[a].at)
      <3>1. \A a \in DOMAIN u.found : a \in DOMAIN t.found \/ a = Len(t.found) + 1
        BY <1>5
      <3> QED BY <1>3, <1>5, <1>7, <2>2, <3>1
    <2> QED BY <1>5, <2>1, <2>4, <2>5 DEF FoundOK
  <1>9. AllFound(u, seen, n)
    <2> SUFFICES ASSUME Len(u.found) < u.len, n = 0, NEW y \in Place, Searched(u, y) PROVE Accounted(u, y, seen)
      BY DEF AllFound
    <2>0. u.d = t.d /\ u.i = t.i + 1
      BY <1>1, <1>5
    <2>1. CASE Searched(t, y)
      <3>1. Accounted(t, y, seen)
        BY <1>1, <2>1 DEF AllFound
      <3>2. \A a \in DOMAIN t.found : a \in DOMAIN u.found /\ u.found[a] = t.found[a]
        BY <1>5
      <3> QED BY <3>1, <3>2, AccountedLater
    <2>2. CASE ~Searched(t, y)
      <3>1. At[y] = nfc_drivers[t.d] /\ Where(At[y])[t.i] = y
        BY <1>1, <2>0, <2>2, SearchedNext
      <3>2. y = x
        BY <3>1
      <3>3. Len(t.found) + 1 \in DOMAIN u.found
        BY <1>5
      <3>4. u.found[Len(t.found) + 1] = [driver |-> At[y], at |-> y]
        BY <1>5, <3>1, <3>2 DEF new
      <3> QED BY <3>3, <3>4 DEF Accounted
    <2> QED BY <2>1, <2>2
  <1>10. u.op = "list" => u.d \in 1..6 /\ Len(u.found) < u.len
    BY <1>1, <1>5
  <1>11. u.op = "listed" => Len(u.found) = u.len
    BY <1>1, <1>5
  <1> QED BY <1>1, <1>2, <1>8, <1>9, <1>10, <1>11 DEF ListOK

\* What the steps of a scan do to the task, field by field
LEMMA NextProbeFields ==
    ASSUME NEW t, DOMAIN t = Fields, t.op = "list"
    PROVE  /\ NextProbe(t).found = t.found /\ NextProbe(t).len = t.len /\ NextProbe(t).intrusive = t.intrusive
           /\ NextProbe(t).d = t.d /\ NextProbe(t).i = t.i + 1 /\ NextProbe(t).op = "list" /\ NextProbe(t).uart = "none"
  BY DEF NextProbe, Fields

LEMMA ScanDoneFields ==
    ASSUME NEW t, NEW more, DOMAIN t = Fields
    PROVE  /\ ScanDone(t, more).found = t.found \o more /\ ScanDone(t, more).len = t.len
           /\ ScanDone(t, more).intrusive = t.intrusive /\ ScanDone(t, more).d = t.d + 1
           /\ ScanDone(t, more).i = 1 /\ ScanDone(t, more).uart = "none"
           /\ ScanDone(t, more).op = IF Len(t.found \o more) = t.len \/ t.d = Len(nfc_drivers) THEN "listed" ELSE "list"
  BY DEF ScanDone, Fields

LEMMA ListEnds ==
    ASSUME NEW t, NEW seen, NEW n, NEW m, DOMAIN t = Fields, ListOK(t, seen, n), t.op = "list", m = 0 => n = 0,
           (nfc_drivers[t.d] \in Serial /\ ~t.intrusive) \/ t.i > Len(Where(nfc_drivers[t.d])) \/ m # 0
    PROVE  ListOK(ScanDone(t, <<>>), seen, m)
  <1> DEFINE u == ScanDone(t, <<>>)
  <1>1. t.found \in Seq([driver : Driver, at : Place]) /\ Len(t.found) < t.len /\ t.len \in Nat
    BY DEF ListOK, FoundOK
  <1>2. t.found \o <<>> = t.found
    BY <1>1
  <1>3. /\ u.found = t.found /\ u.len = t.len /\ u.intrusive = t.intrusive /\ u.d = t.d + 1 /\ u.i = 1 /\ u.uart = "none"
        /\ u.op = IF Len(t.found) = t.len \/ t.d = 6 THEN "listed" ELSE "list"
    <2>1. /\ u.found = t.found \o <<>> /\ u.len = t.len /\ u.intrusive = t.intrusive /\ u.d = t.d + 1 /\ u.i = 1 /\ u.uart = "none"
          /\ u.op = IF Len(t.found \o <<>>) = t.len \/ t.d = Len(nfc_drivers) THEN "listed" ELSE "list"
      BY ScanDoneFields, Zenon
    <2>2. Len(nfc_drivers) = 6
      BY Drivers
    <2> HIDE DEF u
    <2> QED BY <1>2, <2>1, <2>2, Zenon
  <1> HIDE DEF u
  <1>4. Len(t.found) # t.len
    BY <1>1
  <1>5. u.op = IF t.d = 6 THEN "listed" ELSE "list"
    BY <1>3, <1>4
  <1>6. ListOK(u, seen, m)
    BY <1>3, <1>5, ListGoesOn
  <1> QED BY <1>6 DEF u

LEMMA ListLists ==
    ASSUME NEW t, NEW seen, NEW n, DOMAIN t = Fields, ListOK(t, seen, n), t.op = "list", NEW x \in Place,
           At[x] = nfc_drivers[t.d], t.i \in DOMAIN Where(At[x]), Where(At[x])[t.i] = x
    PROVE  ListOK(Listed(t, [driver |-> nfc_drivers[t.d], at |-> x]), seen, n)
  <1> DEFINE new == [driver |-> nfc_drivers[t.d], at |-> x]
             more == [t EXCEPT !.found = Append(@, new)]
             u == Listed(t, new)
  <1>1. t.found \in Seq([driver : Driver, at : Place]) /\ Len(t.found) < t.len /\ t.len \in Nat /\ t.d \in 1..6
    BY DEF ListOK, FoundOK
  <1>2. nfc_drivers[t.d] \in Driver
    BY <1>1, Drivers
  <1>3. new \in [driver : Driver, at : Place]
    BY <1>2
  <1> HIDE DEF new
  <1>4. /\ t.found \o <<new>> = Append(t.found, new) /\ Len(Append(t.found, new)) = Len(t.found) + 1
        /\ Len(t.found) \in Nat
    BY <1>1, <1>3
  <1>5. CASE Room(t) = 1
    <2>1. u = ScanDone(t, <<new>>)
      BY <1>5 DEF Listed
    <2>2. t.len - Len(t.found) = 1 /\ Len(Append(t.found, new)) = t.len
      BY <1>1, <1>4, <1>5 DEF Room
    <2>3. /\ u.found = Append(t.found, new) /\ u.len = t.len /\ u.intrusive = t.intrusive /\ u.d = t.d + 1 /\ u.i = 1 /\ u.uart = "none"
          /\ u.op = "listed"
      <3>1. /\ u.found = t.found \o <<new>> /\ u.len = t.len /\ u.intrusive = t.intrusive /\ u.d = t.d + 1 /\ u.i = 1 /\ u.uart = "none"
            /\ u.op = IF Len(t.found \o <<new>>) = t.len \/ t.d = Len(nfc_drivers) THEN "listed" ELSE "list"
        <4> HIDE DEF u
        <4> DEFINE v == ScanDone(t, <<new>>)
        <4>1. /\ v.found = t.found \o <<new>> /\ v.len = t.len /\ v.intrusive = t.intrusive /\ v.d = t.d + 1 /\ v.i = 1 /\ v.uart = "none"
              /\ v.op = IF Len(t.found \o <<new>>) = t.len \/ t.d = Len(nfc_drivers) THEN "listed" ELSE "list"
          BY ScanDoneFields, Zenon
        <4> HIDE DEF v
        <4>2. u = v
          BY <2>1 DEF v
        <4> QED BY <4>1, <4>2, Zenon
      <3> HIDE DEF u
      <3> QED BY <1>4, <2>2, <3>1, Zenon
    <2> HIDE DEF u
    <2>4. ListOK(u, seen, n)
      BY <2>2, <2>3, ListAdds DEF new
    <2> QED BY <2>4 DEF u, new
  <1>6. CASE Room(t) # 1
    <2>1. u = NextProbe(more)
      BY <1>6 DEF Listed
    <2>2. t.len - Len(t.found) # 1
      BY <1>6 DEF Room
    <2>3. /\ DOMAIN more = Fields /\ more.op = "list" /\ more.found = Append(t.found, new) /\ more.len = t.len
          /\ more.intrusive = t.intrusive /\ more.d = t.d /\ more.i = t.i
      BY DEF Fields
    <2> HIDE DEF more
    <2>4. /\ u.found = Append(t.found, new) /\ u.len = t.len /\ u.intrusive = t.intrusive /\ u.d = t.d /\ u.i = t.i + 1 /\ u.uart = "none"
          /\ u.op = "list"
      BY <2>1, <2>3, NextProbeFields
    <2> HIDE DEF u
    <2>5. ListOK(u, seen, n)
      BY <2>2, <2>4, ListAdds DEF new
    <2> QED BY <2>5 DEF u, new
  <1> QED BY <1>5, <1>6

LEMMA ListProbes ==
    ASSUME NEW t, NEW seen, NEW more, NEW n, NEW m, DOMAIN t = Fields, ListOK(t, seen, n), t.op = "list", seen \subseteq more, m = 0 => n = 0,
           NEW place, place = Where(nfc_drivers[t.d])[t.i], At[place] # nfc_drivers[t.d] \/ place \in more \/ m # 0
    PROVE  ListOK(NextProbe(t), more, m)
  <1>1. PICK u : u = NextProbe(t)
    OBVIOUS
  <1>2. /\ u.found = t.found /\ u.len = t.len /\ u.intrusive = t.intrusive
        /\ u.d = t.d /\ u.i = t.i + 1 /\ u.op = "list" /\ u.uart = "none"
    BY <1>1, NextProbeFields
  <1>3. ListOK(u, more, m)
    BY <1>2, ListPasses
  <1> QED BY <1>1, <1>3

\* Opening a port leaves the list as it is.
LEMMA ListOpens ==
    ASSUME NEW t, NEW u, NEW seen, NEW n, ListOK(t, seen, n), t.op = "list",
           u.found = t.found, u.len = t.len, u.intrusive = t.intrusive, u.d = t.d, u.i = t.i, u.op = "list",
           nfc_drivers[t.d] \in Serial, t.intrusive, t.i \in DOMAIN Ports
    PROVE  ListOK(u, seen, n)
  <1>1. \A x : Searched(u, x) <=> Searched(t, x)
    BY DEF Searched
  <1>2. FoundOK(u) /\ AllFound(u, seen, n)
    BY <1>1 DEF ListOK, FoundOK, AllFound, Accounted
  <1> QED BY <1>2 DEF ListOK

\* What has to be seen of a step of p
LEMMA ListStep ==
    ASSUME DiscoveryInv, ListInv, NEW p \in Proc, Others(p),
           \A x \in dev'[p] : x \in dev[p] \/ x.driver \in Serial \/ \A q \in Proc \ {p} : x.at \in touched'[q],
           \A port \in claimed' : port \in claimed \/ \A q \in Proc \ {p} : port \in touched'[q],
           task'[p].op \in {"list", "listed"} => ListOK(task'[p], touched'[p], faults'),
           task'[p].op = "list" =>
             /\ \A x \in dev'[p] : x.driver \notin Serial => x.at \in touched'[p]
             /\ \A q \in Proc \ {p} : \A x \in dev[q] : x.driver \notin Serial => x.at \in touched'[p]
             /\ \A port \in claimed' : port \in touched'[p] \/ (task'[p].uart = "open" /\ port = Ports[task'[p].i])
    PROVE  ListInv'
  <1>1. ASSUME NEW q \in Proc, task'[q].op \in {"list", "listed"} PROVE ListOK(task'[q], touched'[q], faults')
    <2>1. CASE q = p
      BY <1>1, <2>1
    <2>2. CASE q # p
      <3>1. task'[q] = task[q] /\ touched[q] \subseteq touched'[q]
        BY <2>2 DEF Others
      <3>2. faults' = 0 => faults = 0
        BY DEF DiscoveryInv, Shapes, Others
      <3>3. ListOK(task[q], touched[q], faults)
        BY <1>1, <3>1 DEF ListInv
      <3> QED BY <3>1, <3>2, <3>3, ListLater
    <2> QED BY <2>1, <2>2
  <1>2. ASSUME NEW q \in Proc, task'[q].op = "list"
        PROVE  /\ \A r \in Proc : \A x \in dev'[r] : x.driver \notin Serial => x.at \in touched'[q]
               /\ \A port \in claimed' : port \in touched'[q] \/ (task'[q].uart = "open" /\ port = Ports[task'[q].i])
    <2>1. CASE q = p
      BY <1>2, <2>1 DEF Others
    <2>2. CASE q # p
      BY <1>2, <2>2 DEF ListInv, PlacesSeen, Others
    <2> QED BY <2>1, <2>2
  <1> QED BY <1>1, <1>2 DEF ListInv, PlacesSeen

\* A step of p that opens nothing and ends away from the list
LEMMA ListAway ==
    ASSUME DiscoveryInv, ListInv, NEW p \in Proc, Others(p), dev'[p] \subseteq dev[p], claimed' \subseteq claimed,
           task'[p].op \notin {"list", "listed"}
    PROVE  ListInv'
  BY ListStep

\* A step of p that goes on with the list
LEMMA ListQuiet ==
    ASSUME DiscoveryInv, ListInv, NEW p \in Proc, Others(p), UNCHANGED dev, claimed' \subseteq claimed,
           touched[p] \subseteq touched'[p],
           task[p].op = "list", task[p].uart = "open" => Ports[task[p].i] \notin claimed',
           ListOK(task'[p], touched'[p], faults')
    PROVE  ListInv'
  <1>1. /\ \A port \in claimed : port \in touched[p] \/ (task[p].uart = "open" /\ port = Ports[task[p].i])
        /\ \A q \in Proc : \A x \in dev[q] : x.driver \notin Serial => x.at \in touched[p]
    BY DEF ListInv, PlacesSeen
  <1> QED BY <1>1, ListStep

-----------------------------------------------------------------------------
(* Each operation                                                          *)

LEMMA ListBegins ==
    ASSUME DiscoveryInv, ListInv, NEW p \in Proc, NEW len \in Lengths, NEW b \in BOOLEAN, list_devices(p, len, b)
    PROVE  ListInv'
  <1>1. Others(p) /\ UNCHANGED <<claimed, dev>> /\ task'[p].op = "list"
    BY ListDevicesEffect
  <1>2. PICK t : t = [Idle EXCEPT !.op = "list", !.d = 1, !.i = 1, !.len = len, !.intrusive = b]
    OBVIOUS
  <1>3. t.found = <<>> /\ t.len = len /\ t.op = "list" /\ t.d = 1 /\ t.i = 1 /\ t.uart = "none"
    BY <1>2 DEF Idle
  <1>4. task'[p] = t /\ touched'[p] = InUse
    BY <1>2 DEF list_devices, DiscoveryInv, Shapes
  <1>5. len \in Nat /\ 0 < len
    BY DiscoveryAssumption
  <1>6. \A x : ~Searched(t, x)
    <2> SUFFICES ASSUME NEW x, NEW k \in 1..6, k < 1 \/ \E j \in DOMAIN Where(At[x]) : j < 1 PROVE FALSE
      BY <1>3, Drivers DEF Searched
    <2>1. \A j \in DOMAIN Where(At[x]) : j \in Nat /\ j >= 1
      BY PlaceFacts
    <2> QED BY <2>1
  <1>7. /\ t.found \in Seq([driver : Driver, at : Place]) /\ Len(t.found) = 0 /\ \A a : a \notin DOMAIN t.found
    BY <1>3
  <1>8. FoundOK(t)
    BY <1>3, <1>5, <1>7 DEF FoundOK
  <1>9. ListOK(t, InUse, faults')
    BY <1>3, <1>5, <1>6, <1>7, <1>8 DEF ListOK, AllFound
  <1>10. \A q \in Proc : \A x \in dev[q] : x.at \in InUse
    BY DEF InUse
  <1>11. \A port \in claimed : port \in InUse
    BY DEF InUse
  <1> QED BY <1>1, <1>4, <1>9, <1>10, <1>11, ListStep

\* What is known of a process that scans
LEMMA ScanFacts ==
    ASSUME DiscoveryInv, ListInv, NEW p \in Proc, task[p].op = "list"
    PROVE  /\ DOMAIN task = Proc /\ DOMAIN touched = Proc /\ DOMAIN task[p] = Fields /\ ListOK(task[p], touched[p], faults)
           /\ task[p].d \in 1..6 /\ task[p].i \in Nat \ {0} /\ faults \in Nat
           /\ task[p].uart # "none" => nfc_drivers[task[p].d] \in Serial /\ task[p].intrusive /\ task[p].i \in DOMAIN Ports
           /\ task[p].uart = "none" => \A x \in InUse : At[x] \in OnUsb => x \in touched[p]
  <1>1. DOMAIN task = Proc /\ DOMAIN touched = Proc /\ DOMAIN task[p] = Fields /\ faults \in Nat
    BY IdleFields DEF DiscoveryInv, Shapes
  <1>2. ListOK(task[p], touched[p], faults) /\ PlacesSeen(p)
    BY DEF ListInv
  <1>3. ASSUME task[p].uart = "none", NEW x \in InUse, At[x] \in OnUsb PROVE x \in touched[p]
    <2>1. CASE x \in claimed
      BY <1>2, <1>3, <2>1 DEF PlacesSeen
    <2>2. ASSUME NEW q \in Proc, NEW y \in dev[q], y.at = x PROVE x \in touched[p]
      <3>1. y.driver = At[x]
        BY <2>2 DEF DiscoveryInv, Shapes
      <3>2. y.driver \notin Serial
        BY <1>3, <3>1 DEF Serial, OnUsb
      <3> QED BY <1>2, <2>2, <3>2 DEF PlacesSeen
    <2> QED BY <2>1, <2>2 DEF InUse
  <1> QED BY <1>1, <1>2, <1>3 DEF ListOK

LEMMA WhereLooks ==
    /\ \A d \in Serial : Where(d) = Ports
    /\ \A d \in OnUsb : Where(d) = Usb
    /\ Where("acr122_pcsc") = Readers
  BY DEF Where, Serial, OnUsb

\* The place a scan is at
LEMMA PlaceAt ==
    ASSUME NEW d, NEW i \in Nat \ {0}, i <= Len(Where(d))
    PROVE  i \in DOMAIN Where(d) /\ Where(d)[i] \in Place
  <1>1. Where(d) \in Seq(Place)
    BY PlaceFacts
  <1> QED BY <1>1

LEMMA ListUsb ==
    ASSUME DiscoveryInv, ListInv, NEW p \in Proc, NEW d, usb_scan(p, d)
    PROVE  ListInv'
  <1> DEFINE t == task[p]
             x == Usb[t.i]
  <1>1. t.op = "list" /\ t.uart = "none" /\ nfc_drivers[t.d] = d /\ d \in OnUsb /\ t.i <= Len(Usb) /\ UNCHANGED <<claimed, dev, touched>>
    BY DEF usb_scan, Scanning, resources
  <1>2. Others(p)
    BY UsbScanEffect
  <1>3. /\ DOMAIN task = Proc /\ DOMAIN t = Fields /\ ListOK(t, touched[p], faults)
        /\ t.d \in 1..6 /\ t.i \in Nat \ {0} /\ faults \in Nat
        /\ \A y \in InUse : At[y] \in OnUsb => y \in touched[p]
    BY <1>1, ScanFacts
  <1>4. Where(d) = Usb
    BY <1>1, WhereLooks
  <1>5. t.i \in DOMAIN Where(d) /\ x \in Place /\ Where(d)[t.i] = x
    BY <1>1, <1>3, <1>4, PlaceAt
  <1>6. \/ /\ At[x] = d /\ task' = [task EXCEPT ![p] = Listed(@, [driver |-> d, at |-> x])] /\ UNCHANGED faults
        \/ /\ \/ (At[x] # d \/ x \in InUse) /\ UNCHANGED faults
              \/ Fault
           /\ task' = [task EXCEPT ![p] = NextProbe(@)]
    BY DEF usb_scan
  <1> HIDE DEF x
  <1>7. ListOK(task'[p], touched'[p], faults')
    <2>1. CASE At[x] = d /\ task' = [task EXCEPT ![p] = Listed(@, [driver |-> d, at |-> x])] /\ UNCHANGED faults
      <3>1. ListOK(Listed(t, [driver |-> d, at |-> x]), touched[p], faults)
        BY <1>1, <1>3, <1>5, <2>1, ListLists
      <3> QED BY <1>1, <1>3, <2>1, <3>1
    <2>2. CASE /\ \/ (At[x] # d \/ x \in InUse) /\ UNCHANGED faults
                  \/ Fault
               /\ task' = [task EXCEPT ![p] = NextProbe(@)]
      <3>1. At[x] # d \/ x \in touched[p] \/ faults' # 0
        BY <1>1, <1>3, <2>2 DEF Fault
      <3>2. faults' = 0 => faults = 0
        BY <1>3, <2>2 DEF Fault
      <3>3. ListOK(NextProbe(t), touched[p], faults')
        BY <1>1, <1>3, <1>5, <3>1, <3>2, ListProbes
      <3> QED BY <1>1, <1>3, <2>2, <3>3
    <2> QED BY <1>6, <2>1, <2>2
  <1> QED BY <1>1, <1>2, <1>7, ListQuiet

LEMMA ListPcsc ==
    ASSUME DiscoveryInv, ListInv, NEW p \in Proc, pcsc_scan(p)
    PROVE  ListInv'
  <1> DEFINE t == task[p]
             d == "acr122_pcsc"
             x == Readers[t.i]
  <1>1. t.op = "list" /\ t.uart = "none" /\ nfc_drivers[t.d] = d /\ UNCHANGED <<claimed, dev, touched>>
    BY DEF pcsc_scan, Scanning
  <1>2. Others(p)
    BY PcscScanEffect
  <1>3. /\ DOMAIN task = Proc /\ DOMAIN t = Fields /\ ListOK(t, touched[p], faults)
        /\ t.d \in 1..6 /\ t.i \in Nat \ {0} /\ faults \in Nat
    BY <1>1, ScanFacts
  <1>4. Where(d) = Readers
    BY WhereLooks
  <1>5. \/ /\ t.i <= Len(Readers) /\ UNCHANGED faults
           /\ task' = [task EXCEPT ![p] = IF At[x] = d THEN Listed(@, [driver |-> d, at |-> x]) ELSE NextProbe(@)]
        \/ Fault /\ task' = [task EXCEPT ![p] = ScanDone(@, <<>>)]
    BY DEF pcsc_scan
  <1> HIDE DEF d
  <1>6. ListOK(task'[p], touched'[p], faults')
    <2>1. CASE /\ t.i <= Len(Readers) /\ UNCHANGED faults
               /\ task' = [task EXCEPT ![p] = IF At[x] = d THEN Listed(@, [driver |-> d, at |-> x]) ELSE NextProbe(@)]
      <3>1. t.i \in DOMAIN Where(d) /\ x \in Place /\ Where(d)[t.i] = x
        BY <1>3, <1>4, <2>1, PlaceAt
      <3> HIDE DEF x
      <3>2. At[x] = d => ListOK(Listed(t, [driver |-> d, at |-> x]), touched[p], faults)
        BY <1>1, <1>3, <3>1, ListLists
      <3>3. At[x] # d => ListOK(NextProbe(t), touched[p], faults)
        BY <1>1, <1>3, <3>1, ListProbes
      <3>4. task'[p] = IF At[x] = d THEN Listed(t, [driver |-> d, at |-> x]) ELSE NextProbe(t)
        BY <1>3, <2>1
      <3> QED BY <1>1, <2>1, <3>2, <3>3, <3>4
    <2>2. CASE Fault /\ task' = [task EXCEPT ![p] = ScanDone(@, <<>>)]
      <3>1. faults' # 0
        BY <1>3, <2>2 DEF Fault
      <3>2. ListOK(ScanDone(t, <<>>), touched[p], faults')
        BY <1>1, <1>3, <3>1, ListEnds
      <3> QED BY <1>1, <1>3, <2>2, <3>2
    <2> QED BY <1>5, <2>1, <2>2
  <1> QED BY <1>1, <1>2, <1>6, ListQuiet

LEMMA ListScanEnd ==
    ASSUME DiscoveryInv, ListInv, NEW p \in Proc, NEW d, scan_end(p, d)
    PROVE  ListInv'
  <1> DEFINE t == task[p]
  <1>1. /\ t.op = "list" /\ t.uart = "none" /\ nfc_drivers[t.d] = d /\ UNCHANGED <<claimed, dev, touched, faults>>
        /\ (d \in Serial /\ ~t.intrusive) \/ t.i > Len(Where(d))
        /\ task' = [task EXCEPT ![p] = ScanDone(@, <<>>)]
    BY DEF scan_end, Scanning, resources
  <1>2. Others(p)
    BY ScanEndEffect
  <1>3. DOMAIN task = Proc /\ DOMAIN t = Fields /\ ListOK(t, touched[p], faults)
    BY <1>1, ScanFacts
  <1>4. ListOK(ScanDone(t, <<>>), touched[p], faults)
    BY <1>1, <1>3, ListEnds
  <1>5. ListOK(task'[p], touched'[p], faults')
    BY <1>1, <1>3, <1>4
  <1> QED BY <1>1, <1>2, <1>5, ListQuiet

LEMMA ListUartCheck ==
    ASSUME DiscoveryInv, ListInv, NEW p \in Proc, uart_check(p)
    PROVE  ListInv'
  <1> DEFINE t == task[p]
             x == Ports[t.i]
  <1>1. /\ Others(p) /\ UNCHANGED <<claimed, dev>> /\ WantsPort(p) /\ UNCHANGED touched[p]
        /\ task'[p].op = t.op \/ task'[p].op = "opened"
    BY UartCheckEffect
  <1>2. CASE t.op # "list"
    <2>1. task'[p].op \notin {"list", "listed"}
      BY <1>1, <1>2 DEF WantsPort
    <2> QED BY <1>1, <2>1, ListAway
  <1>3. CASE t.op = "list"
    <2>1. /\ t.uart = "none" /\ t.intrusive /\ nfc_drivers[t.d] \in Serial /\ t.i <= Len(Ports) /\ NextPort(p) = x
      BY <1>1, <1>3 DEF WantsPort, NextPort
    <2>2. /\ DOMAIN task = Proc /\ DOMAIN t = Fields /\ ListOK(t, touched[p], faults)
          /\ t.d \in 1..6 /\ t.i \in Nat \ {0} /\ faults \in Nat
      BY <1>3, ScanFacts
    <2>3. Where(nfc_drivers[t.d]) = Ports
      BY <2>1, WhereLooks
    <2>4. t.i \in DOMAIN Ports
      BY <2>1, <2>2, <2>3, PlaceAt
    <2>5. \/ task' = [task EXCEPT ![p].uart = "checked"] /\ UNCHANGED faults
          \/ x \in claimed /\ task' = [task EXCEPT ![p] = NextProbe(@)] /\ UNCHANGED faults
          \/ Fault /\ task' = [task EXCEPT ![p] = NextProbe(@)]
      BY <2>1 DEF uart_check, Refused
    <2> HIDE DEF x
    <2>6. ListOK(task'[p], touched[p], faults')
      <3>1. CASE task' = [task EXCEPT ![p].uart = "checked"] /\ UNCHANGED faults
        <4>1. /\ task'[p].found = t.found /\ task'[p].len = t.len /\ task'[p].intrusive = t.intrusive
              /\ task'[p].d = t.d /\ task'[p].i = t.i /\ task'[p].op = "list"
          BY <1>3, <2>2, <3>1 DEF Fields
        <4> QED BY <1>3, <2>1, <2>2, <2>4, <3>1, <4>1, ListOpens
      <3>2. CASE ((x \in claimed /\ UNCHANGED faults) \/ Fault) /\ task' = [task EXCEPT ![p] = NextProbe(@)]
        <4>1. faults' = 0 => faults = 0
          BY <2>2, <3>2 DEF Fault
        <4>2. x \in touched[p] \/ faults' # 0
          BY <1>3, <2>1, <2>2, <3>2 DEF Fault, ListInv, PlacesSeen
        <4>3. ListOK(NextProbe(t), touched[p], faults')
          BY <1>3, <2>2, <2>3, <4>1, <4>2, ListProbes DEF x
        <4> QED BY <2>2, <3>2, <4>3
      <3> QED BY <2>5, <3>1, <3>2
    <2> QED BY <1>1, <1>3, <2>1, <2>6, ListQuiet
  <1> QED BY <1>2, <1>3

LEMMA ListUartClaim ==
    ASSUME DiscoveryInv, ListInv, NEW p \in Proc, uart_claim(p)
    PROVE  ListInv'
  <1> DEFINE t == task[p]
             port == NextPort(p)
  <1>1. /\ t.uart = "checked" /\ claimed' = claimed \cup {port} /\ task' = [task EXCEPT ![p].uart = "open"]
        /\ UNCHANGED <<dev, faults>> /\ Touch(p, port)
    BY DEF uart_claim
  <1>2. Others(p)
    BY UartClaimEffect
  <1>3. DOMAIN task = Proc /\ DOMAIN touched = Proc /\ DOMAIN t = Fields
    BY IdleFields DEF DiscoveryInv, Shapes
  <1>4. touched'[p] = touched[p] /\ \A q \in Proc \ {p} : port \in touched'[q]
    BY <1>1, <1>3 DEF Touch
  <1>5. /\ task'[p].found = t.found /\ task'[p].len = t.len /\ task'[p].intrusive = t.intrusive
        /\ task'[p].d = t.d /\ task'[p].i = t.i /\ task'[p].op = t.op /\ task'[p].uart = "open"
    BY <1>1, <1>3 DEF Fields
  <1>6. CASE t.op = "list"
    <2>1. /\ ListOK(t, touched[p], faults) /\ nfc_drivers[t.d] \in Serial /\ t.intrusive /\ t.i \in DOMAIN Ports
      BY <1>1, <1>6, ScanFacts
    <2>2. ListOK(task'[p], touched'[p], faults')
      BY <1>1, <1>4, <1>5, <1>6, <2>1, ListOpens
    <2>3. port = Ports[task'[p].i]
      BY <1>5, <1>6 DEF NextPort
    <2>4. /\ \A a \in claimed : a \in touched[p]
          /\ \A q \in Proc : \A x \in dev[q] : x.driver \notin Serial => x.at \in touched[p]
      BY <1>1, <1>6 DEF ListInv, PlacesSeen
    <2> HIDE DEF port
    <2> QED BY <1>1, <1>2, <1>4, <1>5, <2>2, <2>3, <2>4, ListStep
  <1>7. CASE t.op # "list"
    <2>1. t.op # "listed"
      BY <1>1 DEF ListInv, ListOK
    <2>2. task'[p].op \notin {"list", "listed"}
      BY <1>5, <1>7, <2>1
    <2> HIDE DEF port
    <2> QED BY <1>1, <1>2, <1>4, <2>2, ListStep
  <1> QED BY <1>6, <1>7

LEMMA ListScanProbe ==
    ASSUME DiscoveryInv, ListInv, NEW p \in Proc, scan_probe(p)
    PROVE  ListInv'
  <1> DEFINE t == task[p]
             d == nfc_drivers[t.d]
             x == Ports[t.i]
  <1>1. t.op = "list" /\ t.uart = "open" /\ UNCHANGED dev /\ NextPort(p) = x /\ claimed' = claimed \ {x}
    BY DEF scan_probe, uart_close, NextPort
  <1>2. Others(p)
    BY ScanProbeEffect
  <1>3. /\ DOMAIN task = Proc /\ DOMAIN touched = Proc /\ DOMAIN t = Fields /\ ListOK(t, touched[p], faults)
        /\ t.d \in 1..6 /\ t.i \in Nat \ {0} /\ faults \in Nat /\ d \in Serial /\ t.i \in DOMAIN Ports
    BY <1>1, ScanFacts
  <1>4. Where(d) = Ports
    BY <1>3, WhereLooks
  <1>5. x \in Place
    <2>1. Ports \in Seq(Place)
      BY <1>4, PlaceFacts
    <2> QED BY <1>3, <2>1
  <1>6. \/ /\ At[x] = d /\ task' = [task EXCEPT ![p] = Listed(@, [driver |-> d, at |-> x])] /\ UNCHANGED <<touched, faults>>
        \/ /\ At[x] # d /\ task' = [task EXCEPT ![p] = NextProbe(@)] /\ UNCHANGED <<touched, faults>>
        \/ /\ Fault /\ task' = [task EXCEPT ![p] = NextProbe(@)] /\ touched' = [touched EXCEPT ![p] = @ \cup {x}]
    BY <1>1 DEF scan_probe
  <1> HIDE DEF x
  <1>7. touched[p] \subseteq touched'[p] /\ ListOK(task'[p], touched'[p], faults')
    <2>1. CASE At[x] = d /\ task' = [task EXCEPT ![p] = Listed(@, [driver |-> d, at |-> x])] /\ UNCHANGED <<touched, faults>>
      <3>1. ListOK(Listed(t, [driver |-> d, at |-> x]), touched[p], faults)
        BY <1>1, <1>3, <1>4, <1>5, <2>1, ListLists DEF x
      <3> QED BY <1>1, <1>3, <2>1, <3>1
    <2>2. CASE At[x] # d /\ task' = [task EXCEPT ![p] = NextProbe(@)] /\ UNCHANGED <<touched, faults>>
      <3>1. ListOK(NextProbe(t), touched[p], faults)
        BY <1>1, <1>3, <1>4, <2>2, ListProbes DEF x
      <3> QED BY <1>1, <1>3, <2>2, <3>1
    <2>3. CASE Fault /\ task' = [task EXCEPT ![p] = NextProbe(@)] /\ touched' = [touched EXCEPT ![p] = @ \cup {x}]
      <3>1. faults' # 0
        BY <1>3, <2>3 DEF Fault
      <3>2. touched[p] \subseteq touched'[p]
        BY <1>3, <2>3
      <3>3. ListOK(NextProbe(t), touched'[p], faults')
        BY <1>1, <1>3, <1>4, <3>1, <3>2, ListProbes DEF x
      <3> QED BY <1>3, <2>3, <3>2, <3>3
    <2> QED BY <1>6, <2>1, <2>2, <2>3
  <1>8. Ports[t.i] \notin claimed'
    BY <1>1 DEF x
  <1> QED BY <1>1, <1>2, <1>7, <1>8, ListQuiet

\* The calls that do not list
LEMMA ListUnseen ==
    ASSUME DiscoveryInv, ListInv, NEW p \in Proc,
           \/ \E cs \in Connstring : open(p, cs)
           \/ Open(p) \/ return(p) \/ crash(p) \/ \E x \in dev[p] : close(p, x)
    PROVE  ListInv'
  <1>1. CASE \E cs \in Connstring : open(p, cs)
    BY <1>1, OpenEffect, ListAway
  <1>2. CASE return(p)
    BY <1>2, ReturnEffect, ListAway
  <1>3. CASE crash(p)
    BY <1>3, CrashEffect, ListAway
  <1>4. CASE \E x \in dev[p] : close(p, x)
    <2>1. PICK x \in dev[p] : close(p, x)
      BY <1>4
    <2>2. /\ Others(p) /\ task'[p].op = "idle" /\ dev'[p] \subseteq dev[p] /\ claimed' \subseteq claimed
      BY <2>1, CloseEffect
    <2> QED BY <2>2, ListAway
  <1>5. CASE open_noport(p)
    BY <1>5, OpenNoportEffect, ListAway
  <1>6. CASE open_probe(p)
    <2>1. /\ Others(p) /\ task'[p].op = "opened" /\ claimed' \subseteq claimed
          /\ dev'[p] = dev[p] \cup {task[p].cs} \/ dev'[p] = dev[p]
          /\ task[p].op = "open" /\ task[p].uart = "open"
      BY <1>6, OpenProbeEffect
    <2>2. task[p].cs.driver \in Serial
      BY <2>1 DEF DiscoveryInv, Shapes
    <2> QED BY <2>1, <2>2, ListStep
  <1>7. CASE open_usb(p)
    <2>1. /\ Others(p) /\ task'[p].op \in {"open", "opened"} /\ UNCHANGED claimed
          /\ \E new : \/ dev'[p] = dev[p] \cup {new} /\ \A q \in Proc \ {p} : new.at \in touched'[q]
                      \/ UNCHANGED dev
      BY <1>7, UsbEffect
    <2> QED BY <2>1, ListStep
  <1>8. CASE open_pcsc(p)
    <2>1. /\ Others(p) /\ task'[p].op = "opened" /\ UNCHANGED claimed
          /\ \E at : \E new : \/ /\ dev'[p] = dev[p] \cup {new} /\ new = [driver |-> "acr122_pcsc", at |-> at]
                                 /\ \A q \in Proc \ {p} : at \in touched'[q]
                              \/ UNCHANGED dev
      BY <1>8, OpenPcscEffect
    <2> QED BY <2>1, ListStep
  <1> QED BY <1>1, <1>2, <1>3, <1>4, <1>5, <1>6, <1>7, <1>8 DEF Open

-----------------------------------------------------------------------------
(* Every step preserves the invariant, and the invariant implies ListRight *)

LEMMA InitList == DiscoveryInit => ListInv
  BY IdleFields DEF DiscoveryInit, ListInv, PlacesSeen

LEMMA NextList == DiscoveryInv /\ ListInv /\ [DiscoveryNext]_discovery_vars => ListInv'
  <1> SUFFICES ASSUME DiscoveryInv, ListInv, [DiscoveryNext]_discovery_vars PROVE ListInv'
    OBVIOUS
  <1>1. CASE UNCHANGED discovery_vars
    BY <1>1 DEF discovery_vars, ListInv, PlacesSeen
  <1>2. ASSUME NEW p \in Proc,
               \/ \E len \in Lengths, b \in BOOLEAN : list_devices(p, len, b)
               \/ \E cs \in Connstring : open(p, cs)
               \/ Scan(p) \/ uart_check(p) \/ uart_claim(p) \/ Open(p) \/ return(p) \/ crash(p)
               \/ \E x \in dev[p] : close(p, x)
        PROVE  ListInv'
    <2>1. CASE \E len \in Lengths, b \in BOOLEAN : list_devices(p, len, b)
      BY <2>1, ListBegins
    <2>2. CASE Scan(p)
      BY <2>2, ListUsb, ListPcsc, ListScanEnd, ListScanProbe DEF Scan
    <2>3. CASE uart_check(p) \/ uart_claim(p)
      BY <2>3, ListUartCheck, ListUartClaim
    <2> QED BY <1>2, <2>1, <2>2, <2>3, ListUnseen
  <1> QED BY <1>1, <1>2 DEF DiscoveryNext

LEMMA ListInvRight == ListInv => ListRight
  <1> SUFFICES ASSUME ListInv, NEW p \in Proc, task[p].op = "listed"
               PROVE  LET t == task[p] IN
                        /\ Len(t.found) <= t.len
                        /\ Cardinality(Names(t.found)) = Len(t.found)
                        /\ \A x \in Names(t.found) : At[x.at] = x.driver
                        /\ Len(t.found) < t.len /\ faults = 0 =>
                             \A x \in Place : \/ x \in touched[p] \/ At[x] = "none"
                                              \/ At[x] \in Serial /\ ~t.intrusive
                                              \/ [driver |-> At[x], at |-> x] \in Names(t.found)
    BY DEF ListRight
  <1> DEFINE t == task[p]
             N == Len(t.found)
             F == Names(t.found)
  <1>1. /\ t.len \in Nat /\ t.d \in Nat /\ FoundOK(t) /\ AllFound(t, touched[p], faults) /\ (N = t.len \/ t.d > 6)
    BY DEF ListInv, ListOK
  <1>2. /\ t.found \in Seq([driver : Driver, at : Place]) /\ N <= t.len
        /\ \A a, b \in DOMAIN t.found : t.found[a] = t.found[b] => a = b
        /\ \A a \in DOMAIN t.found : At[t.found[a].at] = t.found[a].driver
    BY <1>1 DEF FoundOK
  <1>3. N \in Nat /\ DOMAIN t.found = 1..N
    BY <1>2
  <1>4. \A x \in F : At[x.at] = x.driver
    BY <1>2 DEF Names
  <1>5. Cardinality(F) = N
    <2> DEFINE f == [a \in 1..N |-> t.found[a]]
    <2>1. f \in Bijection(1..N, F)
      <3>1. f \in [1..N -> F]
        BY <1>3 DEF Names
      <3>2. \A a, b \in 1..N : f[a] = f[b] => a = b
        BY <1>2, <1>3
      <3>3. \A y \in F : \E a \in 1..N : f[a] = y
        BY <1>3 DEF Names
      <3> QED BY <3>1, <3>2, <3>3, Fun_IsBij
    <2>2. ExistsBijection(1..N, F)
      BY <2>1 DEF ExistsBijection
    <2>3. IsFiniteSet(1..N) /\ Cardinality(1..N) = N
      BY <1>3, FS_Interval
    <2> QED BY <2>2, <2>3, FS_Bijection
  <1>6. ASSUME N < t.len, faults = 0, NEW x \in Place, At[x] # "none"
        PROVE  \/ x \in touched[p] \/ (At[x] \in Serial /\ ~t.intrusive)
               \/ [driver |-> At[x], at |-> x] \in F
    <2>1. t.d > 6
      BY <1>1, <1>3, <1>6
    <2>2. PICK k \in 1..6 : nfc_drivers[k] = At[x]
      BY <1>6, PlaceFacts, Drivers
    <2>3. k < t.d
      BY <1>1, <2>1, <2>2
    <2>4. Searched(t, x)
      BY <2>2, <2>3, Drivers DEF Searched
    <2>5. Accounted(t, x, touched[p])
      BY <1>1, <1>6, <2>4 DEF AllFound
    <2> QED BY <2>5 DEF Accounted, Names
  <1> QED BY <1>2, <1>4, <1>5, <1>6

\* The inductive invariant of nfc_list_devices: what the scans have passed so far
\* is listed under its driver, was in use by somebody, or was not to be looked at,
\* whatever the other processes open, close and probe in between.
THEOREM ListInductive == DiscoverySpec => []ListInv
  <1>1. DiscoveryInit => DiscoveryInv /\ ListInv
    BY InitDiscovery, InitList
  <1>2. (DiscoveryInv /\ ListInv) /\ [DiscoveryNext]_discovery_vars => (DiscoveryInv /\ ListInv)'
    BY NextDiscovery, NextList
  <1> QED BY <1>1, <1>2, PTL DEF DiscoverySpec

\* nfc_list_devices fills the caller's array and no more, lists what is there under
\* the right driver, once, and unless the array is full or a call failed it misses
\* nothing that was left alone, for any set of processes and any places.
THEOREM DevicesListRightHolds == DiscoverySpec => []ListRight
  BY ListInductive, ListInvRight, PTL
===============================================================================
