------------------------------ MODULE Pn53xUsb ------------------------------
(***************************************************************************)
(* One PN53x on USB: pn53x_transceive over drivers/pn53x_usb.c, with the   *)
(* chip and its bulk endpoints, from the moment the device is opened.      *)
(*                                                                         *)
(* A transceive writes its frame, reads one packet for the ACK (a packet   *)
(* that is no ACK is dropped and answered by a NACK), then reads the reply *)
(* in passes of at most Slice, between which it looks at abort_flag, which *)
(* another thread sets.  Nothing discards old packets: what an earlier     *)
(* program or an earlier call left in the endpoint is read first.  Opening *)
(* the device therefore sends an abort and a dummy command.                *)
(***************************************************************************)
EXTENDS Integers, Sequences

CONSTANTS AppCmd,     \* commands of the application
          OldCmd,     \* commands of the program before it
          Timeout,    \* their time-outs, 0 for none
          Default,    \* timeout_command, for the commands of the library
          Slice,      \* USB_TIMEOUT_PER_PASS
          MaxCalls,   \* bound: transceives
          MaxAborts,  \* bound: calls of nfc_abort_command
          MaxFaults   \* bound: failing transfers

Cmd == AppCmd \cup {"GetFirmwareVersion", "SetParameters", "InRelease"}

ASSUME UsbAssumption ==
    /\ OldCmd \subseteq Cmd
    /\ Timeout \subseteq Nat
    /\ Default \in Nat \ {0} /\ Slice \in Nat \ {0}
    /\ MaxCalls \in Nat /\ MaxAborts \in Nat /\ MaxFaults \in Nat

Call == [cmd : Cmd, id : 0..MaxCalls]
Nil == [cmd |-> "none", id |-> 0]
Packet == [kind : {"ack", "reply", "junk"}, call : Call \cup {Nil}]
Ack(c) == [kind |-> "ack", call |-> c]
Reply(c) == [kind |-> "reply", call |-> c]
Outcome == {"none", "payload", "EIO", "ETIMEOUT", "EUSB", "EOPABORTED"}

VARIABLES stage,         \* where pn53x_usb_open or pn53x_usb_close stands
          pc,            \* where the transceive stands
          me,            \* the transceive under way
          timeout,       \* its time-out
          last_command,  \* command whose reply is expected
          remaining_time, usb_timeout,
          abort_flag,
          out,           \* host to chip: frames, ACKs (that abort) and NACKs
          in,            \* chip to host
          run, last,     \* chip: command being run, command last replied to
          result,        \* outcome of the last transceive
          waited,        \* history: time spent waiting for the reply
          failed,        \* history: a call failed since pn53x_usb_open handed out the device,
                         \* or it was opened with more in its endpoints than two packets to read
          calls, aborts, ended, faults   \* counters; ended: calls that were aborted

hostVars == <<stage, pc, me, timeout, last_command, remaining_time, usb_timeout, result, waited, failed, ended>>
chipVars == <<in, run, last>>
vars == <<hostVars, abort_flag, out, chipVars, calls, aborts, faults>>

TypeOK ==
    /\ stage \in {"closed", "dummy", "firmware", "parameters", "open", "closing"}
    /\ pc \in {"idle", "ack", "pass", "read"}
    /\ me \in Call \cup {Nil}
    /\ timeout \in Timeout \cup {Default}
    /\ last_command \in Cmd \cup {"none"}
    /\ remaining_time \in Int /\ usb_timeout \in 0..Slice
    /\ abort_flag \in BOOLEAN
    /\ out \in Seq([kind : {"frame", "ack", "nack"}, call : Call \cup {Nil}])
    /\ in \in Seq(Packet)
    /\ run \in Call \cup {Nil} /\ last \in Call \cup {Nil}
    /\ result \in [call : Call \cup {Nil}, outcome : Outcome, from : Call \cup {Nil}]
    /\ waited \in Nat
    /\ failed \in BOOLEAN
    /\ calls \in 0..MaxCalls /\ aborts \in 0..MaxAborts
    /\ ended \in 0..MaxAborts /\ faults \in 0..MaxFaults

\* The device is closed.  An earlier program may have left it in the middle of
\* anything: a command running, an ACK or a reply that nobody read.
Old == [cmd : OldCmd, id : {0}]
Leftover == {Ack(Nil)} \cup {Reply(c) : c \in Old}
Init ==
    /\ stage = "closed" /\ pc = "idle" /\ me = Nil
    /\ timeout = Default /\ last_command = "none"
    /\ remaining_time = 0 /\ usb_timeout = 0
    /\ abort_flag = FALSE
    /\ out = <<>>
    /\ run \in Old \cup {Nil}
    /\ last \in Old \cup {Nil}
    /\ in \in {<<>>} \cup {<<p>> : p \in Leftover} \cup {<<p, q>> : p, q \in Leftover}
    /\ result = [call |-> Nil, outcome |-> "none", from |-> Nil]
    /\ waited = 0 /\ failed = FALSE
    /\ calls = 0 /\ aborts = 0 /\ ended = 0 /\ faults = 0

Busy == pc # "idle"
Frame(c) == [kind |-> "frame", call |-> c]
Abort == [kind |-> "ack", call |-> Nil]
Nack == [kind |-> "nack", call |-> Nil]

-----------------------------------------------------------------------------
(* Opening, calling, closing                                               *)

\* mutant: the result of pn53x_init is ignored
After_MutUnchecked(ok) ==
    CASE stage = "dummy" -> "firmware"
      [] stage = "firmware" -> "parameters"
      [] stage = "parameters" -> "open"
      [] stage = "closing" -> "closed"
      [] OTHER -> stage

\* What follows the transceive of each stage: the dummy command and the ones
\* of pn53x_idle may fail, those of pn53x_init may not.
After(ok) ==
    CASE stage = "dummy" -> "firmware"
      [] stage = "firmware" -> IF ok THEN "parameters" ELSE "closed"
      [] stage = "parameters" -> IF ok THEN "open" ELSE "closed"
      [] stage = "closing" -> "closed"
      [] OTHER -> stage

\* The transceive returns, and its local variables are gone.
Return(outcome, from) ==
    /\ pc' = "idle"
    /\ remaining_time' = 0 /\ usb_timeout' = 0
    /\ stage' = After(outcome = "payload")
    /\ result' = [call |-> me, outcome |-> outcome, from |-> from]
    /\ failed' = (failed \/ (stage = "open" /\ outcome # "payload"))

\* The first half of pn53x_usb_send: the frame is written.
Begin(c, t) ==
    /\ pc = "idle"
    /\ calls < MaxCalls
    /\ calls' = calls + 1
    /\ me' = [cmd |-> c, id |-> calls + 1]
    /\ timeout' = t
    /\ pc' = "ack"
    /\ out' = Append(out, Frame(me'))
    /\ UNCHANGED <<last_command, remaining_time, usb_timeout, chipVars, result, waited, failed, aborts, ended, faults>>

\* pn53x_usb_open: an ACK to abort what the chip was doing, then the commands.
open ==
    /\ stage = "closed" /\ pc = "idle"
    /\ stage' = "dummy"
    /\ abort_flag' = FALSE
    /\ out' = Append(out, Abort)
    /\ failed' = (out # <<>> \/ Len(in) > 2)
    /\ UNCHANGED <<pc, me, timeout, last_command, remaining_time, usb_timeout, result, waited, ended,
                   chipVars, calls, aborts, faults>>

\* pn53x_usb_init and pn53x_init
open_command ==
    /\ \/ stage \in {"dummy", "firmware"} /\ Begin("GetFirmwareVersion", Default)
       \/ stage = "parameters" /\ Begin("SetParameters", Default)
    /\ UNCHANGED <<stage, abort_flag>>

transceive(c, t) ==
    /\ stage = "open"
    /\ Begin(c, t)
    /\ UNCHANGED <<stage, abort_flag>>

\* pn53x_usb_close: an ACK, then the commands of pn53x_idle, one stands for all.
close ==
    /\ stage = "open" /\ pc = "idle"
    /\ calls < MaxCalls
    /\ calls' = calls + 1
    /\ stage' = "closing"
    /\ me' = [cmd |-> "InRelease", id |-> calls + 1]
    /\ timeout' = Default
    /\ pc' = "ack"
    /\ out' = out \o <<Abort, Frame(me')>>
    /\ UNCHANGED <<last_command, remaining_time, usb_timeout, abort_flag, chipVars, result, waited, failed, aborts, ended, faults>>

-----------------------------------------------------------------------------
(* pn53x_usb_send, from the read of the ACK on                             *)

read_ack ==
    /\ pc = "ack" /\ in # <<>>
    /\ in' = Tail(in)
    /\ out' = IF Head(in).kind = "ack" THEN out ELSE Append(out, Nack)
    /\ last_command' = me.cmd
    /\ remaining_time' = timeout
    /\ waited' = 0
    /\ pc' = "pass"
    /\ UNCHANGED <<stage, me, timeout, usb_timeout, abort_flag, run, last, result, failed, calls, aborts, ended, faults>>

\* mutant: the wait for the ACK is started again
ack_timeout_MutRetry == pc = "ack" /\ timeout # 0 /\ UNCHANGED vars

\* No packet in time: the chip is told to stop.
ack_timeout ==
    /\ pc = "ack" /\ timeout # 0
    /\ out' = Append(out, Abort)
    /\ Return("EUSB", Nil)
    /\ UNCHANGED <<me, timeout, last_command, abort_flag, chipVars, waited, calls, aborts, ended, faults>>

-----------------------------------------------------------------------------
(* pn53x_usb_receive                                                       *)

\* mutant: every pass lasts a whole slice
next_pass_MutWhole ==
    /\ pc = "pass"
    /\ LET left == remaining_time - Slice IN
         \/ /\ timeout = 0
            /\ usb_timeout' = Slice
            /\ pc' = "read"
            /\ UNCHANGED <<remaining_time, stage, result, failed>>
         \/ /\ timeout # 0 /\ left <= 0
            /\ Return("ETIMEOUT", Nil)
         \/ /\ timeout # 0 /\ left > 0
            /\ remaining_time' = left
            /\ usb_timeout' = Slice
            /\ pc' = "read"
            /\ UNCHANGED <<stage, result, failed>>
    /\ UNCHANGED <<me, timeout, last_command, abort_flag, out, chipVars, waited, calls, aborts, ended, faults>>

\* The label "read": the time-out is cut in passes.
next_pass ==
    /\ pc = "pass"
    /\ LET left == remaining_time - Slice IN
         \/ /\ timeout = 0
            /\ usb_timeout' = Slice
            /\ pc' = "read"
            /\ UNCHANGED <<remaining_time, stage, result, failed>>
         \/ /\ timeout # 0 /\ left <= 0
            /\ Return("ETIMEOUT", Nil)
         \/ /\ timeout # 0 /\ left > 0
            /\ remaining_time' = left
            /\ usb_timeout' = IF left < Slice THEN left ELSE Slice
            /\ pc' = "read"
            /\ UNCHANGED <<stage, result, failed>>
    /\ UNCHANGED <<me, timeout, last_command, abort_flag, out, chipVars, waited, calls, aborts, ended, faults>>

\* mutant: the abort flag is not cleared
read_timeout_MutKeepFlag ==
    /\ pc = "read"
    /\ waited' = IF timeout = 0 THEN 0 ELSE waited + usb_timeout
    /\ \/ /\ abort_flag
          /\ ended' = ended + 1
          /\ out' = Append(out, Abort)
          /\ Return("EOPABORTED", Nil)
       \/ /\ ~abort_flag
          /\ pc' = "pass"
          /\ UNCHANGED <<remaining_time, usb_timeout, ended, out, stage, result, failed>>
    /\ UNCHANGED <<me, timeout, last_command, abort_flag, chipVars, calls, aborts, faults>>

\* mutant: a call without a time-out does not look at the flag
read_timeout_MutTimedOnly ==
    /\ pc = "read"
    /\ waited' = IF timeout = 0 THEN 0 ELSE waited + usb_timeout
    /\ \/ /\ abort_flag /\ timeout # 0
          /\ abort_flag' = FALSE
          /\ ended' = ended + 1
          /\ out' = Append(out, Abort)
          /\ Return("EOPABORTED", Nil)
       \/ /\ ~(abort_flag /\ timeout # 0)
          /\ pc' = "pass"
          /\ UNCHANGED <<remaining_time, usb_timeout, abort_flag, ended, out, stage, result, failed>>
    /\ UNCHANGED <<me, timeout, last_command, chipVars, calls, aborts, faults>>

\* A pass ends without a packet.
read_timeout ==
    /\ pc = "read"
    /\ waited' = IF timeout = 0 THEN 0 ELSE waited + usb_timeout
    /\ \/ /\ abort_flag
          /\ abort_flag' = FALSE
          /\ ended' = ended + 1
          /\ out' = Append(out, Abort)
          /\ Return("EOPABORTED", Nil)
       \/ /\ ~abort_flag
          /\ pc' = "pass"
          /\ UNCHANGED <<remaining_time, usb_timeout, abort_flag, ended, out, stage, result, failed>>
    /\ UNCHANGED <<me, timeout, last_command, chipVars, calls, aborts, faults>>

\* mutant: the command code is not verified
read_reply_MutAnyCode ==
    /\ pc = "read" /\ in # <<>>
    /\ in' = Tail(in)
    /\ LET p == Head(in) IN
         IF p.kind = "reply"
           THEN Return("payload", p.call)
           ELSE Return("EIO", Nil)
    /\ UNCHANGED <<me, timeout, last_command, abort_flag, out, run, last, waited, calls, aborts, ended, faults>>

\* A packet is read and verified: start code, checksums, command code.
read_reply ==
    /\ pc = "read" /\ in # <<>>
    /\ in' = Tail(in)
    /\ LET p == Head(in) IN
         IF p.kind = "reply" /\ p.call.cmd = last_command
           THEN Return("payload", p.call)
           ELSE Return("EIO", Nil)
    /\ UNCHANGED <<me, timeout, last_command, abort_flag, out, run, last, waited, calls, aborts, ended, faults>>

\* A transfer fails: the write of the frame, which then never left; a read; or
\* the write of the NACK for the packet read instead of an ACK.  The chip is
\* told to stop, if that still works.
io_error ==
    /\ pc \in {"ack", "read"}
    /\ faults < MaxFaults
    /\ faults' = faults + 1
    /\ out' \in {out, Append(out, Abort)}
                \cup (IF out # <<>> /\ out[Len(out)] = Frame(me) THEN {SubSeq(out, 1, Len(out) - 1)} ELSE {})
    /\ \/ UNCHANGED in
       \/ pc = "ack" /\ in # <<>> /\ Head(in).kind # "ack" /\ in' = Tail(in)
    /\ Return("EUSB", Nil)
    /\ UNCHANGED <<me, timeout, last_command, abort_flag, run, last, waited, calls, aborts, ended>>

\* pn53x_usb_abort_command, in another thread
abort_command ==
    /\ stage = "open"
    /\ aborts < MaxAborts
    /\ aborts' = aborts + 1
    /\ abort_flag' = TRUE
    /\ UNCHANGED <<hostVars, out, chipVars, calls, faults>>

-----------------------------------------------------------------------------
(* The chip                                                                *)

\* A frame ends the command under way, whose successor may then be answered
\* without an ACK.  An ACK ends it too, and may drop what the host has not
\* read.  A NACK has the last reply sent again, unless a command is running.
chip_take ==
    /\ out # <<>>
    /\ out' = Tail(out)
    /\ LET f == Head(out) IN
         \/ /\ f.kind = "frame"
            /\ run' = f.call
            /\ in' \in {Append(in, Ack(f.call))} \cup (IF run = Nil THEN {} ELSE {in})
            /\ UNCHANGED last
         \/ /\ f.kind = "ack"
            /\ run' = Nil
            /\ in' \in {in, <<>>}
            /\ UNCHANGED last
         \/ /\ f.kind = "nack"
            /\ in' \in IF run # Nil \/ last = Nil THEN {in} ELSE {Append(in, Reply(last))}
            /\ UNCHANGED <<run, last>>
    /\ UNCHANGED <<hostVars, abort_flag, calls, aborts, faults>>

chip_reply ==
    /\ run # Nil
    /\ in' = Append(in, Reply(run))
    /\ last' = run
    /\ run' = Nil
    /\ UNCHANGED <<hostVars, abort_flag, out, calls, aborts, faults>>

Host == read_ack \/ ack_timeout \/ next_pass \/ read_timeout \/ read_reply
Chip == chip_take \/ chip_reply

Next == \/ open \/ open_command \/ close
        \/ \E c \in AppCmd, t \in Timeout : transceive(c, t)
        \/ Host \/ io_error \/ abort_command \/ Chip

Spec == Init /\ [][Next]_vars
FairSpec == Spec /\ WF_vars(Host) /\ WF_vars(chip_take)

-----------------------------------------------------------------------------
(* Properties                                                              *)

AtRest == out = <<>> /\ in = <<>> /\ run = Nil

\* pn53x_usb_open hands out a device only when host and chip are in step,
\* whatever an earlier program or session left in the endpoint, up to two
\* packets, and between calls they stay in step until a call fails: nothing is
\* left for the next one to read, and the bytes a call returns are the chip's
\* answer to it.
InStepUnlessFailed ==
    stage = "open" /\ ~failed =>
        /\ pc = "idle" => AtRest
        /\ result.outcome = "payload" => result.from = result.call

\* A call that times out in pn53x_usb_receive has waited for its time-out less
\* one slice, however that time was cut; with a time-out of a slice or less it
\* has not waited at all.  And no abort ends more than one call.
WaitsLessASlice ==
    /\ TypeOK
    /\ result.outcome = "ETIMEOUT" /\ pc = "idle" =>
        waited = IF timeout > Slice THEN timeout - Slice ELSE 0
    /\ ended + (IF abort_flag THEN 1 ELSE 0) <= aborts

\* A call with a time-out returns.
CallReturns == (Busy /\ timeout # 0) ~> ~Busy

\* An abort ends the call under way, even one without a time-out, wherever it
\* arrives: the flag stays up until the call looks at it.  This needs the ACK to
\* come, so it holds until a call fails.
AbortEndsCall == (Busy /\ abort_flag /\ ~failed) ~> ~Busy
=============================================================================
