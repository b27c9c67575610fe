------------------------------- MODULE Acr122 -------------------------------
(***************************************************************************)
(* The ACR122 family: pn53x_transceive over drivers/acr122_usb.c, for its  *)
(* models ACR122 and TOUCHATAG, or over drivers/acr122_pcsc.c, in the      *)
(* protocols T=0 and T=1 (SCardControl behaves as T=1), with the reader.   *)
(*                                                                         *)
(* On USB nothing is acknowledged and nothing discards old packets: a call *)
(* writes one message and takes the next packet for its answer, a          *)
(* Touchatag after asking for it with GetResponse.  A call that was        *)
(* aborted, or failed to read, writes GetFirmwareVersion to stop the chip, *)
(* and reads one packet.  A call that times out does neither.              *)
(***************************************************************************)
EXTENDS Integers, Sequences

CONSTANTS Kind,       \* models and protocols
          AppCmd,     \* commands of the application
          Timeout,    \* their time-outs in passes of 200 ms, 0 for none
          MaxCalls,   \* bound: messages of open, close and the application
          MaxAborts,  \* bound: calls of nfc_abort_command
          MaxFaults   \* bound: transfers that fail

ASSUME Acr122Assumption ==
    /\ Kind \subseteq {"ACR122", "TOUCHATAG", "T0", "T1"}
    /\ Timeout \subseteq Nat
    /\ MaxCalls \in Nat /\ MaxAborts \in Nat /\ MaxFaults \in Nat

CommandTimeout == 5                     \* NP_TIMEOUT_COMMAND, 1000 ms
Cmd == AppCmd \cup {"PowerOn", "Parameters", "GetFirmwareVersion", "InRelease"}
Call == [cmd : Cmd, id : 1..2 * MaxCalls]
Nil == [cmd |-> "none", id |-> 0]
Packet(kind, c) == [kind |-> kind, call |-> c]
Outcome == {"none", "payload", "EIO", "ETIMEOUT", "EOPABORTED"}

VARIABLES kind, stage,    \* the reader; where open or close stands
          pc, me,         \* the call under way
          timeout, remaining_time,
          then,           \* what the call returns once it has stopped the chip
          last_command, abort_flag,
          result, failed, \* last outcome; history: a call failed since the open
          in,             \* the bulk endpoint from the reader
          run, held,      \* reader: command being run, answer kept for GetResponse
          calls, ids, aborts, faults,
          unread          \* history: calls that timed out before they read once

call == <<me, timeout, last_command>>
reader == <<in, run, held>>
counters == <<calls, ids, aborts, faults, unread>>
vars == <<kind, stage, pc, call, remaining_time, then, abort_flag, result, failed, reader, counters>>

Usb == kind \in {"ACR122", "TOUCHATAG"}
Busy == pc # "idle"

Init ==
    /\ kind \in Kind
    /\ stage = "closed" /\ pc = "idle" /\ me = Nil
    /\ timeout = 0 /\ remaining_time = 0 /\ then = "none"
    /\ last_command = "none" /\ abort_flag = FALSE
    /\ result = [call |-> Nil, outcome |-> "none", from |-> Nil] /\ failed = FALSE
    /\ in = <<>> /\ run = Nil /\ held = Nil
    /\ calls = 0 /\ ids = 0 /\ aborts = 0 /\ faults = 0 /\ unread = 0

-----------------------------------------------------------------------------
(* Opening and closing                                                     *)

\* acr122_usb_init checks every exchange; acr122_pcsc_open ignores pn53x_init.
\* acr122_usb_close ignores what stopping the chip and pn53x_idle gave.
After(ok) ==
    CASE stage = "power" -> IF ok THEN "parameters" ELSE "closed"
      [] stage = "parameters" -> IF ok THEN "init" ELSE "closed"
      [] stage = "init" -> IF ok \/ ~Usb THEN "open" ELSE "closed"
      [] stage = "stop" -> "idle"
      [] stage = "idle" -> "closed"
      [] OTHER -> stage

Return(outcome, from) ==
    /\ pc' = "idle" /\ remaining_time' = 0 /\ then' = "none"
    /\ stage' = After(outcome = "payload")
    /\ result' = [call |-> me, outcome |-> outcome, from |-> from]
    /\ failed' = (failed \/ outcome # "payload")

\* acr122_usb_open resets the device and claims it; acr122_pcsc_open connects.
\* Either way what the reader was doing is gone.
open ==
    /\ stage = "closed"
    /\ stage' = IF Usb THEN "power" ELSE "init"
    /\ abort_flag' = FALSE /\ failed' = FALSE
    /\ result' = [call |-> Nil, outcome |-> "none", from |-> Nil]
    /\ in' = <<>> /\ run' = Nil /\ held' = Nil
    /\ UNCHANGED <<kind, pc, call, remaining_time, then, counters>>

close ==
    /\ stage = "open" /\ pc = "idle"
    /\ stage' = IF Usb THEN "stop" ELSE "closed"
    /\ UNCHANGED <<kind, pc, call, remaining_time, then, abort_flag, result, failed, reader, counters>>

-----------------------------------------------------------------------------
(* acr122_usb_send, acr122_usb_ack, acr122_usb_send_apdu                   *)

\* A message is written, and the reader has it: it ends the command that was
\* under way, and the answer kept is dropped.  A write that fails leaves nothing.
Write(m) ==
    /\ ids' = m.id
    /\ run' = m /\ held' = Nil

Begin(c, t, where) ==
    /\ pc = "idle" /\ calls < MaxCalls
    /\ calls' = calls + 1
    /\ me' = [cmd |-> c, id |-> ids + 1]
    /\ Write(me')
    /\ timeout' = t /\ remaining_time' = t
    /\ last_command' = c
    /\ pc' = where
    /\ UNCHANGED <<kind, stage, abort_flag, result, failed, in, aborts, faults, unread>>

\* The exchanges of acr122_usb_init, pn53x_init and pn53x_idle (one command
\* stands for all of them), and the stop of acr122_usb_close.
stage_request ==
    \/ stage = "power" /\ Begin("PowerOn", CommandTimeout, "raw") /\ then' = "none"
    \/ stage = "parameters" /\ Begin("Parameters", CommandTimeout, "raw") /\ then' = "none"
    \/ stage = "init" /\ Usb /\ Begin("GetFirmwareVersion", CommandTimeout, "pass") /\ then' = "none"
    \/ stage = "idle" /\ Begin("InRelease", CommandTimeout, "pass") /\ then' = "none"
    \/ stage = "stop" /\ Begin("GetFirmwareVersion", CommandTimeout, "stop") /\ then' = "EOPABORTED"

transceive(c, t) ==
    /\ stage = "open" /\ Usb
    /\ Begin(c, t, "pass")
    /\ then' = "none"

\* acr122_usb_ack: "we use a normal command to cancel current command"
Stop(outcome) ==
    /\ pc' = "stop" /\ then' = outcome
    /\ Write([cmd |-> "GetFirmwareVersion", id |-> ids + 1])

\* mutant: nothing is read
stop_read_MutNone ==
    /\ pc = "stop"
    /\ Return(then, Nil)
    /\ UNCHANGED <<kind, call, abort_flag, in, run, held, counters>>

\* One packet is read, whatever it is, or none comes.
stop_read ==
    /\ pc = "stop"
    /\ in' = IF in = <<>> THEN in ELSE Tail(in)
    /\ Return(then, Nil)
    /\ UNCHANGED <<kind, call, abort_flag, run, held, counters>>

\* IccPowerOn and the operating parameters: any packet will do.
raw_read ==
    /\ pc = "raw"
    /\ \/ in # <<>> /\ in' = Tail(in) /\ Return("payload", me)
       \/ in = <<>> /\ Return("ETIMEOUT", Nil) /\ UNCHANGED in
    /\ UNCHANGED <<kind, call, abort_flag, run, held, counters>>

-----------------------------------------------------------------------------
(* acr122_usb_receive                                                      *)

\* mutant: a time-out is returned as 0 bytes
next_pass_MutZero ==
    /\ pc = "pass"
    /\ \/ /\ timeout # 0 /\ remaining_time - 1 <= 0
          /\ unread' = IF remaining_time = timeout THEN unread + 1 ELSE unread
          /\ Return("payload", me)
       \/ /\ timeout = 0 \/ remaining_time - 1 > 0
          /\ remaining_time' = IF timeout = 0 THEN 0 ELSE remaining_time - 1
          /\ pc' = "read"
          /\ UNCHANGED <<stage, then, result, failed, unread>>
    /\ UNCHANGED <<kind, call, abort_flag, reader, calls, ids, aborts, faults>>

\* The label "read": a time-out is cut in passes, and the last is not waited.
next_pass ==
    /\ pc = "pass"
    /\ \/ /\ timeout # 0 /\ remaining_time - 1 <= 0
          /\ unread' = IF remaining_time = timeout THEN unread + 1 ELSE unread
          /\ Return("ETIMEOUT", Nil)
       \/ /\ timeout = 0 \/ remaining_time - 1 > 0
          /\ remaining_time' = IF timeout = 0 THEN 0 ELSE remaining_time - 1
          /\ pc' = "read"
          /\ UNCHANGED <<stage, then, result, failed, unread>>
    /\ UNCHANGED <<kind, call, abort_flag, reader, calls, ids, aborts, faults>>

\* mutant: a pass of a call with a time-out is followed by another whole one
read_timeout_MutAgain ==
    /\ Usb /\ pc = "read" /\ in = <<>> /\ ~abort_flag
    /\ UNCHANGED vars

read_timeout ==
    /\ Usb /\ pc = "read" /\ in = <<>>
    /\ \/ /\ abort_flag
          /\ abort_flag' = FALSE
          /\ Stop("EOPABORTED")
       \/ /\ ~abort_flag
          /\ pc' = "pass"
          /\ UNCHANGED <<abort_flag, then, ids, run, held>>
    /\ UNCHANGED <<kind, stage, call, remaining_time, result, failed, in, calls, aborts, faults, unread>>

\* The last checks: message type, length, TFI and command code.
Answer(p) ==
    IF p.kind = "reply" /\ p.call.cmd = last_command
      THEN Return("payload", p.call)
      ELSE Return("EIO", Nil)

\* A packet comes.  A Touchatag only announces its answer, and is then asked
\* for it, by a message whose failure leaves the announcement in the buffer.
read_packet ==
    /\ pc = "read" /\ in # <<>>
    /\ LET p == Head(in) IN
         \/ /\ kind = "ACR122"
            /\ in' = Tail(in)
            /\ Answer(p)
            /\ UNCHANGED held
         \/ /\ kind = "TOUCHATAG" /\ p.kind # "more"
            /\ in' = Tail(in)
            /\ Return("EIO", Nil)
            /\ UNCHANGED held
         \/ /\ kind = "TOUCHATAG" /\ p.kind = "more"
            /\ in' = Append(Tail(in), IF held = Nil THEN Packet("junk", Nil) ELSE Packet("reply", held))
            /\ held' = Nil
            /\ pc' = "more"
            /\ UNCHANGED <<stage, remaining_time, then, result, failed>>
    /\ UNCHANGED <<kind, call, abort_flag, run, counters>>

more_read ==
    /\ pc = "more"
    /\ in' = Tail(in)
    /\ Answer(Head(in))
    /\ UNCHANGED <<kind, call, abort_flag, run, held, counters>>

\* A read fails, after which the chip is stopped, but on a Touchatag only if the
\* unwritten buffer happens to look like an announcement.
read_error ==
    /\ Usb /\ pc \in {"raw", "read", "more", "stop"} /\ faults < MaxFaults
    /\ faults' = faults + 1
    /\ \/ /\ pc = "read"
          /\ Stop("EIO")
          /\ UNCHANGED <<stage, remaining_time, result, failed>>
       \/ /\ pc \in {"raw", "more"} \/ (pc = "read" /\ kind = "TOUCHATAG")
          /\ Return("EIO", Nil)
          /\ UNCHANGED <<ids, run, held>>
       \/ /\ pc = "stop"
          /\ Return(then, Nil)
          /\ UNCHANGED <<ids, run, held>>
    /\ UNCHANGED <<kind, call, abort_flag, in, calls, aborts, unread>>

\* The write of a call fails: it returns at once.
write_error ==
    /\ Usb /\ stage \in {"power", "parameters", "init", "open", "idle"} /\ pc = "idle"
    /\ calls < MaxCalls /\ faults < MaxFaults
    /\ faults' = faults + 1
    /\ Return("EIO", Nil)
    /\ UNCHANGED <<kind, call, abort_flag, reader, calls, ids, aborts, unread>>

abort_command ==
    /\ stage = "open" /\ Usb /\ aborts < MaxAborts
    /\ aborts' = aborts + 1
    /\ abort_flag' = TRUE
    /\ UNCHANGED <<kind, stage, pc, call, remaining_time, then, result, failed, reader, calls, ids, faults, unread>>

-----------------------------------------------------------------------------
(* acr122_pcsc_send and acr122_pcsc_receive, without a time-out or an abort *)

\* mutant: an answer nobody fetched is kept
pcsc_send_MutKeepOld(c) ==
    /\ ~Usb /\ pc = "idle" /\ calls < MaxCalls
    /\ stage = "open" \/ (stage = "init" /\ c = "GetFirmwareVersion")
    /\ calls' = calls + 1 /\ ids' = ids + 1
    /\ me' = [cmd |-> c, id |-> ids']
    /\ \/ /\ pc' = "read"
          /\ held' = IF held = Nil THEN me' ELSE held
          /\ last_command' = c
          /\ UNCHANGED <<stage, remaining_time, then, result, failed, faults>>
       \/ /\ faults < MaxFaults /\ faults' = faults + 1
          /\ pc' = "idle"
          /\ stage' = After(FALSE)
          /\ result' = [call |-> me', outcome |-> "EIO", from |-> Nil]
          /\ failed' = TRUE
          /\ held' \in {held, me'}
          /\ UNCHANGED <<remaining_time, then, last_command>>
    /\ UNCHANGED <<kind, timeout, abort_flag, in, run, aborts, unread>>

\* SCardTransmit waits for the reader's answer.  In T=0 that is the announcement
\* of the microcontroller, and the reader keeps the answer.
pcsc_send(c) ==
    /\ ~Usb /\ pc = "idle" /\ calls < MaxCalls
    /\ stage = "open" \/ (stage = "init" /\ c = "GetFirmwareVersion")
    /\ calls' = calls + 1 /\ ids' = ids + 1
    /\ me' = [cmd |-> c, id |-> ids']
    /\ \/ /\ pc' = "read"
          /\ held' = me'
          /\ last_command' = c
          /\ UNCHANGED <<stage, remaining_time, then, result, failed, faults>>
       \/ /\ faults < MaxFaults /\ faults' = faults + 1
          /\ pc' = "idle"
          /\ stage' = After(FALSE)
          /\ result' = [call |-> me', outcome |-> "EIO", from |-> Nil]
          /\ failed' = TRUE
          /\ held' \in {held, me'}
          /\ UNCHANGED <<remaining_time, then, last_command>>
    /\ UNCHANGED <<kind, timeout, abort_flag, in, run, aborts, unread>>

\* In T=1 the answer was saved by the send; in T=0 it is asked for.  Its command
\* code is not looked at.
pcsc_receive ==
    /\ ~Usb /\ pc = "read"
    /\ \/ /\ Return("payload", held)
          /\ held' = Nil
          /\ UNCHANGED faults
       \/ /\ kind = "T0" /\ faults < MaxFaults /\ faults' = faults + 1
          /\ Return("EIO", Nil)
          /\ UNCHANGED held
    /\ UNCHANGED <<kind, call, abort_flag, in, run, calls, ids, aborts, unread>>

-----------------------------------------------------------------------------
(* The reader on USB                                                       *)

\* The command ends with a packet: its answer, or on a Touchatag the announcement.
reader_reply ==
    /\ run # Nil
    /\ run' = Nil
    /\ IF kind = "TOUCHATAG" /\ run.cmd \notin {"PowerOn", "Parameters"}
         THEN held' = run /\ in' = Append(in, Packet("more", run))
         ELSE in' = Append(in, Packet("reply", run)) /\ UNCHANGED held
    /\ UNCHANGED <<kind, stage, pc, call, remaining_time, then, abort_flag, result, failed, counters>>

Host == stop_read \/ raw_read \/ next_pass \/ read_timeout \/ (Usb /\ read_packet) \/ more_read \/ pcsc_receive
Next == open \/ close \/ stage_request \/ (\E c \in AppCmd, t \in Timeout : transceive(c, t))
        \/ (\E c \in AppCmd \cup {"GetFirmwareVersion"} : pcsc_send(c))
        \/ Host \/ read_error \/ write_error \/ abort_command \/ reader_reply

Spec == Init /\ [][Next]_vars /\ WF_vars(Host)

-----------------------------------------------------------------------------
(* Properties                                                              *)

TypeOK ==
    /\ stage \in {"closed", "power", "parameters", "init", "open", "stop", "idle"}
    /\ pc \in {"idle", "pass", "read", "more", "raw", "stop"}
    /\ {me, run, held} \subseteq Call \cup {Nil}
    /\ result.outcome \in Outcome /\ then \in Outcome
    /\ timeout \in Timeout \cup {0, CommandTimeout} /\ remaining_time \in 0..timeout

Behind == Len(in) + (IF run = Nil THEN 0 ELSE 1)

\* An opened reader, whatever it was doing before, answers its own calls and
\* leaves nothing behind until a call fails; over PC/SC it answers its own calls
\* even then, though the command code is not verified.
InStepUnlessFailed ==
    stage = "open" /\ pc = "idle" /\ (~failed \/ ~Usb) =>
        /\ Usb => Behind = 0
        /\ result.outcome = "payload" => result.from = result.call \/ result.call.cmd \in {"PowerOn", "Parameters"}

\* However many calls time out or are aborted on USB, at most one answer is left
\* behind between calls, and one more for every transfer that failed and for every
\* call whose time-out, of one pass or less, ended it before its first read:
\* acr122_usb_ack reads as much as it provokes.
OneBehind == TypeOK /\ (stage = "open" /\ pc = "idle" => Behind <= 1 + faults + unread)

\* A call with a time-out returns, and so does any call once it is aborted.
CallReturns == (Busy /\ (timeout # 0 \/ abort_flag)) ~> ~Busy
=============================================================================
