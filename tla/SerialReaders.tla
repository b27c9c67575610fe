---------------------------- MODULE SerialReaders ----------------------------
(***************************************************************************)
(* A PN532 behind a microcontroller on a serial line: pn53x_transceive     *)
(* over drivers/arygon.c or drivers/acr122s.c, chosen by io as nfc_open    *)
(* does, with the reader, from uart_open to uart_close.                    *)
(*                                                                         *)
(* Both wait for an acknowledgement before the answer.  The ARYGON's names *)
(* the command it answers; the ACR122S numbers its requests, and advances  *)
(* the number only when a request has been acknowledged.  An abort leaves  *)
(* the ACR122S to itself; the ARYGON is sent a dummy packet, and a         *)
(* transceive of Diagnose is made within the receive that was aborted.     *)
(***************************************************************************)
EXTENDS Naturals, Sequences

CONSTANTS Io,         \* drivers
          AppCmd,     \* commands of the application
          Blocking,   \* those sent without a time-out
          SeqMod,     \* values of the sequence number (256)
          MaxCalls,   \* bound: requests of open, close and the application
          MaxAborts,  \* bound: calls of nfc_abort_command
          MaxLost     \* bound: frames lost, damaged or refused, failing system calls

ASSUME SerialAssumption ==
    /\ Io \subseteq {"arygon", "acr122s"}
    /\ Blocking \subseteq AppCmd
    /\ AppCmd \cap {"none", "ResetTama", "Firmware", "PowerOn", "PowerOff", "Init", "Diagnose"} = {}
    /\ SeqMod \in Nat \ {0}
    /\ MaxCalls \in Nat /\ MaxAborts \in Nat /\ MaxLost \in Nat

Raw == {"ResetTama", "Firmware"}       \* ARYGON: not for the PN532, not acknowledged
Cmd == AppCmd \cup Raw \cup {"PowerOn", "PowerOff", "Init", "Diagnose"}
Call == [cmd : Cmd, id : 1..MaxCalls + MaxAborts, seq : 0..SeqMod - 1]
Nil == [cmd |-> "none", id |-> 0, seq |-> 0]
Frame(kind, c) == [kind |-> kind, call |-> c]
Junk == Frame("junk", Nil)
Outcome == {"none", "payload", "EIO", "ETIMEOUT", "EOPABORTED", "exit"}

VARIABLES io, stage,       \* the driver; where its open or close stands
          pc, me,          \* the request under way
          half,            \* the first bytes of an answer are read, its rest is awaited
          gone,            \* the process has ended in abort()
          outer,           \* the aborted call that Diagnose is nested in
          last_command, seq,
          signalled,       \* the pipe the receiver waits on has been closed
          pipe_ok,         \* the end of the pipe that is watched is open
          result, failed,  \* last outcome; history: a call has failed
          hasty,           \* history: a call began before the line had settled
          acked,           \* history: the acknowledged calls
          tx, wire, run,   \* to the reader, from it, what it runs
          calls, aborts, lost

host == <<stage, pc, me, outer, last_command, seq, signalled, pipe_ok, result, failed, hasty, acked>>
vars == <<io, host, half, gone, tx, wire, run, calls, aborts, lost>>

Init ==
    /\ io \in Io
    /\ stage = "closed" /\ pc = "idle" /\ me = Nil /\ outer = Nil
    /\ half = FALSE /\ gone = FALSE
    /\ last_command = "none" /\ seq = 0 /\ signalled = FALSE /\ pipe_ok = TRUE
    /\ result = [call |-> Nil, outcome |-> "none", from |-> Nil]
    /\ failed = FALSE /\ hasty = FALSE /\ acked = {}
    /\ tx = <<>> /\ wire = <<>> /\ run = Nil
    /\ calls = 0 /\ aborts = 0 /\ lost = 0

Busy == pc # "idle"
Quiet == tx = <<>> /\ (run = Nil \/ run.cmd \in Blocking)
StageCmd == [reset |-> "ResetTama", firmware |-> "Firmware", sam |-> "PowerOn",
             init |-> "Init", closing |-> "PowerOff"]

\* Which waits have a time-out: none of those that power the SAM, nor the
\* ones for the firmware version, but for its acknowledgement.
Timed ==
    /\ me.cmd \notin Blocking \cup {"PowerOn", "PowerOff"}
    /\ me.cmd = "Firmware" => pc = "ack"

\* The waits that watch the pipe: the one for the answer, but of the requests of
\* open and close, and that of the ACR122S for any acknowledgement.  On the ARYGON
\* only the read of an answer's first bytes does.  select() fails at once on a
\* descriptor that is not open.
Abortable ==
    \/ /\ pc = "receive" /\ me.cmd \notin Raw \cup {"PowerOn", "PowerOff"}
       /\ half => io = "acr122s"
    \/ pc = "ack" /\ io = "acr122s"
BadPipe == Abortable /\ ~pipe_ok

-----------------------------------------------------------------------------
(* Opening and closing                                                     *)

\* What follows the request of a stage.  arygon_open checks only the reset of
\* the chip; acr122s_open checks all and closes on failure, and acr122s_close
\* ignores what deactivating the SAM gave.
After(ok) ==
    CASE stage = "reset" -> IF ok THEN "firmware" ELSE "closed"
      [] stage = "firmware" -> IF io = "arygon" THEN "init" ELSE IF ok THEN "sam" ELSE "closing"
      [] stage = "sam" -> IF ok THEN "init" ELSE "closing"
      [] stage = "init" -> IF ok \/ io = "arygon" THEN "open" ELSE "closing"
      [] stage = "closing" -> "closed"
      [] OTHER -> stage

\* A request ends.  The nested Diagnose only ends the call that was aborted.
Return(outcome, from) ==
    /\ pc' = "idle" /\ half' = FALSE /\ outer' = Nil /\ signalled' = FALSE
    /\ stage' = After(outcome = "payload")
    /\ result' = IF outer = Nil THEN [call |-> me, outcome |-> outcome, from |-> from]
                 ELSE [call |-> outer, outcome |-> "EOPABORTED", from |-> Nil]
    /\ failed' = (failed \/ result'.outcome # "payload")

\* mutant: the bytes that have arrived are kept
flush_input_MutNone(now) == UNCHANGED wire

\* uart_flush_input drops what has arrived.  While more is under way it leaves
\* the rest, the first frame of it perhaps cut.
flush_input(now) ==
    \/ wire' = <<>>
    \/ /\ now
       /\ \E k \in 0..Len(wire) :
            LET rest == SubSeq(wire, k + 1, Len(wire)) IN
              wire' \in {rest} \cup (IF rest = <<>> THEN {} ELSE {<<Junk>> \o Tail(rest)})

\* A request is written.  Powering the SAM has number 0.
Send(c) ==
    /\ calls' = calls + 1
    /\ me' = [cmd |-> c, id |-> calls + 1,
              seq |-> IF io = "arygon" \/ c \in {"PowerOn", "PowerOff"} THEN 0 ELSE seq]
    /\ pc' = IF io = "arygon" /\ c \in Raw THEN "receive" ELSE "ack"

\* arygon_open and acr122s_open, up to the first request
open ==
    /\ stage = "closed" /\ ~gone
    /\ stage' = IF io = "arygon" THEN "reset" ELSE "firmware"
    /\ hasty' = ~Quiet
    /\ flush_input(hasty')
    /\ seq' = 0 /\ acked' = {}
    /\ result' = [call |-> Nil, outcome |-> "none", from |-> Nil]
    /\ pipe_ok' = TRUE
    /\ UNCHANGED <<io, pc, me, half, gone, outer, last_command, signalled, failed, tx, run, calls, aborts, lost>>

\* The requests of open and close.  Only pn53x_init goes through io->send,
\* which flushes.
stage_request ==
    /\ stage \in DOMAIN StageCmd /\ pc = "idle" /\ ~gone
    /\ calls < MaxCalls
    /\ Send(StageCmd[stage])
    /\ tx' = Append(tx, Frame("request", me'))
    /\ IF stage = "init" THEN flush_input(hasty) ELSE UNCHANGED wire
    /\ UNCHANGED <<io, stage, half, gone, outer, last_command, seq, signalled, result, failed, hasty, pipe_ok, acked,
                   run, aborts, lost>>

\* arygon_close says nothing to the reader; acr122s_close deactivates the SAM.
close ==
    /\ stage = "open" /\ pc = "idle" /\ ~gone
    /\ stage' = IF io = "arygon" THEN "closed" ELSE "closing"
    /\ UNCHANGED <<io, pc, me, half, gone, outer, last_command, seq, signalled, result, failed, hasty, pipe_ok, acked,
                   tx, wire, run, calls, aborts, lost>>

-----------------------------------------------------------------------------
(* arygon_tama_send and acr122s_send                                       *)

transceive(c) ==
    /\ stage = "open" /\ pc = "idle" /\ ~gone
    /\ hasty' = (hasty \/ ~Quiet)
    /\ flush_input(hasty')
    /\ calls < MaxCalls
    /\ Send(c)
    /\ tx' = Append(tx, Frame("request", me'))
    /\ UNCHANGED <<io, stage, half, gone, outer, last_command, seq, signalled, result, failed, pipe_ok, acked,
                   run, aborts, lost>>

\* mutant: the answer is waited for at once
recv_ack_MutSkipped ==
    /\ pc = "ack" /\ ~signalled
    /\ pc' = "receive" /\ last_command' = me.cmd
    /\ seq' = IF io = "acr122s" THEN (me.seq + 1) % SeqMod ELSE seq
    /\ acked' = acked \cup {me}
    /\ UNCHANGED <<io, wire, stage, me, half, gone, outer, signalled, result, failed, hasty, pipe_ok,
                   tx, run, calls, aborts, lost>>

\* The acknowledgement.  arygon_tama_send takes the notice that the reader did
\* not know the mode for a success, once it has read it to its end.
recv_ack ==
    /\ pc = "ack" /\ ~signalled /\ ~BadPipe /\ wire # <<>>
    /\ \/ /\ Head(wire).kind \in {"ack", "refused"}
          /\ wire' = Tail(wire)
          /\ pc' = "receive"
          /\ last_command' = me.cmd
          /\ seq' = IF io = "acr122s" THEN (me.seq + 1) % SeqMod ELSE seq
          /\ acked' = IF Head(wire) = Frame("ack", me) THEN acked \cup {me} ELSE acked
          /\ UNCHANGED <<stage, half, outer, signalled, result, failed>>
       \/ /\ Head(wire).kind \notin {"ack", "refused"}
          /\ wire' = <<Junk>> \o Tail(wire)
          /\ Return("EIO", Nil)
          /\ UNCHANGED <<last_command, seq, acked>>
    /\ UNCHANGED <<io, me, gone, hasty, pipe_ok, tx, run, calls, aborts, lost>>

-----------------------------------------------------------------------------
(* arygon_tama_receive, acr122s_recv_frame, arygon_reset_tama              *)

Accepts(f) ==
    /\ f.kind = "reply"
    /\ IF io = "acr122s" THEN (f.call.seq + 1) % SeqMod = seq
       ELSE IF me.cmd \in Raw THEN f.call.cmd = me.cmd
       ELSE f.call.cmd = last_command

\* Of an answer that is not the right one, or not whole, some bytes may be left.
\* The ARYGON's driver ends the process when they begin an extended frame.
receive ==
    /\ pc = "receive" /\ ~half /\ ~signalled /\ ~BadPipe /\ wire # <<>>
    /\ LET f == Head(wire) IN
         \/ /\ Accepts(f)
            /\ wire' = Tail(wire)
            /\ Return("payload", f.call)
            /\ UNCHANGED gone
         \/ /\ ~Accepts(f)
            /\ wire' \in {Tail(wire), <<Junk>> \o Tail(wire)}
            /\ \/ Return("EIO", Nil) /\ UNCHANGED gone
               \/ /\ io = "arygon" /\ me.cmd \notin Raw /\ f = Junk
                  /\ Return("exit", Nil)
                  /\ gone' = TRUE
    /\ UNCHANGED <<io, me, last_command, seq, hasty, pipe_ok, acked, tx, run, calls, aborts, lost>>

\* The rest of an answer has not come: the bytes of the next frame are taken for
\* it, and the checks fail.
receive_rest ==
    /\ pc = "receive" /\ half /\ ~signalled /\ ~BadPipe /\ wire # <<>>
    /\ wire' \in {Tail(wire), <<Junk>> \o Tail(wire)}
    /\ Return("EIO", Nil)
    /\ UNCHANGED <<io, me, gone, last_command, seq, hasty, pipe_ok, acked, tx, run, calls, aborts, lost>>

\* mutant: Diagnose, nested in an abort, waits without a time-out
timeout_MutNested ==
    /\ Busy /\ Timed /\ ~signalled /\ me.cmd # "Diagnose"
    /\ Return("ETIMEOUT", Nil)
    /\ UNCHANGED <<io, me, gone, last_command, seq, hasty, pipe_ok, acked, tx, wire, run, calls, aborts, lost>>

\* acr122s_receive returns -1, which is NFC_EIO, whatever went wrong.
timeout ==
    /\ Busy /\ Timed /\ ~signalled /\ ~BadPipe
    /\ Return(IF io = "acr122s" /\ pc = "receive" THEN "EIO" ELSE "ETIMEOUT", Nil)
    /\ UNCHANGED <<io, me, gone, last_command, seq, hasty, pipe_ok, acked, tx, wire, run, calls, aborts, lost>>

\* mutant: the ARYGON is not told
aborted_MutSilent ==
    /\ signalled
    /\ Return("EOPABORTED", Nil)
    /\ UNCHANGED <<io, me, gone, last_command, seq, hasty, pipe_ok, acked, tx, wire, run, calls, aborts, lost>>

\* The pipe was closed, and uart_receive closes the end it watched, by number.
\* acr122s_abort_command closes both ends before it makes the new pipe, so that
\* the number may by then be the new one's.  arygon_abort: the dummy packet, then
\* a transceive of Diagnose, whose own abort makes another.
aborted ==
    /\ signalled
    /\ \/ /\ io = "acr122s"
          /\ Return("EOPABORTED", Nil)
          /\ pipe_ok' \in BOOLEAN
          /\ UNCHANGED <<me, tx, wire, calls>>
       \/ /\ io = "arygon"
          /\ outer' = IF outer = Nil THEN me ELSE outer
          /\ Send("Diagnose")
          /\ flush_input(TRUE)
          /\ tx' = tx \o <<Frame("dummy", Nil), Frame("request", me')>>
          /\ signalled' = FALSE
          /\ UNCHANGED <<half, stage, pipe_ok, result, failed>>
    /\ UNCHANGED <<io, gone, last_command, seq, hasty, acked, run, aborts, lost>>

bad_pipe ==
    /\ BadPipe
    /\ Return("EIO", Nil)
    /\ UNCHANGED <<io, me, gone, last_command, seq, hasty, pipe_ok, acked, tx, wire, run, calls, aborts, lost>>

\* A read or a write on the port fails; a write that fails did not leave.
io_error ==
    /\ Busy /\ lost < MaxLost
    /\ lost' = lost + 1
    /\ tx' \in {tx} \cup (IF tx # <<>> /\ tx[Len(tx)] = Frame("request", me)
                          THEN {SubSeq(tx, 1, Len(tx) - 1)} ELSE {})
    /\ Return("EIO", Nil)
    /\ UNCHANGED <<io, me, gone, last_command, seq, hasty, pipe_ok, acked, wire, run, calls, aborts>>

\* arygon_abort_command and acr122s_abort_command, in another thread: the pipe
\* is closed and made anew.  The ARYGON's keeps the end that is watched, and a call
\* that waits sees it.  The ACR122S's closes both: select(), which watches by
\* number, may look again only when the number is the new pipe's, and see nothing.
abort_command ==
    /\ stage = "open" /\ ~gone /\ aborts < MaxAborts
    /\ aborts' = aborts + 1
    /\ \/ signalled' = (signalled \/ (Abortable /\ pipe_ok))
       \/ io = "acr122s" /\ UNCHANGED signalled
    /\ pipe_ok' = TRUE
    /\ UNCHANGED <<io, stage, pc, me, half, gone, outer, last_command, seq, result, failed, hasty, acked,
                   tx, wire, run, calls, lost>>

-----------------------------------------------------------------------------
(* The reader and the line                                                 *)

\* A request ends the command under way.  The dummy packet ends it without an
\* answer.  A byte received badly makes the ARYGON refuse the request.
reader_take ==
    /\ tx # <<>>
    /\ tx' = Tail(tx)
    /\ LET f == Head(tx) IN
         \/ /\ f.kind = "dummy"
            /\ run' = Nil
            /\ UNCHANGED <<wire, lost>>
         \/ /\ f.kind = "request"
            /\ run' = f.call
            /\ wire' = IF io = "arygon" /\ f.call.cmd \in Raw THEN wire
                       ELSE Append(wire, Frame("ack", f.call))
            /\ UNCHANGED lost
         \/ /\ f.kind = "request" /\ io = "arygon" /\ lost < MaxLost
            /\ lost' = lost + 1
            /\ wire' = Append(wire, Frame("refused", f.call))
            /\ UNCHANGED run
    /\ UNCHANGED <<io, host, half, gone, calls, aborts>>

reader_reply ==
    /\ run # Nil
    /\ wire' = Append(wire, Frame("reply", run))
    /\ run' = Nil
    /\ UNCHANGED <<io, host, half, gone, tx, calls, aborts, lost>>

lose ==
    /\ lost < MaxLost
    /\ lost' = lost + 1
    /\ \/ tx # <<>> /\ tx' = Tail(tx) /\ UNCHANGED wire
       \/ wire # <<>> /\ wire' \in {Tail(wire), <<Junk>> \o Tail(wire)} /\ UNCHANGED tx
    /\ UNCHANGED <<io, host, half, gone, run, calls, aborts>>

\* The end of an answer is lost, the first bytes of which are read.
cut_short ==
    /\ lost < MaxLost
    /\ lost' = lost + 1
    /\ pc = "receive" /\ ~half /\ ~signalled /\ ~BadPipe
    /\ wire # <<>> /\ Head(wire).kind = "reply"
    /\ wire' = Tail(wire)
    /\ half' = TRUE
    /\ UNCHANGED <<io, host, gone, tx, run, calls, aborts>>

Host == recv_ack \/ receive \/ receive_rest \/ timeout \/ aborted \/ bad_pipe
Next == open \/ stage_request \/ close \/ (\E c \in AppCmd : transceive(c)) \/ Host
        \/ io_error \/ abort_command \/ reader_take \/ reader_reply \/ lose \/ cut_short

Spec == Init /\ [][Next]_vars /\ WF_vars(Host) /\ WF_vars(reader_take)

-----------------------------------------------------------------------------
(* Properties                                                              *)

Foreign == result.outcome = "payload" /\ result.from # result.call

TypeOK ==
    /\ stage \in {"closed", "open"} \cup DOMAIN StageCmd
    /\ pc \in {"idle", "ack", "receive"} /\ (signalled => Busy)
    /\ half \in BOOLEAN /\ gone \in BOOLEAN
    /\ {me, outer, run} \subseteq Call \cup {Nil} /\ acked \subseteq Call
    /\ result \in [call : Call \cup {Nil}, outcome : Outcome, from : Call \cup {Nil}]
    /\ seq \in 0..SeqMod - 1

\* io->send flushes and waits for the acknowledgement.  It takes a call that failed
\* for another one to return an answer that is not its own, and one that has read
\* its own acknowledgement never does: whatever answers an earlier call comes before
\* it.  The caller cannot have let the line settle, unless a second fault made the
\* ARYGON refuse the request while a blocking command of before was still running.
ForeignNeedsHaste ==
    Foreign => /\ failed /\ result.call \notin acked
               /\ result.call.cmd \in AppCmd => hasty \/ (io = "arygon" /\ lost > 1)

\* arygon_abort: when an aborted call returns, the chip has dropped the command
\* or is about to, be the dummy packet or Diagnose lost (but not both).
AbortStopsCommand ==
    /\ TypeOK
    /\ io = "arygon" /\ pc = "idle" /\ result.outcome = "EOPABORTED" /\ run = result.call /\ lost <= 1 =>
        \E i \in 1..Len(tx) : tx[i].kind \in {"request", "dummy"}

\* nfc_abort_command: "attempt to abort the current running command", and that one
\* only.  A call without a time-out fails by itself only when something on the line
\* did, or when the line had not settled.
AbortsOneCall ==
    pc = "idle" /\ result.call.cmd \in Blocking /\ result.outcome = "EIO" => lost > 0 \/ hasty

\* A call with a time-out returns, or ends the process, whatever is lost of its
\* answer.  So does any call that sees an abort, with the transceive it makes before
\* it returns: on the ARYGON every call that waits for the first bytes of its answer
\* sees it; a blocking one that waits for the rest of one does not and may never return.
CallReturns ==
    \/ Busy /\ Timed /\ me.cmd \notin Raw
    \/ signalled
    ~> ~Busy
=============================================================================
