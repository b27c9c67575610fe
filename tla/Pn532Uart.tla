------------------------------ MODULE Pn532Uart ------------------------------
(***************************************************************************)
(* One PN532 on a serial line: pn53x_transceive over the driver            *)
(* pn532_uart.c and the bus uart_posix.c, with the chip and the line.      *)
(*                                                                         *)
(* A transceive discards the bytes that already arrived, wakes the chip up *)
(* if the host believes it asleep (out of low-VBat a nested transceive of  *)
(* SAMConfiguration follows), sends its frame, waits for the chip's ACK,   *)
(* then for the reply.  A wait may time out while the answer is still      *)
(* under way.  A second thread may abort the command through the pipe of   *)
(* pn532_uart_abort_command.                                               *)
(***************************************************************************)
EXTENDS Naturals, Sequences

CONSTANTS AppCmd,     \* commands the application sends
          MaxCalls,   \* bound: transceives of the application
          MaxAborts,  \* bound: calls of nfc_abort_command
          MaxLost,    \* bound: frames lost or damaged on the line
          Blocking    \* commands sent without a time-out (timeout = 0)

ASSUME LinkAssumption ==
    /\ AppCmd \subseteq {"Exchange", "TgInitAsTarget", "PowerDown"}
    /\ MaxCalls \in Nat /\ MaxAborts \in Nat /\ MaxLost \in Nat
    /\ Blocking \subseteq AppCmd

Cmd == AppCmd \cup {"SAMConfiguration"}
Call == [cmd : Cmd, id : 0..MaxCalls]
Nil == [cmd |-> "none", id |-> 0]
Frame == [kind : {"ack", "reply"}, call : Call] \cup [kind : {"junk"}, call : {Nil}]
Junk == [kind |-> "junk", call |-> Nil]
ToChip == [kind : {"frame"}, call : Call] \cup [kind : {"wake", "ack"}, call : {Nil}]
Wake == [kind |-> "wake", call |-> Nil]
Abort == [kind |-> "ack", call |-> Nil]
Command(c) == [kind |-> "frame", call |-> c]

VARIABLES power_mode,    \* what the host believes of the chip's power
          last_command,  \* command whose reply is expected
          stack,         \* transceives under way, innermost first
          pc,            \* where the innermost one stands
          result,        \* outcome of the application's last transceive
          failed,        \* history: some transceive has failed
          hasty,         \* history: a call began before the line had settled
          abort_pc,      \* pn532_uart_abort_command: before or after close()
          signalled,     \* the pipe the receiver waits on has been closed
          tx,            \* host to chip
          wire,          \* chip to host, arrived or under way
          chip,          \* power state, command being run
          calls, aborts, lost   \* counters against the bounds

hostVars == <<power_mode, last_command, stack, pc, result, failed, hasty>>
abortVars == <<abort_pc, aborts>>
vars == <<hostVars, abortVars, signalled, tx, wire, chip, calls, lost>>

Outcome == {"payload", "empty", "EIO", "ETIMEOUT", "ECHIP", "abort"}

TypeOK ==
    /\ power_mode \in {"NORMAL", "POWERDOWN", "LOWVBAT"}
    /\ last_command \in Cmd \cup {"none"}
    /\ stack \in Seq(Call) /\ Len(stack) <= 2
    /\ pc \in {"idle", "send", "frame", "ack", "receive", "rest", "crashed"}
    /\ result \in [call : Call \cup {Nil}, outcome : Outcome, from : Call \cup {Nil}]
    /\ failed \in BOOLEAN /\ hasty \in BOOLEAN
    /\ abort_pc \in {"idle", "closed"}
    /\ signalled \in BOOLEAN
    /\ tx \in Seq(ToChip)
    /\ wire \in Seq(Frame)
    /\ chip \in [power : {"awake", "down", "lowvbat", "woken"}, run : Call \cup {Nil}]
    /\ calls \in 0..MaxCalls /\ aborts \in 0..MaxAborts /\ lost \in 0..MaxLost

\* pn532_uart_open: the device starts in low-VBat mode.
Init ==
    /\ power_mode = "LOWVBAT"
    /\ last_command = "none"
    /\ stack = <<>>
    /\ pc = "idle"
    /\ result = [call |-> Nil, outcome |-> "empty", from |-> Nil]
    /\ failed = FALSE /\ hasty = FALSE
    /\ abort_pc = "idle" /\ signalled = FALSE
    /\ tx = <<>> /\ wire = <<>>
    /\ chip = [power |-> "lowvbat", run |-> Nil]
    /\ calls = 0 /\ aborts = 0 /\ lost = 0

Me == Head(stack)
Busy == pc \in {"send", "frame", "ack", "receive", "rest"}
HasTimeout == Me.cmd \notin Blocking

-----------------------------------------------------------------------------
(* The end of a transceive                                                 *)

\* The innermost transceive fails.  pn532_uart_send hands the failure of the
\* nested SAMConfiguration to its own caller, so the whole stack unwinds.
Fails(err) ==
    /\ pc' = "idle"
    /\ stack' = <<>>
    /\ result' = [call |-> stack[Len(stack)], outcome |-> err, from |-> Nil]
    /\ failed' = TRUE

\* mutant: the power mode is not updated after PowerDown
Succeeds_MutPowerDownForgotten(outcome, f) ==
    /\ IF Len(stack) = 2
         THEN pc' = "frame" /\ stack' = Tail(stack) /\ UNCHANGED result
         ELSE /\ pc' = "idle"
              /\ stack' = <<>>
              /\ result' = [call |-> Me, outcome |-> outcome, from |-> f.call]
    /\ power_mode' = IF Me.cmd = "TgInitAsTarget" THEN "NORMAL" ELSE power_mode
    /\ UNCHANGED failed

\* It succeeds with the frame f, or with no bytes at all after an abort.  The
\* transceive of TgInitAsTarget then takes the chip for awake, and PowerDown
\* for asleep.  A nested call gives way to the send that needed it.
Succeeds(outcome, f) ==
    /\ IF Len(stack) = 2
         THEN pc' = "frame" /\ stack' = Tail(stack) /\ UNCHANGED result
         ELSE /\ pc' = "idle"
              /\ stack' = <<>>
              /\ result' = [call |-> Me, outcome |-> outcome, from |-> f.call]
    /\ power_mode' = CASE Me.cmd = "TgInitAsTarget" -> "NORMAL"
                       [] Me.cmd = "PowerDown" -> "LOWVBAT"
                       [] OTHER -> power_mode
    /\ UNCHANGED failed

-----------------------------------------------------------------------------
(* pn532_uart_send                                                         *)

\* The chip has nothing left to do or to say, but for a target that waits.
Quiet == tx = <<>> /\ (chip.run = Nil \/ chip.run.cmd = "TgInitAsTarget")

transceive(c) ==
    /\ pc = "idle"
    /\ calls < MaxCalls
    /\ hasty' = (hasty \/ ~Quiet)
    /\ calls' = calls + 1
    /\ stack' = <<[cmd |-> c, id |-> calls + 1]>>
    /\ pc' = "send"
    /\ UNCHANGED <<power_mode, last_command, result, failed, abortVars, signalled, tx, wire, chip, lost>>

\* mutant: the byte-eater reads nothing
flush_input_MutNone == UNCHANGED wire

\* uart_flush_input drops the bytes that have arrived.  While others are still
\* under way it may cut a frame.
flush_input ==
    \/ wire' = <<>>
    \/ /\ hasty \/ pc \in {"receive", "rest"}
       /\ \E k \in 0..Len(wire) :
            LET rest == SubSeq(wire, k + 1, Len(wire)) IN
              wire' \in {rest} \cup (IF rest = <<>> THEN {} ELSE {<<Junk>> \o Tail(rest)})

\* mutant: the host takes the chip for awake only once the wake-up has succeeded
send_MutLateNormal ==
    /\ pc = "send"
    /\ flush_input
    /\ IF power_mode = "LOWVBAT"
         THEN /\ tx' = Append(tx, Wake)
              /\ stack' = <<[cmd |-> "SAMConfiguration", id |-> Me.id]>> \o stack
              /\ UNCHANGED <<pc, power_mode>>
         ELSE /\ tx' = Append(tx, Command(Me))
              /\ pc' = "ack"
              /\ power_mode' = "NORMAL"
              /\ UNCHANGED stack
    /\ UNCHANGED <<hasty, last_command, result, failed, abortVars, signalled, chip, calls, lost>>

send ==
    /\ pc = "send"
    /\ flush_input
    /\ CASE power_mode = "LOWVBAT" ->
              /\ tx' = Append(tx, Wake)
              /\ stack' = <<[cmd |-> "SAMConfiguration", id |-> Me.id]>> \o stack
              /\ pc' = "send"
         [] power_mode = "POWERDOWN" ->
              /\ tx' = tx \o <<Wake, Command(Me)>>
              /\ pc' = "ack"
              /\ UNCHANGED stack
         [] power_mode = "NORMAL" ->
              /\ tx' = Append(tx, Command(Me))
              /\ pc' = "ack"
              /\ UNCHANGED stack
    /\ power_mode' = "NORMAL"
    /\ UNCHANGED <<hasty, last_command, result, failed, abortVars, signalled, chip, calls, lost>>

\* The chip left low-VBat mode: the frame follows.
send_frame ==
    /\ pc = "frame"
    /\ tx' = Append(tx, Command(Me))
    /\ pc' = "ack"
    /\ UNCHANGED <<hasty, power_mode, last_command, stack, result, failed, abortVars, signalled, wire, chip, calls, lost>>

\* The six bytes of the ACK are read.  pn53x_transceive then records the
\* command, and enters the receiver, which picks the pipe as it is now.
recv_ack ==
    /\ pc = "ack"
    /\ wire # <<>>
    /\ IF Head(wire).kind = "ack"
         THEN /\ wire' = Tail(wire)
              /\ last_command' = Me.cmd
              /\ power_mode' = IF Me.cmd = "TgInitAsTarget" THEN "POWERDOWN" ELSE power_mode
              /\ pc' = "receive"
              /\ signalled' = (abort_pc = "closed")
              /\ UNCHANGED <<stack, result, failed>>
         ELSE /\ wire' \in {Tail(wire), <<Junk>> \o Tail(wire)}
              /\ Fails("EIO")
              /\ UNCHANGED <<last_command, power_mode, signalled>>
    /\ UNCHANGED <<hasty, abortVars, tx, chip, calls, lost>>

\* mutant: the wait for the ACK has no time-out
timeout_MutReplyOnly ==
    /\ pc = "receive"
    /\ HasTimeout
    /\ ~signalled
    /\ Fails("ETIMEOUT")
    /\ flush_input
    /\ UNCHANGED <<hasty, power_mode, last_command, abortVars, signalled, tx, chip, calls, lost>>

\* select() times out, in the wait for the ACK, for the reply or for the rest of
\* it.  The pipe is watched only until the reply begins.
timeout ==
    /\ pc \in {"ack", "receive", "rest"}
    /\ HasTimeout
    /\ ~signalled
    /\ Fails("ETIMEOUT")
    /\ IF pc # "ack" THEN flush_input ELSE UNCHANGED wire
    /\ UNCHANGED <<hasty, power_mode, last_command, abortVars, signalled, tx, chip, calls, lost>>

-----------------------------------------------------------------------------
(* pn532_uart_receive                                                      *)

\* mutant: the command code of the reply is not verified
receive_MutUnverified ==
    /\ pc = "receive"
    /\ ~signalled
    /\ wire # <<>>
    /\ wire' = Tail(wire)
    /\ Succeeds("payload", Head(wire))
    /\ UNCHANGED <<hasty, last_command, abortVars, signalled, tx, chip, calls, lost>>

\* The reply is read in pieces, and only the wait for the first five bytes watches
\* the pipe.  When the first bytes of a damaged frame are right and the rest of it
\* is missing, the call waits for that.
receive ==
    /\ pc = "receive"
    /\ ~signalled
    /\ wire # <<>>
    /\ LET f == Head(wire) IN
         \/ /\ f.kind = "reply" /\ f.call.cmd = last_command
            /\ wire' = Tail(wire)
            /\ Succeeds("payload", f)
         \/ /\ ~(f.kind = "reply" /\ f.call.cmd = last_command)
            /\ Fails("EIO")
            /\ flush_input
            /\ UNCHANGED power_mode
         \/ /\ f.kind = "junk"
            /\ wire' = Tail(wire)
            /\ pc' = "rest"
            /\ UNCHANGED <<stack, result, failed, power_mode>>
    /\ UNCHANGED <<hasty, last_command, abortVars, signalled, tx, chip, calls, lost>>

\* The bytes of the next frame are taken for the rest, and the checks fail.
receive_rest ==
    /\ pc = "rest"
    /\ wire # <<>>
    /\ Fails("EIO")
    /\ flush_input
    /\ UNCHANGED <<hasty, power_mode, last_command, abortVars, signalled, tx, chip, calls, lost>>

\* With no bytes received pn53x_transceive takes the status byte from a buffer
\* nobody wrote: it reads as success, as an error, or as one of the flags on
\* which the library calls abort().
StatusByte == {"Exchange", "PowerDown"}
GarbageStatus ==
    /\ \E o \in {"ECHIP", "abort"} :
         /\ pc' = IF o = "abort" THEN "crashed" ELSE "idle"
         /\ result' = [call |-> Me, outcome |-> o, from |-> Nil]
    /\ stack' = <<>>
    /\ failed' = TRUE
    /\ power_mode' = IF power_mode = "POWERDOWN" THEN "NORMAL" ELSE power_mode

\* mutant: the abort pipe is watched only when there is a time-out
receive_aborted_MutTimedOnly ==
    /\ pc = "receive"
    /\ signalled
    /\ HasTimeout
    /\ tx' = Append(tx, Abort)
    /\ signalled' = FALSE
    /\ Succeeds("empty", [call |-> Nil])
    /\ UNCHANGED <<hasty, last_command, abortVars, wire, chip, calls, lost>>

\* The pipe was closed: pn532_uart_ack wakes the chip if it must, sends the
\* ACK that makes it drop the command, and its own success is returned.
receive_aborted ==
    /\ pc = "receive"
    /\ signalled
    /\ tx' = tx \o (IF power_mode = "POWERDOWN" THEN <<Wake, Abort>> ELSE <<Abort>>)
    /\ signalled' = FALSE
    /\ \/ Succeeds("empty", [call |-> Nil])
       \/ Me.cmd \in StatusByte /\ GarbageStatus
    /\ UNCHANGED <<hasty, last_command, abortVars, wire, chip, calls, lost>>

\* A read or a write on the port fails.  pn532_uart_wakeup takes the chip for
\* awake even then.
io_error ==
    /\ Busy
    /\ lost < MaxLost
    /\ lost' = lost + 1
    /\ Fails("EIO")
    /\ IF pc \in {"send", "rest"} \/ (pc = "receive" /\ ~signalled) THEN flush_input ELSE UNCHANGED wire
    /\ power_mode' = IF pc = "send" \/ (pc = "receive" /\ signalled) THEN "NORMAL" ELSE power_mode
    /\ tx' \in {tx} \cup (IF power_mode' # power_mode THEN {Append(tx, Wake)} ELSE {})
    /\ signalled' = FALSE
    /\ UNCHANGED <<hasty, last_command, abortVars, chip, calls>>

-----------------------------------------------------------------------------
(* pn532_uart_abort_command, in another thread                             *)

abort_close ==
    /\ abort_pc = "idle"
    /\ aborts < MaxAborts
    /\ aborts' = aborts + 1
    /\ abort_pc' = "closed"
    /\ signalled' = (signalled \/ pc = "receive")
    /\ UNCHANGED <<hostVars, tx, wire, chip, calls, lost>>

abort_pipe ==
    /\ abort_pc = "closed"
    /\ abort_pc' = "idle"
    /\ UNCHANGED <<hostVars, aborts, signalled, tx, wire, chip, calls, lost>>

-----------------------------------------------------------------------------
(* The chip and the line                                                   *)

\* The chip takes what the host sent.  Asleep it hears only a wake-up; out of
\* low-VBat it accepts nothing but SAMConfiguration.  A new frame, or an ACK,
\* ends the command it was running.
chip_take ==
    /\ tx # <<>>
    /\ tx' = Tail(tx)
    /\ LET f == Head(tx) IN
         \/ /\ f.kind = "wake"
            /\ chip' = [chip EXCEPT !.power = CASE @ = "down" -> "awake"
                                                [] @ = "lowvbat" -> "woken"
                                                [] OTHER -> @]
            /\ UNCHANGED wire
         \/ /\ f.kind = "ack"
            /\ chip' = [chip EXCEPT !.run = IF chip.power = "awake" THEN Nil ELSE @]
            /\ UNCHANGED wire
         \/ /\ f.kind = "frame"
            /\ chip.power = "awake" \/ (chip.power = "woken" /\ f.call.cmd = "SAMConfiguration")
            /\ chip' = [power |-> IF f.call.cmd = "TgInitAsTarget" THEN "down" ELSE chip.power,
                        run |-> f.call]
            /\ wire' = Append(wire, [kind |-> "ack", call |-> f.call])
         \/ /\ f.kind = "frame"
            /\ ~(chip.power = "awake" \/ (chip.power = "woken" /\ f.call.cmd = "SAMConfiguration"))
            /\ UNCHANGED <<chip, wire>>
    /\ UNCHANGED <<hostVars, abortVars, signalled, calls, lost>>

\* The command ends with a reply; TgInitAsTarget when a reader's field comes.
chip_reply ==
    /\ chip.run # Nil
    /\ wire' = Append(wire, [kind |-> "reply", call |-> chip.run])
    /\ chip' = [power |-> IF chip.run.cmd = "PowerDown" THEN "lowvbat" ELSE "awake",
                run |-> Nil]
    /\ UNCHANGED <<hostVars, abortVars, signalled, tx, calls, lost>>

\* A frame is lost, in either direction, or reaches the host damaged.
lose ==
    /\ lost < MaxLost
    /\ lost' = lost + 1
    /\ \/ tx # <<>> /\ tx' = Tail(tx) /\ UNCHANGED wire
       \/ wire # <<>> /\ wire' \in {Tail(wire), <<Junk>> \o Tail(wire)} /\ UNCHANGED tx
    /\ UNCHANGED <<hostVars, abortVars, signalled, chip, calls>>

Host == send \/ send_frame \/ recv_ack \/ timeout \/ receive \/ receive_rest \/ receive_aborted
Chip == chip_take \/ chip_reply

Next == (\E c \in AppCmd : transceive(c)) \/ Host \/ io_error \/ Chip \/ lose \/ abort_close \/ abort_pipe

Spec == Init /\ [][Next]_vars
FairSpec == Spec /\ WF_vars(Host) /\ WF_vars(chip_take) /\ WF_vars(abort_pipe)

-----------------------------------------------------------------------------
(* Properties                                                              *)

\* A transceive that returns bytes returns the chip's answer to that very
\* call, never a late answer to an earlier call that had timed out.
OwnReply == result.outcome = "payload" => result.from = result.call

\* pn53x_transceive: it takes both a call that failed or was aborted and a caller
\* that did not let the line settle after it for a later call to return an answer
\* that is not its own.
StaleNeedsHaste == OwnReply \/ (hasty /\ (failed \/ aborts > 0))

\* pn532_uart_wakeup: "PN532 should now be awake".  Between two calls, a chip
\* the host believes in normal mode takes commands, or is about to.
NormalMeansAwake ==
    pc = "idle" /\ power_mode = "NORMAL" =>
        chip.power = "awake" \/ \E i \in 1..Len(tx) : tx[i].kind = "wake"

\* The power mode the host keeps is right as long as nothing fails and nothing
\* is aborted: the chip is not asleep behind its back.
AwakeUnlessFailed == TypeOK /\ (~failed /\ aborts = 0 => NormalMeansAwake)

\* A call with a time-out always returns.
CallReturns == (Busy /\ stack[Len(stack)].cmd \notin Blocking) ~> ~Busy

\* pn532_uart_receive: an abort made while a call waits for the first bytes of its
\* reply ends that call, however long it would have blocked.  Nothing is promised of
\* an abort that comes before that wait, or once the reply broke off after its first
\* bytes (pc = "rest"): nobody watches the pipe then.
AbortUnblocks == (abort_pc = "closed" /\ pc = "receive" /\ Len(stack) = 1) ~> ~Busy
=============================================================================
