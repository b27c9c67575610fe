-------------------------------- MODULE Timing --------------------------------
(***************************************************************************)
(* The clocks of the PN53x.  The time-outs of nfc_device_set_property_int, *)
(* which the chip is told as powers of two, and the timed exchanges, which *)
(* drive the radio through its registers: the answer collects in a FIFO    *)
(* that the host reads while the card may still be sending.                *)
(***************************************************************************)
EXTENDS Integers, Sequences, FiniteSets

CONSTANTS Millis,     \* time-outs a caller may ask for
          AnswerLens, \* lengths of the answer of the card
          FifoSize,   \* 64 bytes
          Uninit,     \* what a byte may be that was never assigned
          MaxCycles,  \* the largest time a caller wants to measure
          MaxLost     \* bound: failing exchanges

ASSUME TimingAssumption ==
    Millis \subseteq Nat /\ AnswerLens \subseteq Nat /\ FifoSize \in 0..127 /\ Uninit \subseteq 0..255 /\ MaxCycles \in Nat /\ MaxLost \in Nat

VARIABLES timeouts,      \* timeout_atr and timeout_communication
          told,          \* what the chip was told of them
          stage,         \* of the timed exchange
          total, sent,   \* length of the answer; bytes of it the chip received
          fifo, rx,      \* bytes in the chip, bytes the caller has
          sz, polls,
          early,         \* history: the FIFO was found empty before the end
          overrun,       \* history: a byte found it full
          lost

exchange == <<stage, total, sent, fifo, rx, sz, polls, early, overrun>>
timing_vars == <<timeouts, told, exchange, lost>>

Garbage == 0             \* what an empty FIFO gives; the answer is 1, 2, 3...

-----------------------------------------------------------------------------
(* Time-outs                                                               *)

\* pn53x_int_to_timeout: one less for every halving of 3280 ms that is not
\* exceeded, down to 3.
int_to_timeout(ms) == IF ms = 0 THEN 0 ELSE 16 - Cardinality({k \in 0..10 : ms <= 3280 \div 2^k})

\* mutant: RFConfiguration is given its two time-outs in the wrong order
Various_timings_MutSwapped(t) == [atr |-> int_to_timeout(t.com), com |-> int_to_timeout(t.atr)]

Various_timings(t) == [atr |-> int_to_timeout(t.atr), com |-> int_to_timeout(t.com)]

TimingInit ==
    /\ timeouts = [atr |-> 103, com |-> 52]              \* pn53x_data_new
    /\ told = [atr |-> 11, com |-> 10]                   \* as the chip starts
    /\ stage = "idle" /\ total = 0 /\ sent = 0 /\ fifo = <<>> /\ rx = <<>>
    /\ sz = 0 /\ polls = 0 /\ early = FALSE /\ overrun = FALSE /\ lost = 0

\* pn53x_set_property_int, NP_TIMEOUT_ATR and NP_TIMEOUT_COM.  The value is kept
\* even if the chip could not be told.
set_property_int(p, ms) ==
    /\ stage = "idle"
    /\ timeouts' = [timeouts EXCEPT ![p] = ms]
    /\ \/ told' = Various_timings(timeouts') /\ UNCHANGED lost
       \/ lost < MaxLost /\ lost' = lost + 1 /\ UNCHANGED told
    /\ UNCHANGED exchange

-----------------------------------------------------------------------------
(* pn53x_initiator_transceive_bytes_timed, and _bits_timed alike           *)

\* __pn53x_init_timer; the host looks as often for the first byte of an answer.
timer_prescaler == IF MaxCycles > 65535 THEN ((MaxCycles \div 65535) - 1) \div 2 ELSE 0
Polls == 3 * (timer_prescaler * 2 + 1)

\* The settings under which the two refuse at once
TimedCall == [bits : BOOLEAN, bPar : BOOLEAN, bEasyFraming : BOOLEAN, bCrc : BOOLEAN]
TimedRefuses(call) == ~call.bPar \/ call.bEasyFraming \/ (call.bits /\ call.bCrc)

\* One WriteRegister command empties and fills the FIFO and has the frame sent.
transceive_timed(n, call) ==
    /\ stage = "idle"
    /\ \/ ~TimedRefuses(call) /\ stage' = "poll" /\ UNCHANGED lost
       \/ ~TimedRefuses(call) /\ lost < MaxLost /\ lost' = lost + 1 /\ stage' = "error"
       \/ TimedRefuses(call) /\ stage' = "error" /\ UNCHANGED lost
    /\ total' = n /\ sent' = 0 /\ fifo' = <<>> /\ rx' = <<>> /\ polls' = 0 /\ sz' = 0
    /\ early' = FALSE /\ overrun' = FALSE
    /\ UNCHANGED <<timeouts, told>>

\* "we've to watch for coming data until we decide to timeout": nobody looks
\* whether the register was read.  If not even the first time, sz was never assigned.
poll_level ==
    /\ stage = "poll"
    /\ \/ sz' = Len(fifo) /\ UNCHANGED lost
       \/ lost < MaxLost /\ lost' = lost + 1 /\ sz' \in IF polls = 0 THEN Uninit ELSE {sz}
    /\ polls' = polls + 1
    /\ stage' = IF sz' > 0 \/ polls' = Polls THEN "data" ELSE "poll"
    /\ UNCHANGED <<timeouts, told, total, sent, fifo, rx, early, overrun>>

\* mutant: every burst is stored at the start of the buffer
read_data_MutStart ==
    /\ stage = "data"
    /\ rx' = [i \in 1..sz |-> IF i <= Len(fifo) THEN fifo[i] ELSE Garbage]
    /\ fifo' = SubSeq(fifo, sz + 1, Len(fifo))
    /\ stage' = "level"
    /\ UNCHANGED <<timeouts, told, total, sent, sz, polls, early, overrun, lost>>

\* One ReadRegister command reads sz bytes of the FIFO, of which sz & SYMBOL_FIFO_LEVEL
\* count (a command for more than 130 does not even fit its buffer), ...
read_data ==
    /\ stage = "data"
    /\ rx' = rx \o [i \in 1..sz % 128 |-> IF i <= Len(fifo) THEN fifo[i] ELSE Garbage]
    /\ fifo' = SubSeq(fifo, sz + 1, Len(fifo))
    /\ stage' = "level"
    /\ UNCHANGED <<timeouts, told, total, sent, sz, polls, early, overrun, lost>>

\* ... and then its level.  At 0 the answer is taken to be complete.
read_level ==
    /\ stage = "level"
    /\ sz' = Len(fifo)
    /\ stage' = IF sz' = 0 THEN "done" ELSE "data"
    /\ early' = (sz' = 0 /\ sent < total)
    /\ UNCHANGED <<timeouts, told, total, sent, fifo, rx, polls, overrun, lost>>

\* The command fails as a whole: the call does, and so does reading the timer.
read_error ==
    /\ stage \in {"data", "level"} /\ lost < MaxLost
    /\ lost' = lost + 1 /\ stage' = "error"
    /\ UNCHANGED <<timeouts, told, total, sent, fifo, rx, sz, polls, early, overrun>>

\* A byte of the answer arrives.
receive_byte ==
    /\ stage \in {"poll", "data", "level"} /\ sent < total
    /\ sent' = sent + 1
    /\ IF Len(fifo) < FifoSize THEN fifo' = Append(fifo, sent') /\ UNCHANGED overrun
       ELSE overrun' = TRUE /\ UNCHANGED fifo
    /\ UNCHANGED <<timeouts, told, stage, total, rx, sz, polls, early, lost>>

timed_return ==
    /\ stage \in {"done", "error"}
    /\ stage' = "idle" /\ total' = 0 /\ sent' = 0 /\ fifo' = <<>> /\ rx' = <<>> /\ sz' = 0 /\ polls' = 0
    /\ early' = FALSE /\ overrun' = FALSE
    /\ UNCHANGED <<timeouts, told, lost>>

TimingNext ==
    \/ \E p \in {"atr", "com"}, ms \in Millis : set_property_int(p, ms)
    \/ \E n \in AnswerLens, call \in TimedCall : transceive_timed(n, call)
    \/ poll_level \/ read_data \/ read_level \/ read_error \/ receive_byte \/ timed_return

TimingSpec == TimingInit /\ [][TimingNext]_timing_vars

-----------------------------------------------------------------------------
(* Properties                                                              *)

\* A timed exchange that succeeds gives the answer of the card in order, whole
\* unless the card was slower than the host or the FIFO ran over; bytes that are
\* not the card's, and a count that is not theirs, need a failed read of the level
\* that nobody looked at.
TimedAnswer ==
    stage = "done" /\ lost = 0 =>
      /\ ~overrun => rx = [i \in 1..Len(rx) |-> i]
      /\ Len(rx) < total => early \/ overrun

\* Each time-out is the chip's own, unless telling it failed: never longer than
\* asked but by the shortest step, and about half of it or more.
TimeoutsNear ==
    lost = 0 => \A p \in {"atr", "com"} :
      LET ms == timeouts[p]
          T == IF told[p] = 0 THEN 0 ELSE 2^(told[p] - 1)     \* in 100 us
      IN /\ T = 0 <=> ms = 0
         /\ T <= 10 * ms \/ T <= 16
         /\ ms <= 3280 => 2 * T + 100 >= 10 * ms
=============================================================================
