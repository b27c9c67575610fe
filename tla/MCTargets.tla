------------------------------ MODULE MCTargets ------------------------------
(* Up to three cards of one kind, of every layout, with all the chips; or the *)
(* clocks, around every time-out where the code for the chip changes; or      *)
(* frames of up to two groups of eight bytes and their parity bits.           *)
EXTENDS Targets, Timing, Framing
C(t, n, o, s) == [nmt |-> t, n |-> n, opt |-> o, seed |-> s]
MCOdd == {C("ISO14443BI", 4, 0, 10), C("ISO14443B2CT", 4, 0, 20)}
MCCard == {C("ISO14443A", 4, 0, 1), C("ISO14443A", 4, 0, 50), C("ISO14443A", 7, 2, 20), C("ISO14443A", 10, 0, 30),
           C("ISO14443B", 4, 0, 1), C("ISO14443B", 4, 1, 20), C("ISO14443B", 4, 0, 40), C("FELICA", 8, 0, 1), C("FELICA", 8, 2, 20),
           C("JEWEL", 4, 0, 1), C("ISO14443BI", 4, 0, 0), C("ISO14443BI", 4, 0, 9), C("ISO14443BI", 4, 1, 30),
           C("ISO14443B2SR", 8, 0, 0), C("ISO14443B2SR", 8, 0, 9), C("ISO14443B2CT", 4, 0, 9)} \cup MCOdd
MCFirmware == {<<4, 2>>, <<50, 1, 6, 7>>, <<50, 1, 4, 5>>, <<51, 2, 7, 7>>, <<51, 1, 5, 7>>}
MCMillis == {0, 1, 4, 103, 104, 1641, 5000}
VARIABLE part
MCInit == /\ part \in {"targets", "timing", "framing"}
          /\ TargetsInit /\ (part # "targets" => field = {} /\ chip = "PN531")
          /\ TimingInit
          /\ Init /\ (part # "framing" => szTxBits = 0 /\ bPar)
MCNext == \/ part = "targets" /\ TargetsNext /\ UNCHANGED <<part, timing_vars, vars>>
          \/ part = "timing" /\ TimingNext /\ UNCHANGED <<part, target_vars, vars>>
          \/ part = "framing" /\ Next /\ UNCHANGED <<part, target_vars, timing_vars>>
          \/ part = "framing" /\ pc = "done" /\ UNCHANGED <<part, target_vars, timing_vars, vars>>
=============================================================================
