--------------------------- MODULE SettingsProofs ---------------------------
(***************************************************************************)
(* The flags of a device agree with its chip through every failure, for    *)
(* any set of observed symbols and any register width.                     *)
(***************************************************************************)
EXTENDS Settings, Integers, TLAPS

-----------------------------------------------------------------------------
(* The inductive invariant                                                 *)

\* The steps a call is made of.  Only NP_AUTO_ISO14443_4 touches AUTO_RATS.
StepSet == {s \in [op : {"set", "param", "reset", "send", "try", "frame", "txbits", "SetParameters"},
                   p : Property \cup Param \cup {"none", "firmware", "command", "bytes", "bits", "rcc",
                                                 "level", "fifo", "timer"},
                   b : BOOLEAN] :
              s.op = "param" => s.p \in Param \ {"AUTO_RATS"}}

\* t is what is left of the call s.
Suffix(t, s) == Len(t) <= Len(s) /\ \A i \in 1..Len(t) : t[i] = s[Len(s) - Len(t) + i]

Agree(r, v) == mem[r] \ doubt[r] = v \ doubt[r]
CrcMatch == \A r \in Reg \cap {"TxCrc", "RxCrc"} : Agree(r, On(bCrc))
ParMatch == \A r \in Reg \cap {"ParityDisable"} : Agree(r, On(~bPar))
BitsAgree == \A r \in Reg \cap {"TxLastBits"} : Agree(r, ui8TxBits)
BitsMatch == rawBits \/ BitsAgree
AutoMatch ==
    /\ bAutoIso14443_4 => "AUTO_RATS" \in parameters
    /\ autoSet /\ ~bAutoIso14443_4 => "AUTO_RATS" \notin parameters

Flagged == {"TxCrc", "RxCrc", "ParityDisable", "TxLastBits"}

\* nfc_open is under way.
Opening == open /\ call.name = "open" /\ todo # <<>>

TodoOK ==
    /\ todo \in Seq(StepSet)
    /\ ~open => todo = <<>>
    /\ call.name = "open" => Suffix(todo, pn53x_init)
    /\ call.name = "initiator_init" => Suffix(todo, nfc_initiator_init)

\* Until pn53x_init comes to its reset, the cleared flags make it write every
\* symbol.
OpeningOK ==
    Opening =>
        /\ ~failed /\ ~blind /\ ~bCrc /\ ~bPar /\ ~bAutoIso14443_4 /\ ~autoSet
        /\ Len(todo) = 1 => ui8Parameters = parameters

\* An open function that did not see pn53x_init fail leaves the flags cleared;
\* one that is set has been set by a write.
BlindOK == open /\ blind => failed /\ (bCrc => CrcMatch) /\ (bPar => ParMatch)

SettledOK ==
    open /\ ~blind /\ ~Opening =>
        /\ CrcMatch /\ ParMatch /\ BitsMatch
        /\ ~failed => /\ ui8Parameters = parameters
                      /\ AutoMatch
                      /\ \A r \in Reg \cap Flagged : doubt[r] = {}

\* What each step of nfc_initiator_init leaves for its end.
Cleared(rs) == \A r \in Reg \cap rs : mem[r] = {}
Progress(n) ==
    /\ n < 6 => bAutoIso14443_4
    /\ n < 5 => Cleared({"TxFraming", "RxFraming"})
    /\ n < 4 => Cleared({"TxSpeed", "RxSpeed"})
    /\ n < 3 => Cleared({"RxNoError"})
    /\ n < 2 => Cleared({"RxMultiple"})
    /\ n < 1 => /\ Cleared({"Crypto1", "ParityDisable"}) /\ bEasyFraming
                /\ \A r \in Reg \cap {"TxCrc", "RxCrc"} : mem[r] = Bit
InitiatorProgress == open /\ call.name = "initiator_init" /\ ~failed => Progress(Len(todo))

SettingsInv ==
    /\ TypeOK
    /\ TodoOK
    /\ OpeningOK
    /\ BlindOK
    /\ SettledOK
    /\ InitiatorProgress
    /\ ReopenHeals

-----------------------------------------------------------------------------
(* The steps of a call                                                     *)

LEMMA StepIn ==
    /\ \A p \in Property, b \in BOOLEAN : Set(p, b) \in StepSet
    /\ \A p \in Param \ {"AUTO_RATS"}, b \in BOOLEAN : Parameter(p, b) \in StepSet
    /\ Reset \in StepSet
    /\ \A p \in {"firmware", "command", "bytes", "bits", "rcc", "fifo"} : Send(p) \in StepSet
    /\ \A p \in {"level", "timer"} : Try(p) \in StepSet
    /\ \A p \in {"bytes", "bits"} : Frame(p) \in StepSet
    /\ \A p \in {"bytes", "bits"} : [op |-> "txbits", p |-> p, b |-> TRUE] \in StepSet
    /\ [op |-> "SetParameters", p |-> "none", b |-> TRUE] \in StepSet
  BY DEF Set, Parameter, Reset, Send, Try, Frame, StepSet, Property, Param

LEMMA SuffixTail ==
    ASSUME NEW S, NEW t \in Seq(S), NEW s \in Seq(S), Suffix(t, s), t # <<>>
    PROVE  /\ Suffix(Tail(t), s)
           /\ Tail(t) \in Seq(S) /\ Len(Tail(t)) = Len(t) - 1
           /\ Head(t) \in S /\ Head(t) = s[Len(s) - Len(t) + 1]
           /\ Len(t) \in 1..Len(s)
  BY DEF Suffix

LEMMA SuffixEmpty ==
    ASSUME NEW S, NEW s \in Seq(S)
    PROVE  Suffix(<<>>, s) /\ Suffix(s, s)
  BY DEF Suffix

LEMMA OpenSteps ==
    /\ pn53x_init \in Seq(StepSet) /\ Len(pn53x_init) = 3
    /\ pn53x_init[1] = Send("firmware")
    /\ pn53x_init[2] = [op |-> "SetParameters", p |-> "none", b |-> TRUE]
    /\ pn53x_init[3] = Reset
  <1>1. Send("firmware") \in StepSet /\ [op |-> "SetParameters", p |-> "none", b |-> TRUE] \in StepSet
        /\ Reset \in StepSet
    BY StepIn
  <1>2. QED
    BY <1>1 DEF pn53x_init

LEMMA InitiatorSteps ==
    /\ nfc_initiator_init \in Seq(StepSet) /\ Len(nfc_initiator_init) = 9
    /\ nfc_initiator_init[1] = Set("FIELD", FALSE)
    /\ nfc_initiator_init[2] = Set("FIELD", TRUE)
    /\ nfc_initiator_init[3] = Set("INFINITE_SELECT", TRUE)
    /\ nfc_initiator_init[4] = Set("AUTO_ISO14443_4", TRUE)
    /\ nfc_initiator_init[5] = Set("FORCE_A", TRUE)
    /\ nfc_initiator_init[6] = Set("FORCE_106", TRUE)
    /\ nfc_initiator_init[7] = Set("INVALID_FRAMES", FALSE)
    /\ nfc_initiator_init[8] = Set("MULTIPLE_FRAMES", FALSE)
    /\ nfc_initiator_init[9] = Reset
  <1>1. /\ Set("FIELD", FALSE) \in StepSet /\ Set("FIELD", TRUE) \in StepSet
        /\ Set("INFINITE_SELECT", TRUE) \in StepSet /\ Set("AUTO_ISO14443_4", TRUE) \in StepSet
        /\ Set("FORCE_A", TRUE) \in StepSet /\ Set("FORCE_106", TRUE) \in StepSet
        /\ Set("INVALID_FRAMES", FALSE) \in StepSet /\ Set("MULTIPLE_FRAMES", FALSE) \in StepSet
        /\ Reset \in StepSet
    BY StepIn DEF Property
  <1>2. nfc_initiator_init \in Seq(StepSet)
    BY <1>1 DEF nfc_initiator_init, Set
  <1>3. Len(nfc_initiator_init) = 9
    BY DEF nfc_initiator_init
  <1>4. QED
    BY <1>2, <1>3 DEF nfc_initiator_init

LEMMA TargetSteps ==
    ASSUME NEW kind \in {"14443_4", "14443_3", "felica", "dep"}
    PROVE  nfc_target_init(kind) \in Seq(StepSet)
  <1>1. nfc_target_init_params(kind) \in Seq(StepSet)
    <2>1. /\ Parameter("AUTO_ATR_RES", FALSE) \in StepSet /\ Parameter("AUTO_ATR_RES", TRUE) \in StepSet
          /\ Parameter("14443_4_PICC", FALSE) \in StepSet /\ Parameter("14443_4_PICC", TRUE) \in StepSet
      BY StepIn DEF Param
    <2>2. CASE kind = "14443_4"
      BY <2>1, <2>2 DEF nfc_target_init_params, Parameter
    <2>3. CASE kind = "14443_3"
      BY <2>1, <2>3 DEF nfc_target_init_params, Parameter
    <2>4. CASE kind = "felica"
      BY <2>1, <2>4 DEF nfc_target_init_params, Parameter
    <2>5. CASE kind = "dep"
      BY <2>1, <2>5 DEF nfc_target_init_params, Parameter
    <2>6. QED
      BY <2>2, <2>3, <2>4, <2>5
  <1> DEFINE settings == <<Set("INVALID_FRAMES", FALSE), Set("MULTIPLE_FRAMES", FALSE), Set("CRC", TRUE),
                           Set("PARITY", TRUE), Set("AUTO_ISO14443_4", TRUE), Set("EASY_FRAMING", TRUE),
                           Set("CRYPTO1", FALSE), Set("FIELD", FALSE), Reset>>
  <1>2. settings \in Seq(StepSet)
    <2>1. /\ Set("INVALID_FRAMES", FALSE) \in StepSet /\ Set("MULTIPLE_FRAMES", FALSE) \in StepSet
          /\ Set("CRC", TRUE) \in StepSet /\ Set("PARITY", TRUE) \in StepSet
          /\ Set("AUTO_ISO14443_4", TRUE) \in StepSet /\ Set("EASY_FRAMING", TRUE) \in StepSet
          /\ Set("CRYPTO1", FALSE) \in StepSet /\ Set("FIELD", FALSE) \in StepSet /\ Reset \in StepSet
      BY StepIn DEF Property
    <2>2. QED
      BY <2>1 DEF Set
  <1>3. <<Send("command")>> \in Seq(StepSet)
    <2>1. Send("command") \in StepSet
      BY StepIn
    <2>2. QED
      BY <2>1
  <1>4. nfc_target_init(kind) = settings \o nfc_target_init_params(kind) \o <<Send("command")>>
    BY DEF nfc_target_init
  <1> HIDE DEF settings
  <1>5. settings \o nfc_target_init_params(kind) \in Seq(StepSet)
    BY <1>1, <1>2
  <1>6. QED
    BY <1>3, <1>4, <1>5

LEMMA UpTo3 ==
    ASSUME NEW n \in Nat, 1 <= n, n <= 3
    PROVE  n = 1 \/ n = 2 \/ n = 3
  OBVIOUS

LEMMA UpTo9 ==
    ASSUME NEW n \in Nat, 1 <= n, n <= 9
    PROVE  n = 1 \/ n = 2 \/ n = 3 \/ n = 4 \/ n = 5 \/ n = 6 \/ n = 7 \/ n = 8 \/ n = 9
  OBVIOUS

\* The step of nfc_open, or of nfc_initiator_init, that has so many steps left.
LEMMA OpeningStep ==
    ASSUME TodoOK, call.name = "open", todo # <<>>
    PROVE  /\ Len(todo) \in Nat /\ 1 <= Len(todo) /\ Len(todo) <= 3
           /\ Step.op = "reset" <=> Len(todo) = 1
           /\ Step.op = "SetParameters" <=> Len(todo) = 2
           /\ Step.op = "send" <=> Len(todo) = 3
  <1>1. todo \in Seq(StepSet) /\ Suffix(todo, pn53x_init)
    BY DEF TodoOK
  <1>2. Len(todo) \in Nat /\ 1 <= Len(todo) /\ Len(todo) <= 3 /\ Step = pn53x_init[3 - Len(todo) + 1]
    <2>1. Len(todo) \in Nat /\ 1 <= Len(todo) /\ Step = todo[1]
      BY <1>1 DEF Step
    <2>2. Len(todo) <= 3 /\ \A i \in 1..Len(todo) : todo[i] = pn53x_init[3 - Len(todo) + i]
      BY <1>1, OpenSteps DEF Suffix
    <2>3. 1 \in 1..Len(todo)
      BY <2>1
    <2>4. todo[1] = pn53x_init[3 - Len(todo) + 1]
      BY <2>2, <2>3
    <2>5. Len(todo) \in Nat /\ 1 <= Len(todo) /\ Len(todo) <= 3
      BY <1>1, <2>1, <2>2
    <2>6. QED
      BY <2>1, <2>4, <2>5
  <1>3. Len(todo) = 1 \/ Len(todo) = 2 \/ Len(todo) = 3
    BY <1>2, UpTo3
  <1>4. CASE Len(todo) = 1
    BY <1>2, <1>4, OpenSteps DEF Reset
  <1>5. CASE Len(todo) = 2
    BY <1>2, <1>5, OpenSteps
  <1>6. CASE Len(todo) = 3
    BY <1>2, <1>6, OpenSteps DEF Send
  <1>7. QED
    BY <1>2, <1>3, <1>4, <1>5, <1>6

LEMMA InitiatorStep ==
    ASSUME TodoOK, call.name = "initiator_init", todo # <<>>
    PROVE  /\ Len(todo) \in Nat /\ 1 <= Len(todo) /\ Len(todo) <= 9
           /\ Len(todo) = 9 => Step = Set("FIELD", FALSE)
           /\ Len(todo) = 8 => Step = Set("FIELD", TRUE)
           /\ Len(todo) = 7 => Step = Set("INFINITE_SELECT", TRUE)
           /\ Len(todo) = 6 => Step = Set("AUTO_ISO14443_4", TRUE)
           /\ Len(todo) = 5 => Step = Set("FORCE_A", TRUE)
           /\ Len(todo) = 4 => Step = Set("FORCE_106", TRUE)
           /\ Len(todo) = 3 => Step = Set("INVALID_FRAMES", FALSE)
           /\ Len(todo) = 2 => Step = Set("MULTIPLE_FRAMES", FALSE)
           /\ Len(todo) = 1 => Step = Reset
  <1>1. todo \in Seq(StepSet) /\ Suffix(todo, nfc_initiator_init)
    BY DEF TodoOK
  <1>2. Len(todo) \in Nat /\ 1 <= Len(todo) /\ Len(todo) <= 9 /\ Step = nfc_initiator_init[9 - Len(todo) + 1]
    <2>1. Len(todo) \in Nat /\ 1 <= Len(todo) /\ Step = todo[1]
      BY <1>1 DEF Step
    <2>2. Len(todo) <= 9 /\ \A i \in 1..Len(todo) : todo[i] = nfc_initiator_init[9 - Len(todo) + i]
      BY <1>1, InitiatorSteps DEF Suffix
    <2>3. 1 \in 1..Len(todo)
      BY <2>1
    <2>4. todo[1] = nfc_initiator_init[9 - Len(todo) + 1]
      BY <2>2, <2>3
    <2>5. Len(todo) \in Nat /\ 1 <= Len(todo) /\ Len(todo) <= 9
      BY <1>1, <2>1, <2>2
    <2>6. QED
      BY <2>1, <2>4, <2>5
  <1>3. \/ Len(todo) = 1 \/ Len(todo) = 2 \/ Len(todo) = 3 \/ Len(todo) = 4 \/ Len(todo) = 5
        \/ Len(todo) = 6 \/ Len(todo) = 7 \/ Len(todo) = 8 \/ Len(todo) = 9
    BY <1>2, UpTo9
  <1>4. CASE Len(todo) = 1
    BY <1>2, <1>4, InitiatorSteps
  <1>5. CASE Len(todo) = 2
    BY <1>2, <1>5, InitiatorSteps DEF Set
  <1>6. CASE Len(todo) = 3
    BY <1>2, <1>6, InitiatorSteps DEF Set
  <1>7. CASE Len(todo) = 4
    BY <1>2, <1>7, InitiatorSteps DEF Set
  <1>8. CASE Len(todo) = 5
    BY <1>2, <1>8, InitiatorSteps DEF Set
  <1>9. CASE Len(todo) = 6
    BY <1>2, <1>9, InitiatorSteps DEF Set
  <1>10. CASE Len(todo) = 7
    BY <1>2, <1>10, InitiatorSteps DEF Set
  <1>11. CASE Len(todo) = 8
    BY <1>2, <1>11, InitiatorSteps DEF Set
  <1>12. CASE Len(todo) = 9
    BY <1>2, <1>12, InitiatorSteps DEF Set
  <1>13. QED
    BY <1>2, <1>3, <1>4, <1>5, <1>6, <1>7, <1>8, <1>9, <1>10, <1>11, <1>12

LEMMA InitiatorOps ==
    ASSUME TodoOK, call.name = "initiator_init", todo # <<>>
    PROVE  /\ Step.op \in {"set", "reset"}
           /\ Step.op = "reset" <=> Len(todo) = 1
  <1>1. \/ Len(todo) = 1 \/ Len(todo) = 2 \/ Len(todo) = 3 \/ Len(todo) = 4 \/ Len(todo) = 5
        \/ Len(todo) = 6 \/ Len(todo) = 7 \/ Len(todo) = 8 \/ Len(todo) = 9
    BY InitiatorStep, UpTo9
  <1>2. QED
    BY <1>1, InitiatorStep DEF Set, Reset

LEMMA StepTyped ==
    ASSUME TodoOK, todo # <<>>
    PROVE  /\ Step \in StepSet /\ Step.b \in BOOLEAN /\ open
           /\ Step.op = "param" => Step.p \in Param \ {"AUTO_RATS"}
           /\ Len(todo) \in Nat \ {0} /\ Tail(todo) \in Seq(StepSet) /\ Len(Tail(todo)) = Len(todo) - 1
  <1>1. Step \in StepSet
    BY DEF TodoOK, Step
  <1>2. QED
    BY <1>1 DEF TodoOK, StepSet

-----------------------------------------------------------------------------
(* What writes and commands do to the registers                            *)

LEMMA OnValue == \A b \in BOOLEAN : On(b) \in Value
  BY DEF On, Value

LEMMA AllRegIsReg == AllReg = Reg /\ Volatile \subseteq {"Crypto1"} /\ Raw = {}
  BY SettingsAssumption DEF AllReg

\* A buffered write takes its symbols out of doubt and leaves the others alone.
LEMMA WriteEffect ==
    ASSUME TypeOK, NEW w, \A r \in DOMAIN w : w[r] \in Value, Write(w)
    PROVE  /\ mem' \in Registers /\ dirty' \in Registers /\ doubt' \in Registers /\ ret' \in Result
           /\ \A r \in Reg : r \in DOMAIN w => mem'[r] = w[r] /\ doubt'[r] = {}
           /\ \A r \in Reg : r \notin DOMAIN w => mem'[r] = mem[r] /\ doubt'[r] = doubt[r]
  <1>1. Bit \in Value /\ {} \in Value
    BY DEF Value
  <1>2. mem' \in Registers /\ dirty' \in Registers /\ doubt' \in Registers
    BY <1>1 DEF Write, Registers, TypeOK
  <1>3. ret' \in Result
    BY <1>1 DEF Write, Result, Success
  <1>4. QED
    BY <1>2, <1>3, AllRegIsReg DEF Write

\* Whatever becomes of a command, a symbol outside doubt keeps its value, unless
\* the command may change it by itself.
LEMMA CommandEffect ==
    ASSUME TypeOK, command_ok \/ command_lost \/ command_fail
    PROVE  /\ mem' \in Registers /\ dirty' \in Registers /\ doubt' \in Registers /\ ret' \in Result
           /\ failed' \in BOOLEAN /\ (failed => failed')
           /\ \A r \in Reg \ {"Crypto1"} : \A v \in Value : Agree(r, v) => mem'[r] \ doubt'[r] = v \ doubt'[r]
           /\ ~failed' => doubt' = doubt /\ \A r \in Reg \ {"Crypto1"} : mem'[r] = mem[r]
  <1>1. None \in Registers /\ {} \in Value
    BY DEF None, Registers, Value
  <1>2. ASSUME Sent
        PROVE  /\ mem' \in Registers /\ dirty' \in Registers /\ doubt' \in Registers
               /\ \A r \in Reg \ {"Crypto1"} : \A v \in Value : Agree(r, v) => mem'[r] \ doubt'[r] = v \ doubt'[r]
               /\ doubt' = doubt /\ \A r \in Reg \ {"Crypto1"} : mem'[r] = mem[r]
    <2>1. mem' \in Registers /\ dirty' \in Registers /\ doubt' \in Registers /\ doubt' = doubt
      BY <1>1, <1>2 DEF Sent, TypeOK
    <2>2. \A r \in Reg \ {"Crypto1"} : mem'[r] = mem[r]
      BY <1>2, AllRegIsReg DEF Sent
    <2>3. \A r \in Reg \ {"Crypto1"} : \A v \in Value : Agree(r, v) => mem'[r] \ doubt'[r] = v \ doubt'[r]
      BY <2>1, <2>2 DEF Agree
    <2>4. QED
      BY <2>1, <2>2, <2>3
  <1>3. ASSUME Fail
        PROVE  /\ mem' \in Registers /\ dirty' \in Registers /\ doubt' \in Registers
               /\ \A r \in Reg \ {"Crypto1"} : \A v \in Value : Agree(r, v) => mem'[r] \ doubt'[r] = v \ doubt'[r]
    <2>1. doubt' = [r \in AllReg |-> doubt[r] \cup dirty[r]] /\ mem' \in Registers /\ dirty' = None
          /\ \A r \in AllReg \ Volatile : mem'[r] \ doubt'[r] = mem[r] \ doubt'[r]
      BY <1>3, AllRegIsReg DEF Fail, Kept
    <2>2. doubt' \in Registers
      BY <2>1 DEF TypeOK, Registers, Value
    <2>3. ASSUME NEW r \in Reg \ {"Crypto1"}, NEW v \in Value, Agree(r, v)
          PROVE  mem'[r] \ doubt'[r] = v \ doubt'[r]
      <3>1. doubt'[r] = doubt[r] \cup dirty[r]
        BY <2>1, AllRegIsReg
      <3>2. mem'[r] \ doubt'[r] = mem[r] \ doubt'[r]
        BY <2>1, AllRegIsReg
      <3>3. QED
        BY <2>3, <3>1, <3>2 DEF Agree
    <2>4. QED
      BY <1>1, <2>1, <2>2, <2>3
  <1>4. ret' \in Result
    <2>1. Success({}) \in Result /\ Failure \in Result
      BY <1>1 DEF Result, Success, Failure
    <2>2. QED
      BY <2>1 DEF command_ok, command_lost, command_fail, Fail
  <1>5. CASE command_ok
    <2>1. Sent /\ failed' = failed /\ failed \in BOOLEAN
      BY <1>5 DEF command_ok, TypeOK
    <2>2. QED
      BY <1>2, <1>4, <2>1
  <1>6. CASE command_lost
    BY <1>3, <1>4, <1>6 DEF command_lost
  <1>7. CASE command_fail
    BY <1>2, <1>4, <1>7 DEF command_fail
  <1>8. QED
    BY <1>5, <1>6, <1>7

-----------------------------------------------------------------------------
(* The steps of a call preserve the invariant                              *)

\* How the histories follow a step.
LEMMA HistoryStep ==
    ASSUME TypeOK, Next_step \/ Return_error
    PROVE  /\ rawBits' \in BOOLEAN /\ autoSet' \in BOOLEAN
           /\ Step.op = "frame" => rawBits'
           /\ Step.op \notin {"reset", "txbits"} => (rawBits => rawBits')
           /\ rawBits /\ ~WritesBits => rawBits'
           /\ Step.op # "set" => (autoSet' <=> autoSet)
           /\ Step.p # "AUTO_ISO14443_4" => (autoSet' <=> autoSet)
           /\ ~Step.b => (autoSet' <=> autoSet)
  <1>1. Histories
    BY DEF Next_step, Return_error
  <1>2. rawBits' \in BOOLEAN /\ autoSet' \in BOOLEAN
    BY <1>1 DEF Histories
  <1>3. /\ Step.op = "frame" => rawBits'
        /\ rawBits /\ ~WritesBits => rawBits'
    BY <1>1 DEF Histories
  <1>4. Step.op \notin {"reset", "txbits"} => (rawBits => rawBits')
    BY <1>3 DEF WritesBits
  <1>5. autoSet' <=> (autoSet \/ Step = Set("AUTO_ISO14443_4", TRUE))
    BY <1>1 DEF Histories
  <1>6. /\ Set("AUTO_ISO14443_4", TRUE).op = "set" /\ Set("AUTO_ISO14443_4", TRUE).b
        /\ Set("AUTO_ISO14443_4", TRUE).p = "AUTO_ISO14443_4"
    BY DEF Set
  <1>7. QED
    BY <1>2, <1>3, <1>4, <1>5, <1>6

LEMMA NextStepTodo ==
    ASSUME TodoOK, todo # <<>>, Next_step
    PROVE  TodoOK' /\ open /\ open' /\ call' = call /\ Len(todo') = Len(todo) - 1 /\ Len(todo) \in Nat /\ Len(todo) > 0
  <1>1. todo' = Tail(todo) /\ call' = call /\ open' = open
    BY DEF Next_step
  <1>2. /\ open /\ Tail(todo) \in Seq(StepSet) /\ Len(Tail(todo)) = Len(todo) - 1
        /\ Len(todo) \in Nat /\ Len(todo) > 0
    BY StepTyped DEF TodoOK
  <1>3. call.name = "open" => Suffix(Tail(todo), pn53x_init)
    <2>1. SUFFICES ASSUME call.name = "open" PROVE Suffix(Tail(todo), pn53x_init)
      OBVIOUS
    <2>2. todo \in Seq(StepSet) /\ Suffix(todo, pn53x_init)
      BY <2>1 DEF TodoOK
    <2>3. QED
      BY <2>2, SuffixTail, OpenSteps
  <1>4. call.name = "initiator_init" => Suffix(Tail(todo), nfc_initiator_init)
    <2>1. SUFFICES ASSUME call.name = "initiator_init" PROVE Suffix(Tail(todo), nfc_initiator_init)
      OBVIOUS
    <2>2. todo \in Seq(StepSet) /\ Suffix(todo, nfc_initiator_init)
      BY <2>1 DEF TodoOK
    <2>3. QED
      BY <2>2, SuffixTail, InitiatorSteps
  <1>5. QED
    BY <1>1, <1>2, <1>3, <1>4 DEF TodoOK

LEMMA ReturnErrorTodo ==
    ASSUME TypeOK, TodoOK, Return_error
    PROVE  /\ TodoOK' /\ todo' = <<>> /\ call' \in Call /\ call'.name = call.name
           /\ open' \in BOOLEAN /\ blind' \in BOOLEAN
           /\ call.name = "open" => ~open' \/ blind'
           /\ blind => blind'
           /\ call.name # "open" => open' /\ blind' = blind
  <1>1. call \in Call /\ blind \in BOOLEAN /\ InitChecked \in BOOLEAN
    BY SettingsAssumption DEF TypeOK
  <1>2. call' = [call EXCEPT !.ok = (call.name = "open" /\ ~InitChecked)]
    BY DEF Return_error
  <1>3. call' \in Call /\ call'.name = call.name
    BY <1>1, <1>2 DEF Call
  <1>4. todo' = <<>> /\ <<>> \in Seq(StepSet)
    BY DEF Return_error
  <1>5. Suffix(<<>>, pn53x_init) /\ Suffix(<<>>, nfc_initiator_init)
    BY SuffixEmpty, OpenSteps, InitiatorSteps
  <1>6. TodoOK'
    BY <1>3, <1>4, <1>5 DEF TodoOK
  <1>7. QED
    BY <1>1, <1>3, <1>4, <1>6 DEF Return_error

\* A command keeps the flags in agreement with the symbols they stand for.
LEMMA CommandMatches ==
    ASSUME TypeOK, command_ok \/ command_lost \/ command_fail, UNCHANGED <<bCrc, bPar, ui8TxBits>>,
           rawBits => rawBits'
    PROVE  (CrcMatch => CrcMatch') /\ (ParMatch => ParMatch') /\ (BitsMatch => BitsMatch')
  <1>1. \A r \in Reg \ {"Crypto1"} : \A v \in Value : Agree(r, v) => mem'[r] \ doubt'[r] = v \ doubt'[r]
    BY CommandEffect
  <1>2. On(bCrc) \in Value /\ On(~bPar) \in Value /\ ui8TxBits \in Value
    BY OnValue DEF TypeOK
  <1>3. CrcMatch => CrcMatch'
    BY <1>1, <1>2 DEF CrcMatch, Agree
  <1>4. ParMatch => ParMatch'
    BY <1>1, <1>2 DEF ParMatch, Agree
  <1>5. BitsMatch => BitsMatch'
    BY <1>1, <1>2 DEF BitsMatch, BitsAgree, Agree
  <1>6. QED
    BY <1>3, <1>4, <1>5

\* What has to be seen of a step in which a command fails.
LEMMA ErrorPreserves ==
    ASSUME SettingsInv, todo # <<>>, command_lost \/ command_fail, Return_error,
           Step.op \notin {"reset", "txbits"},
           UNCHANGED <<bCrc, bPar, bEasyFraming, ui8TxBits>>, bAutoIso14443_4' \in BOOLEAN,
           ui8Parameters' \subseteq Param, parameters' \subseteq Param
    PROVE  SettingsInv'
  <1> USE DEF SettingsInv
  <1>1. failed' = TRUE
    BY DEF command_lost, command_fail
  <1>2. TypeOK'
    BY <1>1, CommandEffect, ReturnErrorTodo, HistoryStep DEF TypeOK
  <1>3. (CrcMatch => CrcMatch') /\ (ParMatch => ParMatch') /\ (BitsMatch => BitsMatch')
    BY CommandMatches, HistoryStep
  <1>4. todo' = <<>> /\ TodoOK' /\ ~Opening'
    BY ReturnErrorTodo DEF Opening
  <1>5. call.name = "open" => Opening
    BY StepTyped DEF Opening
  <1>6. BlindOK'
    BY <1>1, <1>2, <1>3, <1>5, ReturnErrorTodo, StepTyped DEF BlindOK, OpeningOK, SettledOK, TypeOK
  <1>7. SettledOK'
    BY <1>1, <1>2, <1>3, <1>4, ReturnErrorTodo, StepTyped DEF SettledOK, Opening, TypeOK
  <1>8. OpeningOK' /\ InitiatorProgress' /\ ReopenHeals'
    BY <1>1, <1>4, ReturnErrorTodo DEF OpeningOK, InitiatorProgress, ReopenHeals, Returned, Idle
  <1>9. QED
    BY <1>2, <1>4, <1>6, <1>7, <1>8

\* What has to be seen of a step of nfc_initiator_init other than the reset.
Framing == {"TxFraming", "RxFraming", "TxSpeed", "RxSpeed", "RxNoError", "RxMultiple"}
LEMMA ProgressStep ==
    ASSUME SettingsInv, todo # <<>>, Next_step, failed => failed',
           ~failed' /\ call.name = "initiator_init" =>
               /\ bAutoIso14443_4 => bAutoIso14443_4'
               /\ \A r \in Reg \cap Framing : mem[r] = {} => mem'[r] = {}
               /\ Len(todo) = 6 => bAutoIso14443_4'
               /\ Len(todo) = 5 => Cleared({"TxFraming", "RxFraming"})'
               /\ Len(todo) = 4 => Cleared({"TxSpeed", "RxSpeed"})'
               /\ Len(todo) = 3 => Cleared({"RxNoError"})'
               /\ Len(todo) = 2 => Cleared({"RxMultiple"})'
               /\ Len(todo) # 1
    PROVE  InitiatorProgress'
  <1> SUFFICES ASSUME call'.name = "initiator_init", ~failed' PROVE Progress(Len(todo))'
    BY DEF InitiatorProgress
  <1> DEFINE n == Len(todo)
  <1>1. n \in Nat /\ n > 0 /\ Len(todo') = n - 1 /\ open /\ call' = call
    BY NextStepTodo DEF SettingsInv
  <1>2. Progress(n)
    BY <1>1 DEF SettingsInv, InitiatorProgress
  <1> HIDE DEF n
  <1>3. /\ bAutoIso14443_4 => bAutoIso14443_4'
        /\ \A r \in Reg \cap Framing : mem[r] = {} => mem'[r] = {}
        /\ n = 6 => bAutoIso14443_4'
        /\ n = 5 => Cleared({"TxFraming", "RxFraming"})'
        /\ n = 4 => Cleared({"TxSpeed", "RxSpeed"})'
        /\ n = 3 => Cleared({"RxNoError"})'
        /\ n = 2 => Cleared({"RxMultiple"})'
        /\ n # 1
    BY <1>1 DEF n
  <1>4. n - 1 < 6 => bAutoIso14443_4'
    BY <1>1, <1>2, <1>3 DEF Progress
  <1>5. n - 1 < 5 => Cleared({"TxFraming", "RxFraming"})'
    BY <1>1, <1>2, <1>3 DEF Progress, Cleared, Framing
  <1>6. n - 1 < 4 => Cleared({"TxSpeed", "RxSpeed"})'
    BY <1>1, <1>2, <1>3 DEF Progress, Cleared, Framing
  <1>7. n - 1 < 3 => Cleared({"RxNoError"})'
    BY <1>1, <1>2, <1>3 DEF Progress, Cleared, Framing
  <1>8. n - 1 < 2 => Cleared({"RxMultiple"})'
    BY <1>1, <1>2, <1>3 DEF Progress, Cleared, Framing
  <1>9. ~(n - 1 < 1)
    BY <1>1, <1>3
  <1>10. QED
    BY <1>1, <1>4, <1>5, <1>6, <1>7, <1>8, <1>9 DEF Progress

\* What has to be seen of a step after which the call goes on.
LEMMA StepPreserves ==
    ASSUME SettingsInv, todo # <<>>, Step.op # "reset", Next_step, TypeOK', failed => failed',
           CrcMatch' \/ ((CrcMatch => CrcMatch') /\ bCrc' = bCrc),
           ParMatch' \/ ((ParMatch => ParMatch') /\ bPar' = bPar),
           BitsMatch => BitsMatch',
           ~failed' => \A r \in Reg \cap Flagged : doubt[r] = {} => doubt'[r] = {},
           ~failed' /\ ui8Parameters = parameters =>
               /\ ui8Parameters' = parameters'
               /\ AutoMatch => AutoMatch',
           call.name = "open" =>
               /\ ~failed' /\ UNCHANGED <<bCrc, bPar, bAutoIso14443_4>>
               /\ Step.op = "SetParameters" => ui8Parameters' = parameters',
           InitiatorProgress'
    PROVE  SettingsInv'
  <1> USE DEF SettingsInv
  <1>1. TodoOK' /\ open /\ open' /\ call' = call /\ blind' = blind
        /\ Len(todo') = Len(todo) - 1 /\ Len(todo) \in Nat /\ Len(todo) > 0
    BY NextStepTodo DEF Next_step, TypeOK
  <1>2. BlindOK'
    BY <1>1 DEF BlindOK, TypeOK
  <1>3. CASE call.name = "open"
    <2>1. Opening /\ Len(todo) # 1 /\ (Len(todo) = 2 => Step.op = "SetParameters")
      BY <1>1, <1>3, OpeningStep DEF Opening
    <2>2. todo' # <<>>
      <3>1. Len(todo') # 0
        BY <1>1, <2>1
      <3>2. QED
        BY <3>1
    <2>3. Len(todo') = 1 => Len(todo) = 2
      <3> DEFINE n == Len(todo)
                 m == Len(todo')
      <3>1. n \in Nat /\ m = n - 1
        BY <1>1
      <3> HIDE DEF n, m
      <3>2. m = 1 => n = 2
        BY <3>1
      <3>3. QED
        BY <3>2 DEF n, m
    <2>4. ~autoSet'
      <3>1. Step.op # "set" /\ ~autoSet
        BY <1>3, <2>1, OpeningStep, UpTo3 DEF OpeningOK, Opening
      <3>2. QED
        BY <3>1, HistoryStep
    <2>5. OpeningOK'
      BY <1>1, <1>3, <2>1, <2>3, <2>4 DEF OpeningOK, TypeOK
    <2>6. SettledOK' /\ ReopenHeals'
      BY <1>1, <1>3, <2>2 DEF SettledOK, Opening, ReopenHeals, Returned, Idle
    <2>7. QED
      BY <1>1, <1>2, <2>5, <2>6
  <1>4. CASE call.name # "open"
    <2>1. OpeningOK' /\ ReopenHeals'
      BY <1>1, <1>4 DEF OpeningOK, Opening, ReopenHeals, Returned
    <2>2. ~blind' => CrcMatch' /\ ParMatch' /\ BitsMatch'
      BY <1>1, <1>4 DEF SettledOK, Opening, TypeOK
    <2>3. ~blind' /\ ~failed' => /\ ui8Parameters' = parameters'
                                 /\ AutoMatch'
                                 /\ \A r \in Reg \cap Flagged : doubt'[r] = {}
      <3>1. SUFFICES ASSUME ~blind', ~failed'
                     PROVE  /\ ui8Parameters' = parameters'
                            /\ AutoMatch'
                            /\ \A r \in Reg \cap Flagged : doubt'[r] = {}
        OBVIOUS
      <3>2. /\ ui8Parameters = parameters
            /\ AutoMatch
            /\ \A r \in Reg \cap Flagged : doubt[r] = {}
        BY <1>1, <1>4, <3>1 DEF SettledOK, Opening
      <3>3. QED
        BY <3>1, <3>2
    <2>4. SettledOK'
      BY <2>2, <2>3 DEF SettledOK
    <2>5. QED
      BY <1>1, <1>2, <2>1, <2>4
  <1>5. QED
    BY <1>3, <1>4

LEMMA SetNothingPreserves ==
    ASSUME SettingsInv, set_nothing
    PROVE  SettingsInv'
  <1> USE DEF SettingsInv
  <1>1. /\ todo # <<>> /\ Step.op = "set" /\ Nothing(Step.p, Step.b) /\ Next_step
        /\ UNCHANGED <<mem, dirty, doubt, ret, failed, parameters>>
        /\ UNCHANGED <<bCrc, bPar, bAutoIso14443_4, bEasyFraming, ui8TxBits, ui8Parameters>>
    BY DEF set_nothing, fileVars, hostVars
  <1>2. TypeOK'
    BY <1>1, HistoryStep DEF TypeOK, Next_step
  <1>3. (CrcMatch => CrcMatch') /\ (ParMatch => ParMatch') /\ (BitsMatch => BitsMatch')
    BY <1>1, HistoryStep DEF CrcMatch, ParMatch, BitsMatch, BitsAgree, Agree
  <1>4. InitiatorProgress'
    <2>1. call.name = "initiator_init" =>
            Len(todo) \notin {1, 2, 3, 4, 5} /\ (Len(todo) = 6 => bAutoIso14443_4)
      BY <1>1, InitiatorStep DEF Nothing, Set, Reset
    <2>2. QED
      BY <1>1, <2>1, ProgressStep
  <1>5. call.name # "open"
    BY <1>1, OpeningStep, UpTo3
  <1>6. AutoMatch => AutoMatch'
    <2>1. CASE Step.p = "AUTO_ISO14443_4"
      BY <1>1, <2>1, HistoryStep DEF Nothing, AutoMatch
    <2>2. CASE Step.p # "AUTO_ISO14443_4"
      BY <1>1, <2>2, HistoryStep DEF AutoMatch
    <2>3. QED
      BY <2>1, <2>2
  <1>7. QED
    BY <1>1, <1>2, <1>3, <1>4, <1>5, <1>6, StepPreserves

LEMMA SetEasyFramingPreserves ==
    ASSUME SettingsInv, set_easy_framing
    PROVE  SettingsInv'
  <1> USE DEF SettingsInv
  <1>1. /\ todo # <<>> /\ Step.op = "set" /\ Step.p = "EASY_FRAMING" /\ Next_step /\ bEasyFraming' = Step.b
        /\ UNCHANGED <<mem, dirty, doubt, ret, failed, parameters>>
        /\ UNCHANGED <<bCrc, bPar, bAutoIso14443_4, ui8TxBits, ui8Parameters>>
    BY DEF set_easy_framing, fileVars
  <1>2. TypeOK'
    BY <1>1, StepTyped, HistoryStep DEF TypeOK, Next_step
  <1>3. (CrcMatch => CrcMatch') /\ (ParMatch => ParMatch') /\ (BitsMatch => BitsMatch')
    BY <1>1, HistoryStep DEF CrcMatch, ParMatch, BitsMatch, BitsAgree, Agree
  <1>4. InitiatorProgress'
    <2>1. call.name = "initiator_init" => Len(todo) \notin {1, 2, 3, 4, 5, 6}
      BY <1>1, InitiatorStep DEF Set, Reset
    <2>2. QED
      BY <1>1, <2>1, ProgressStep
  <1>5. call.name # "open"
    BY <1>1, OpeningStep, UpTo3
  <1>6. AutoMatch => AutoMatch'
    BY <1>1, HistoryStep DEF AutoMatch
  <1>7. QED
    BY <1>1, <1>2, <1>3, <1>4, <1>5, <1>6, StepPreserves

\* A command that succeeds, as a step of a call.
LEMMA CommandOkPreserves ==
    ASSUME SettingsInv, todo # <<>>, command_ok, Next_step, UNCHANGED <<hostVars, parameters>>,
           \/ Step.op = "set" /\ Step.p \in {"FIELD", "INFINITE_SELECT"}
           \/ Step.op = "send"
    PROVE  SettingsInv'
  <1> USE DEF SettingsInv
  <1>1. UNCHANGED <<bCrc, bPar, bAutoIso14443_4, bEasyFraming, ui8TxBits, ui8Parameters, parameters, failed>>
    BY DEF hostVars, command_ok
  <1>2. TypeOK'
    BY <1>1, CommandEffect, HistoryStep DEF TypeOK, Next_step
  <1>3. (CrcMatch => CrcMatch') /\ (ParMatch => ParMatch') /\ (BitsMatch => BitsMatch')
    BY <1>1, CommandMatches, HistoryStep
  <1>4. InitiatorProgress'
    <2>1. call.name = "initiator_init" => Len(todo) \notin {1, 2, 3, 4, 5, 6}
      BY InitiatorStep DEF Set, Reset
    <2>2. ~failed' => \A r \in Reg \cap Framing : mem'[r] = mem[r]
      BY CommandEffect DEF Framing
    <2>3. QED
      BY <1>1, <2>1, <2>2, ProgressStep
  <1>5. call.name = "open" => Step.op # "SetParameters" /\ ~failed
    BY StepTyped DEF OpeningOK, Opening
  <1>6. AutoMatch => AutoMatch'
    BY <1>1, HistoryStep DEF AutoMatch
  <1>7. QED
    BY <1>1, <1>2, <1>3, <1>4, <1>5, <1>6, CommandEffect, StepPreserves

LEMMA SetCommandPreserves ==
    ASSUME SettingsInv, set_command \/ send
    PROVE  SettingsInv'
  <1>1. /\ todo # <<>> /\ UNCHANGED <<hostVars, parameters>>
        /\ \/ Step.op = "set" /\ Step.p \in {"FIELD", "INFINITE_SELECT"}
           \/ Step.op = "send"
        /\ \/ command_ok /\ Next_step
           \/ (command_lost \/ command_fail) /\ Return_error
    BY DEF set_command, send
  <1>2. CASE command_ok /\ Next_step
    BY <1>1, <1>2, CommandOkPreserves
  <1>3. CASE (command_lost \/ command_fail) /\ Return_error
    BY <1>1, <1>3, ErrorPreserves DEF hostVars, SettingsInv, TypeOK
  <1>4. QED
    BY <1>1, <1>2, <1>3

\* The symbols pn53x_set_property_bool writes, and what it writes to them.
LEMMA SymbolsOf ==
    ASSUME NEW p \in InRegisters, NEW b \in BOOLEAN
    PROVE  /\ \A r \in DOMAIN Symbols(p, b) : Symbols(p, b)[r] \in Value
           /\ p = "CRC" => /\ DOMAIN Symbols(p, b) = {"TxCrc", "RxCrc"}
                           /\ \A r \in {"TxCrc", "RxCrc"} : Symbols(p, b)[r] = On(b)
           /\ p = "PARITY" => /\ DOMAIN Symbols(p, b) = {"ParityDisable"}
                              /\ Symbols(p, b)["ParityDisable"] = On(~b)
           /\ p \notin {"CRC", "PARITY"} => DOMAIN Symbols(p, b) \cap Flagged = {}
           /\ p = "FORCE_A" => /\ DOMAIN Symbols(p, b) = {"TxFraming", "RxFraming"}
                               /\ \A r \in DOMAIN Symbols(p, b) : Symbols(p, b)[r] = {}
           /\ p = "FORCE_106" => /\ DOMAIN Symbols(p, b) = {"TxSpeed", "RxSpeed"}
                                 /\ \A r \in DOMAIN Symbols(p, b) : Symbols(p, b)[r] = {}
           /\ p = "INVALID_FRAMES" => /\ DOMAIN Symbols(p, b) = {"RxNoError"}
                                      /\ Symbols(p, b)["RxNoError"] = On(b)
           /\ p = "MULTIPLE_FRAMES" => /\ DOMAIN Symbols(p, b) = {"RxMultiple"}
                                       /\ Symbols(p, b)["RxMultiple"] = On(b)
  <1>1. On(b) \in Value /\ On(~b) \in Value /\ {} \in Value /\ Bit \in Value
    BY OnValue DEF Value
  <1>2. CASE p = "CRC"
    <2>1. Symbols(p, b) = [r \in {"TxCrc", "RxCrc"} |-> On(b)]
      BY <1>2 DEF Symbols
    <2>2. QED
      BY <1>1, <1>2, <2>1
  <1>3. CASE p = "PARITY"
    <2>1. Symbols(p, b) = [r \in {"ParityDisable"} |-> On(~b)]
      BY <1>3 DEF Symbols
    <2>2. QED
      BY <1>1, <1>3, <2>1
  <1>4. CASE p = "CRYPTO1"
    <2>1. Symbols(p, b) = [r \in {"Crypto1"} |-> On(b)]
      BY <1>4 DEF Symbols
    <2>2. QED
      BY <1>1, <1>4, <2>1 DEF Flagged
  <1>5. CASE p = "INVALID_FRAMES"
    <2>1. Symbols(p, b) = [r \in {"RxNoError"} |-> On(b)]
      BY <1>5 DEF Symbols
    <2>2. QED
      BY <1>1, <1>5, <2>1 DEF Flagged
  <1>6. CASE p = "MULTIPLE_FRAMES"
    <2>1. Symbols(p, b) = [r \in {"RxMultiple"} |-> On(b)]
      BY <1>6 DEF Symbols
    <2>2. QED
      BY <1>1, <1>6, <2>1 DEF Flagged
  <1>7. CASE p = "FORCE_A"
    <2>1. Symbols(p, b) = [r \in {"TxFraming", "RxFraming"} |-> {}]
      BY <1>7 DEF Symbols
    <2>2. QED
      BY <1>1, <1>7, <2>1 DEF Flagged
  <1>8. CASE p = "FORCE_B"
    <2>1. Symbols(p, b) = [r \in {"TxFraming", "RxFraming"} |-> Bit]
      BY <1>8 DEF Symbols
    <2>2. QED
      BY <1>1, <1>8, <2>1 DEF Flagged
  <1>9. CASE p = "FORCE_106"
    <2>1. Symbols(p, b) = [r \in {"TxSpeed", "RxSpeed"} |-> {}]
      BY <1>9 DEF Symbols
    <2>2. QED
      BY <1>1, <1>9, <2>1 DEF Flagged
  <1>10. QED
    BY <1>2, <1>3, <1>4, <1>5, <1>6, <1>7, <1>8, <1>9 DEF InRegisters

LEMMA SetRegisterPreserves ==
    ASSUME SettingsInv, set_register
    PROVE  SettingsInv'
  <1> USE DEF SettingsInv
  <1> DEFINE w == Symbols(Step.p, Step.b)
  <1>1. /\ todo # <<>> /\ Step.op = "set" /\ Step.p \in InRegisters /\ Next_step /\ Write(w)
        /\ bCrc' = IF Step.p = "CRC" THEN Step.b ELSE bCrc
        /\ bPar' = IF Step.p = "PARITY" THEN Step.b ELSE bPar
        /\ UNCHANGED <<bAutoIso14443_4, bEasyFraming, ui8TxBits, ui8Parameters, parameters, failed>>
    BY DEF set_register
  <1>2. Step.b \in BOOLEAN
    BY <1>1, StepTyped
  <1>3. /\ \A r \in DOMAIN w : w[r] \in Value
        /\ Step.p = "CRC" => /\ DOMAIN w = {"TxCrc", "RxCrc"}
                             /\ \A r \in {"TxCrc", "RxCrc"} : w[r] = On(Step.b)
        /\ Step.p = "PARITY" => DOMAIN w = {"ParityDisable"} /\ w["ParityDisable"] = On(~Step.b)
        /\ Step.p \notin {"CRC", "PARITY"} => DOMAIN w \cap Flagged = {}
        /\ Step.p = "FORCE_A" => DOMAIN w = {"TxFraming", "RxFraming"} /\ \A r \in DOMAIN w : w[r] = {}
        /\ Step.p = "FORCE_106" => DOMAIN w = {"TxSpeed", "RxSpeed"} /\ \A r \in DOMAIN w : w[r] = {}
        /\ Step.p = "INVALID_FRAMES" => DOMAIN w = {"RxNoError"} /\ w["RxNoError"] = On(Step.b)
        /\ Step.p = "MULTIPLE_FRAMES" => DOMAIN w = {"RxMultiple"} /\ w["RxMultiple"] = On(Step.b)
    BY <1>1, <1>2, SymbolsOf
  <1> HIDE DEF w
  <1>4. /\ mem' \in Registers /\ dirty' \in Registers /\ doubt' \in Registers /\ ret' \in Result
        /\ \A r \in Reg : r \in DOMAIN w => mem'[r] = w[r] /\ doubt'[r] = {}
        /\ \A r \in Reg : r \notin DOMAIN w => mem'[r] = mem[r] /\ doubt'[r] = doubt[r]
    BY <1>1, <1>3, WriteEffect
  <1>5. TypeOK'
    BY <1>1, <1>2, <1>4, HistoryStep DEF TypeOK, Next_step
  <1>6. CrcMatch' \/ ((CrcMatch => CrcMatch') /\ bCrc' = bCrc)
    <2>1. CASE Step.p = "CRC"
      BY <1>1, <1>3, <1>4, <2>1 DEF CrcMatch, Agree
    <2>2. CASE Step.p # "CRC"
      <3>1. \A r \in Reg \cap {"TxCrc", "RxCrc"} : r \notin DOMAIN w
        BY <1>3, <2>2 DEF Flagged
      <3>2. QED
        BY <1>1, <1>4, <2>2, <3>1 DEF CrcMatch, Agree
    <2>3. QED
      BY <2>1, <2>2
  <1>7. ParMatch' \/ ((ParMatch => ParMatch') /\ bPar' = bPar)
    <2>1. CASE Step.p = "PARITY"
      BY <1>1, <1>3, <1>4, <2>1 DEF ParMatch, Agree
    <2>2. CASE Step.p # "PARITY"
      <3>1. \A r \in Reg \cap {"ParityDisable"} : r \notin DOMAIN w
        BY <1>3, <2>2 DEF Flagged
      <3>2. QED
        BY <1>1, <1>4, <2>2, <3>1 DEF ParMatch, Agree
    <2>3. QED
      BY <2>1, <2>2
  <1>8. BitsMatch => BitsMatch'
    <2>1. "TxLastBits" \notin DOMAIN w
      BY <1>3 DEF Flagged
    <2>2. QED
      BY <1>1, <1>4, <2>1, HistoryStep DEF BitsMatch, BitsAgree, Agree
  <1>9. InitiatorProgress'
    <2>1. On(FALSE) = {}
      BY DEF On
    <2>2. call.name = "initiator_init" =>
            /\ Len(todo) \notin {1, 6}
            /\ Len(todo) = 5 <=> Step.p = "FORCE_A"
            /\ Len(todo) = 4 <=> Step.p = "FORCE_106"
            /\ Len(todo) = 3 <=> Step.p = "INVALID_FRAMES"
            /\ Len(todo) = 2 <=> Step.p = "MULTIPLE_FRAMES"
            /\ Step.p \in {"FORCE_A", "FORCE_106", "INVALID_FRAMES", "MULTIPLE_FRAMES"}
            /\ Step.p \in {"INVALID_FRAMES", "MULTIPLE_FRAMES"} => ~Step.b
      <3>1. SUFFICES ASSUME call.name = "initiator_init"
                     PROVE /\ Len(todo) \notin {1, 6}
                           /\ Len(todo) = 5 <=> Step.p = "FORCE_A"
                           /\ Len(todo) = 4 <=> Step.p = "FORCE_106"
                           /\ Len(todo) = 3 <=> Step.p = "INVALID_FRAMES"
                           /\ Len(todo) = 2 <=> Step.p = "MULTIPLE_FRAMES"
                           /\ Step.p \in {"FORCE_A", "FORCE_106", "INVALID_FRAMES", "MULTIPLE_FRAMES"}
                           /\ Step.p \in {"INVALID_FRAMES", "MULTIPLE_FRAMES"} => ~Step.b
        OBVIOUS
      <3>2. \/ Len(todo) = 1 \/ Len(todo) = 2 \/ Len(todo) = 3 \/ Len(todo) = 4 \/ Len(todo) = 5
            \/ Len(todo) = 6 \/ Len(todo) = 7 \/ Len(todo) = 8 \/ Len(todo) = 9
        BY <1>1, <3>1, InitiatorStep, UpTo9
      <3>3. Len(todo) # 1
        BY <1>1, <3>1, InitiatorStep DEF Reset
      <3>4. Len(todo) # 6 /\ Len(todo) # 7 /\ Len(todo) # 8 /\ Len(todo) # 9
        BY <1>1, <3>1, InitiatorStep DEF Set, InRegisters
      <3>5. CASE Len(todo) = 5
        BY <1>1, <3>1, <3>5, InitiatorStep DEF Set
      <3>6. CASE Len(todo) = 4
        BY <1>1, <3>1, <3>6, InitiatorStep DEF Set
      <3>7. CASE Len(todo) = 3
        BY <1>1, <3>1, <3>7, InitiatorStep DEF Set
      <3>8. CASE Len(todo) = 2
        BY <1>1, <3>1, <3>8, InitiatorStep DEF Set
      <3>9. QED
        BY <3>2, <3>3, <3>4, <3>5, <3>6, <3>7, <3>8
    <2>3. call.name = "initiator_init" => \A r \in DOMAIN w : w[r] = {}
      BY <1>2, <1>3, <2>1, <2>2
    <2>4. call.name = "initiator_init" => \A r \in Reg : mem[r] = {} => mem'[r] = {}
      BY <1>4, <2>3
    <2>5. call.name = "initiator_init" => \A r \in Reg \cap DOMAIN w : mem'[r] = {}
      BY <1>4, <2>3
    <2>6. call.name = "initiator_init" =>
            /\ Len(todo) = 5 => Cleared({"TxFraming", "RxFraming"})'
            /\ Len(todo) = 4 => Cleared({"TxSpeed", "RxSpeed"})'
            /\ Len(todo) = 3 => Cleared({"RxNoError"})'
            /\ Len(todo) = 2 => Cleared({"RxMultiple"})'
      BY <1>3, <2>2, <2>5 DEF Cleared
    <2>7. QED
      BY <1>1, <2>2, <2>4, <2>6, ProgressStep DEF Framing
  <1>10. call.name # "open"
    BY <1>1, OpeningStep, UpTo3
  <1>11. AutoMatch => AutoMatch'
    BY <1>1, HistoryStep DEF AutoMatch, InRegisters
  <1>12. QED
    BY <1>1, <1>4, <1>5, <1>6, <1>7, <1>8, <1>9, <1>10, <1>11, StepPreserves

LEMMA WithTyped ==
    ASSUME TypeOK, NEW p \in Param, NEW b \in BOOLEAN
    PROVE  /\ With(p, b) \subseteq Param
           /\ p = "AUTO_RATS" => (b <=> "AUTO_RATS" \in With(p, b))
           /\ p # "AUTO_RATS" => ("AUTO_RATS" \in With(p, b) <=> "AUTO_RATS" \in ui8Parameters)
  BY DEF With, TypeOK

LEMMA SetAutoPreserves ==
    ASSUME SettingsInv, set_auto
    PROVE  SettingsInv'
  <1> USE DEF SettingsInv
  <1> DEFINE v == With("AUTO_RATS", Step.b)
  <1>1. /\ todo # <<>> /\ Step.op = "set" /\ Step.p = "AUTO_ISO14443_4"
        /\ bAutoIso14443_4' = Step.b
        /\ UNCHANGED <<bCrc, bPar, bEasyFraming, ui8TxBits>>
        /\ \/ v = ui8Parameters /\ Next_step /\ UNCHANGED <<fileVars, ui8Parameters, parameters, failed>>
           \/ SetParameters_ok(v) /\ Next_step
           \/ SetParameters_fail(v) /\ Return_error
    BY DEF set_auto
  <1>2. Step.b \in BOOLEAN
    BY <1>1, StepTyped
  <1>3. v \subseteq Param /\ (Step.b <=> "AUTO_RATS" \in v)
    BY <1>2, WithTyped DEF Param
  <1> HIDE DEF v
  <1>4. CASE SetParameters_fail(v) /\ Return_error
    <2>1. ui8Parameters' \subseteq Param /\ parameters' \subseteq Param
      BY <1>3, <1>4 DEF SetParameters_fail, TypeOK
    <2>2. QED
      BY <1>1, <1>2, <1>4, <2>1, ErrorPreserves DEF SetParameters_fail
  <1>5. CASE Next_step /\ (\/ v = ui8Parameters /\ UNCHANGED <<fileVars, ui8Parameters, parameters, failed>>
                           \/ SetParameters_ok(v))
    <2>1. /\ failed' = failed /\ ui8Parameters' = v
          /\ ui8Parameters = parameters => parameters' = v
          /\ parameters' \subseteq Param
      BY <1>3, <1>5 DEF SetParameters_ok, command_ok, TypeOK
    <2>2. /\ mem' \in Registers /\ dirty' \in Registers /\ doubt' \in Registers /\ ret' \in Result
          /\ ~failed' => doubt' = doubt /\ \A r \in Reg \ {"Crypto1"} : mem'[r] = mem[r]
      <3>1. CASE UNCHANGED fileVars
        BY <3>1 DEF fileVars, TypeOK
      <3>2. CASE command_ok
        BY <3>2, CommandEffect
      <3>3. QED
        BY <1>5, <3>1, <3>2 DEF SetParameters_ok
    <2>3. TypeOK'
      BY <1>1, <1>2, <1>3, <1>5, <2>1, <2>2, HistoryStep DEF TypeOK, Next_step
    <2>4. (CrcMatch => CrcMatch') /\ (ParMatch => ParMatch') /\ (BitsMatch => BitsMatch')
      <3>1. CASE UNCHANGED fileVars
        BY <1>1, <1>5, <3>1, HistoryStep DEF fileVars, CrcMatch, ParMatch, BitsMatch, BitsAgree, Agree
      <3>2. CASE command_ok
        BY <1>1, <1>5, <3>2, CommandMatches, HistoryStep
      <3>3. QED
        BY <1>5, <3>1, <3>2 DEF SetParameters_ok
    <2>5. InitiatorProgress'
      <3>1. call.name = "initiator_init" => Len(todo) \notin {1, 2, 3, 4, 5} /\ (Len(todo) = 6 => Step.b)
                                            /\ (bAutoIso14443_4 => Step.b)
        <4>1. SUFFICES ASSUME call.name = "initiator_init"
                       PROVE  Len(todo) \notin {1, 2, 3, 4, 5} /\ Step.b
          OBVIOUS
        <4>2. \/ Len(todo) = 1 \/ Len(todo) = 2 \/ Len(todo) = 3 \/ Len(todo) = 4 \/ Len(todo) = 5
              \/ Len(todo) = 6 \/ Len(todo) = 7 \/ Len(todo) = 8 \/ Len(todo) = 9
          BY <1>1, <4>1, InitiatorStep, UpTo9
        <4>3. Len(todo) \notin {1, 2, 3, 4, 5, 7, 8, 9}
          BY <1>1, <4>1, InitiatorStep DEF Set, Reset
        <4>4. Len(todo) = 6
          BY <4>2, <4>3
        <4>5. QED
          BY <1>1, <4>1, <4>3, <4>4, InitiatorStep DEF Set
      <3>2. ~failed' => \A r \in Reg \cap Framing : mem'[r] = mem[r]
        BY <2>2 DEF Framing
      <3>3. QED
        BY <1>1, <1>2, <1>5, <2>1, <3>1, <3>2, ProgressStep
    <2>6. call.name # "open"
      BY <1>1, OpeningStep, UpTo3
    <2>7. ui8Parameters = parameters => AutoMatch'
      BY <1>1, <1>3, <2>1 DEF AutoMatch
    <2>8. QED
      BY <1>1, <1>3, <1>5, <2>1, <2>2, <2>3, <2>4, <2>5, <2>6, <2>7, StepPreserves
  <1>6. QED
    BY <1>1, <1>4, <1>5

LEMMA SetParametersPreserves ==
    ASSUME SettingsInv, set_parameters
    PROVE  SettingsInv'
  <1> USE DEF SettingsInv
  <1> DEFINE v == With(Step.p, Step.b)
  <1>1. /\ todo # <<>> /\ Step.op = "param" /\ Next_step
        /\ UNCHANGED <<bCrc, bPar, bAutoIso14443_4, bEasyFraming, ui8TxBits>>
        /\ \/ v = ui8Parameters /\ UNCHANGED <<fileVars, ui8Parameters, parameters, failed>>
           \/ SetParameters_ok(v)
           \/ SetParameters_fail(v)
    BY DEF set_parameters
  <1>2. Step.b \in BOOLEAN /\ Step.p \in Param \ {"AUTO_RATS"}
    BY <1>1, StepTyped
  <1>3. v \subseteq Param /\ ("AUTO_RATS" \in ui8Parameters <=> "AUTO_RATS" \in v)
    BY <1>2, WithTyped
  <1> HIDE DEF v
  <1>4. (UNCHANGED fileVars /\ UNCHANGED failed) \/ command_ok \/ command_lost \/ command_fail
    BY <1>1 DEF SetParameters_ok, SetParameters_fail
  <1>5. /\ ~failed' /\ ui8Parameters = parameters => ui8Parameters' = v /\ parameters' = v
        /\ ui8Parameters' \subseteq Param /\ parameters' \subseteq Param
    BY <1>1, <1>3 DEF SetParameters_ok, SetParameters_fail, command_lost, command_fail, TypeOK
  <1>6. /\ mem' \in Registers /\ dirty' \in Registers /\ doubt' \in Registers /\ ret' \in Result
        /\ failed' \in BOOLEAN /\ (failed => failed')
        /\ ~failed' => doubt' = doubt /\ \A r \in Reg \ {"Crypto1"} : mem'[r] = mem[r]
    <2>1. CASE UNCHANGED fileVars /\ UNCHANGED failed
      BY <2>1 DEF fileVars, TypeOK
    <2>2. CASE command_ok \/ command_lost \/ command_fail
      BY <2>2, CommandEffect
    <2>3. QED
      BY <1>4, <2>1, <2>2
  <1>7. TypeOK'
    BY <1>1, <1>5, <1>6, HistoryStep DEF TypeOK, Next_step
  <1>8. (CrcMatch => CrcMatch') /\ (ParMatch => ParMatch') /\ (BitsMatch => BitsMatch')
    <2>1. CASE UNCHANGED fileVars
      BY <1>1, <2>1, HistoryStep DEF fileVars, CrcMatch, ParMatch, BitsMatch, BitsAgree, Agree
    <2>2. CASE command_ok \/ command_lost \/ command_fail
      BY <1>1, <2>2, CommandMatches, HistoryStep
    <2>3. QED
      BY <1>4, <2>1, <2>2
  <1>9. InitiatorProgress'
    <2>1. call.name # "initiator_init"
      BY <1>1, InitiatorOps
    <2>2. QED
      BY <1>1, <2>1, NextStepTodo DEF InitiatorProgress
  <1>10. call.name # "open"
    BY <1>1, OpeningStep, UpTo3
  <1>11. ~failed' /\ ui8Parameters = parameters => (AutoMatch => AutoMatch')
    BY <1>1, <1>3, <1>5, HistoryStep DEF AutoMatch
  <1>12. QED
    BY <1>1, <1>3, <1>5, <1>6, <1>7, <1>8, <1>9, <1>10, <1>11, StepPreserves

LEMMA InitParametersPreserves ==
    ASSUME SettingsInv, init_parameters
    PROVE  SettingsInv'
  <1> USE DEF SettingsInv
  <1> DEFINE v == {"AUTO_ATR_RES", "AUTO_RATS"}
  <1>1. /\ todo # <<>> /\ Step.op = "SetParameters"
        /\ UNCHANGED <<bCrc, bPar, bAutoIso14443_4, bEasyFraming, ui8TxBits>>
        /\ \/ SetParameters_ok(v) /\ Next_step
           \/ SetParameters_fail(v) /\ Return_error
    BY DEF init_parameters
  <1>2. v \subseteq Param /\ "AUTO_RATS" \in v
    BY DEF Param
  <1> HIDE DEF v
  <1>3. CASE SetParameters_fail(v) /\ Return_error
    <2>1. ui8Parameters' \subseteq Param /\ parameters' \subseteq Param /\ bAutoIso14443_4' \in BOOLEAN
      BY <1>1, <1>2, <1>3 DEF SetParameters_fail, TypeOK
    <2>2. QED
      BY <1>1, <1>3, <2>1, ErrorPreserves DEF SetParameters_fail
  <1>4. CASE SetParameters_ok(v) /\ Next_step
    <2>1. command_ok /\ failed' = failed /\ ui8Parameters' = v /\ parameters' = v
      BY <1>4 DEF SetParameters_ok, command_ok
    <2>2. TypeOK'
      BY <1>1, <1>2, <1>4, <2>1, CommandEffect, HistoryStep DEF TypeOK, Next_step
    <2>3. (CrcMatch => CrcMatch') /\ (ParMatch => ParMatch') /\ (BitsMatch => BitsMatch')
      BY <1>1, <1>4, <2>1, CommandMatches, HistoryStep
    <2>4. InitiatorProgress'
      <3>1. call.name # "initiator_init"
        BY <1>1, InitiatorOps
      <3>2. QED
        BY <1>1, <1>4, <3>1, NextStepTodo DEF InitiatorProgress
    <2>5. call.name = "open" => ~failed'
      BY <1>1, <2>1, StepTyped DEF OpeningOK, Opening
    <2>6. call.name = "open"
      BY DEF init_parameters
    <2>7. AutoMatch'
      <3>1. ~bAutoIso14443_4 /\ ~autoSet
        BY <1>1, <2>6, StepTyped DEF OpeningOK, Opening
      <3>2. QED
        BY <1>1, <1>4, <3>1, HistoryStep DEF AutoMatch
    <2>8. QED
      BY <1>1, <1>2, <1>4, <2>1, <2>2, <2>3, <2>4, <2>5, <2>7, CommandEffect, StepPreserves
  <1>5. QED
    BY <1>1, <1>3, <1>4

LEMMA SetTxBitsPreserves ==
    ASSUME SettingsInv, set_tx_bits
    PROVE  SettingsInv'
  <1> USE DEF SettingsInv
  <1> DEFINE bits == On(Step.p = "bits")
             w == [r \in {"TxLastBits"} |-> bits]
  <1>1. /\ todo # <<>> /\ Step.op = "txbits" /\ Next_step
        /\ UNCHANGED <<bCrc, bPar, bAutoIso14443_4, bEasyFraming, ui8Parameters, parameters, failed>>
        /\ \/ Write(w) /\ ui8TxBits' = bits
           \/ UNCHANGED <<fileVars, ui8TxBits>> /\ ui8TxBits = bits
    BY DEF set_tx_bits
  <1>2. bits \in Value
    BY OnValue
  <1>3. DOMAIN w = {"TxLastBits"} /\ w["TxLastBits"] = bits
    OBVIOUS
  <1>a. ui8TxBits = bits => ~WritesBits
    BY <1>1 DEF WritesBits
  <1> HIDE DEF w, bits
  <1>4. /\ mem' \in Registers /\ dirty' \in Registers /\ doubt' \in Registers /\ ret' \in Result
        /\ ui8TxBits' \in Value
        /\ \A r \in Reg : r # "TxLastBits" => mem'[r] = mem[r] /\ doubt'[r] = doubt[r]
        /\ "TxLastBits" \in Reg /\ doubt["TxLastBits"] = {} => doubt'["TxLastBits"] = {}
        /\ BitsMatch => BitsMatch'
    <2>1. CASE Write(w) /\ ui8TxBits' = bits
      <3>1. \A r \in DOMAIN w : w[r] \in Value
        BY <1>2, <1>3
      <3>2. /\ mem' \in Registers /\ dirty' \in Registers /\ doubt' \in Registers /\ ret' \in Result
            /\ \A r \in Reg : r \in DOMAIN w => mem'[r] = w[r] /\ doubt'[r] = {}
            /\ \A r \in Reg : r \notin DOMAIN w => mem'[r] = mem[r] /\ doubt'[r] = doubt[r]
        BY <2>1, <3>1, WriteEffect
      <3>3. QED
        BY <1>2, <1>3, <2>1, <3>2 DEF BitsMatch, BitsAgree, Agree
    <2>2. CASE UNCHANGED <<fileVars, ui8TxBits>> /\ ui8TxBits = bits
      BY <1>1, <1>a, <2>2, HistoryStep DEF fileVars, TypeOK, BitsMatch, BitsAgree, Agree
    <2>3. QED
      BY <1>1, <2>1, <2>2
  <1>5. TypeOK'
    BY <1>1, <1>4, HistoryStep DEF TypeOK, Next_step
  <1>6. (CrcMatch => CrcMatch') /\ (ParMatch => ParMatch')
    BY <1>1, <1>4 DEF CrcMatch, ParMatch, Agree
  <1>7. \A r \in Reg \cap Flagged : doubt[r] = {} => doubt'[r] = {}
    BY <1>4
  <1>8. InitiatorProgress'
    <2>1. call.name # "initiator_init"
      BY <1>1, InitiatorOps
    <2>2. QED
      BY <1>1, <2>1, NextStepTodo DEF InitiatorProgress
  <1>9. call.name # "open"
    BY <1>1, OpeningStep, UpTo3
  <1>10. AutoMatch => AutoMatch'
    BY <1>1, HistoryStep DEF AutoMatch
  <1>11. QED
    BY <1>1, <1>4, <1>5, <1>6, <1>7, <1>8, <1>9, <1>10, StepPreserves

\* The same of a command whose end nobody looks at.
LEMMA TryPreserves ==
    ASSUME SettingsInv, try
    PROVE  SettingsInv'
  <1> USE DEF SettingsInv
  <1>1. /\ todo # <<>> /\ Step.op = "try" /\ Next_step
        /\ command_ok \/ command_lost \/ command_fail
        /\ UNCHANGED <<bCrc, bPar, bAutoIso14443_4, bEasyFraming, ui8TxBits, ui8Parameters, parameters>>
    BY DEF try, hostVars
  <1>2. TypeOK'
    BY <1>1, CommandEffect, HistoryStep DEF TypeOK, Next_step
  <1>3. (CrcMatch => CrcMatch') /\ (ParMatch => ParMatch') /\ (BitsMatch => BitsMatch')
    BY <1>1, CommandMatches, HistoryStep
  <1>4. InitiatorProgress'
    <2>1. call.name # "initiator_init"
      BY <1>1, InitiatorOps
    <2>2. QED
      BY <1>1, <2>1, NextStepTodo DEF InitiatorProgress
  <1>5. call.name # "open"
    BY <1>1, OpeningStep, UpTo3
  <1>6. AutoMatch => AutoMatch'
    BY <1>1, HistoryStep DEF AutoMatch
  <1>7. QED
    BY <1>1, <1>2, <1>3, <1>4, <1>5, <1>6, CommandEffect, StepPreserves

\* The frame of a timed exchange changes nothing but the transmission bits.
LEMMA FramedEffect ==
    ASSUME TypeOK, NEW bits \in Value, Framed(bits)
    PROVE  /\ mem' \in Registers /\ dirty' \in Registers /\ doubt' \in Registers
           /\ \A r \in Reg \ {"Crypto1", "TxLastBits"} : mem'[r] = mem[r]
           /\ \A r \in Reg : doubt'[r] \subseteq doubt[r]
           /\ \A r \in Reg \ {"TxLastBits"} : doubt'[r] = doubt[r]
  <1>1. None \in Registers /\ {} \in Value
    BY DEF None, Registers, Value
  <1>2. doubt' \in Registers
    BY <1>1 DEF Framed, TypeOK, Registers
  <1>3. \A r \in Reg \ {"Crypto1", "TxLastBits"} : mem'[r] = mem[r]
    BY AllRegIsReg DEF Framed
  <1>4. QED
    BY <1>1, <1>2, <1>3, AllRegIsReg DEF Framed

LEMMA FramePreserves ==
    ASSUME SettingsInv, frame
    PROVE  SettingsInv'
  <1> USE DEF SettingsInv
  <1> DEFINE bits == On(Step.p = "bits")
  <1>1. /\ todo # <<>> /\ Step.op = "frame"
        /\ UNCHANGED <<bCrc, bPar, bAutoIso14443_4, bEasyFraming, ui8TxBits, ui8Parameters, parameters>>
        /\ \/ Framed(bits) /\ ret' = Success({}) /\ failed' = failed /\ Next_step
           \/ (command_lost \/ command_fail) /\ Return_error
           \/ Framed(bits) /\ ret' = Failure /\ failed' = TRUE /\ Return_error
    BY DEF frame, hostVars
  <1>2. bits \in Value
    BY OnValue
  <1> HIDE DEF bits
  <1>3. CASE (command_lost \/ command_fail) /\ Return_error
    BY <1>1, <1>3, ErrorPreserves DEF TypeOK
  <1>4. Success({}) \in Result /\ Failure \in Result
    BY DEF Result, Success, Failure, Value
  <1>5. call.name # "open" /\ call.name # "initiator_init"
    BY <1>1, OpeningStep, InitiatorOps, UpTo3
  <1>6. ASSUME Framed(bits), Next_step \/ Return_error
        PROVE  /\ (CrcMatch => CrcMatch') /\ (ParMatch => ParMatch') /\ BitsMatch'
               /\ AutoMatch => AutoMatch'
               /\ \A r \in Reg \cap Flagged : doubt[r] = {} => doubt'[r] = {}
    <2>1. /\ \A r \in Reg \cap {"TxCrc", "RxCrc", "ParityDisable"} : mem'[r] = mem[r] /\ doubt'[r] = doubt[r]
          /\ \A r \in Reg : doubt'[r] \subseteq doubt[r]
      BY <1>2, <1>6, FramedEffect
    <2>2. (CrcMatch => CrcMatch') /\ (ParMatch => ParMatch')
      BY <1>1, <2>1 DEF CrcMatch, ParMatch, Agree
    <2>3. BitsMatch' /\ (AutoMatch => AutoMatch')
      BY <1>1, <1>6, HistoryStep DEF BitsMatch, AutoMatch
    <2>4. QED
      BY <2>1, <2>2, <2>3
  <1>7. CASE Framed(bits) /\ ret' = Success({}) /\ failed' = failed /\ Next_step
    <2>1. TypeOK'
      BY <1>1, <1>2, <1>4, <1>7, FramedEffect, HistoryStep DEF TypeOK, Next_step
    <2>2. InitiatorProgress'
      BY <1>1, <1>5, <1>7, NextStepTodo DEF InitiatorProgress
    <2>3. QED
      BY <1>1, <1>5, <1>6, <1>7, <2>1, <2>2, StepPreserves
  <1>8. CASE Framed(bits) /\ ret' = Failure /\ failed' = TRUE /\ Return_error
    <2>1. TypeOK'
      BY <1>1, <1>2, <1>4, <1>8, FramedEffect, ReturnErrorTodo, HistoryStep DEF TypeOK
    <2>2. /\ todo' = <<>> /\ TodoOK' /\ ~Opening' /\ ~Opening /\ open /\ open'
          /\ call'.name = call.name /\ (blind' <=> blind)
      BY <1>1, <1>5, <1>8, ReturnErrorTodo, StepTyped DEF Opening
    <2>3. BlindOK'
      BY <1>1, <1>6, <1>8, <2>2 DEF BlindOK
    <2>4. SettledOK'
      BY <1>6, <1>8, <2>2 DEF SettledOK
    <2>5. OpeningOK' /\ InitiatorProgress' /\ ReopenHeals'
      BY <1>5, <2>2 DEF OpeningOK, InitiatorProgress, ReopenHeals, Returned
    <2>6. QED
      BY <2>1, <2>2, <2>3, <2>4, <2>5
  <1>9. QED
    BY <1>1, <1>3, <1>7, <1>8

LEMMA ResetPreserves ==
    ASSUME SettingsInv, reset_settings
    PROVE  SettingsInv'
  <1> USE DEF SettingsInv
  <1> DEFINE w == [r \in reset_symbols |-> IF r \in {"TxCrc", "RxCrc"} THEN Bit ELSE {}]
  <1>1. /\ todo # <<>> /\ Step.op = "reset" /\ Next_step /\ Write(w)
        /\ ui8TxBits' = {} /\ bCrc' = TRUE /\ bPar' = TRUE /\ bEasyFraming' = TRUE
        /\ UNCHANGED <<bAutoIso14443_4, ui8Parameters, parameters, failed>>
    BY DEF reset_settings
  <1>2. /\ DOMAIN w = reset_symbols
        /\ \A r \in DOMAIN w : w[r] = IF r \in {"TxCrc", "RxCrc"} THEN Bit ELSE {}
    OBVIOUS
  <1> HIDE DEF w
  <1>3. /\ {"TxLastBits", "Crypto1"} \subseteq DOMAIN w
        /\ ~bCrc <=> "TxCrc" \in DOMAIN w
        /\ ~bCrc <=> "RxCrc" \in DOMAIN w
        /\ ~bPar <=> "ParityDisable" \in DOMAIN w
        /\ DOMAIN w \subseteq {"TxLastBits", "Crypto1", "TxCrc", "RxCrc", "ParityDisable"}
    BY <1>2 DEF reset_symbols
  <1>4. \A r \in DOMAIN w : w[r] \in Value
    BY <1>2 DEF Value
  <1>5. /\ mem' \in Registers /\ dirty' \in Registers /\ doubt' \in Registers /\ ret' \in Result
        /\ \A r \in Reg : r \in DOMAIN w => mem'[r] = w[r] /\ doubt'[r] = {}
        /\ \A r \in Reg : r \notin DOMAIN w => mem'[r] = mem[r] /\ doubt'[r] = doubt[r]
    BY <1>1, <1>4, WriteEffect
  <1>6. TodoOK' /\ open /\ open' /\ call' = call /\ blind' = FALSE /\ Len(todo') = Len(todo) - 1
        /\ Len(todo) \in Nat
    BY <1>1, NextStepTodo DEF Next_step
  <1>7. TypeOK'
    <2>1. {} \in Value
      BY DEF Value
    <2>2. QED
      BY <1>1, <1>5, <1>6, <2>1, HistoryStep DEF TypeOK
  <1>8. On(TRUE) = Bit /\ On(FALSE) = {}
    BY DEF On
  <1>9. (bCrc => CrcMatch) /\ (bPar => ParMatch)
    BY <1>1, <1>6 DEF BlindOK, SettledOK, OpeningOK, TypeOK
  <1>10. CrcMatch' /\ ParMatch' /\ BitsMatch'
    <2>1. CrcMatch'
      <3>1. CASE bCrc = TRUE
        BY <1>1, <1>3, <1>5, <1>9, <3>1 DEF CrcMatch, Agree
      <3>2. CASE bCrc = FALSE
        BY <1>1, <1>2, <1>3, <1>5, <1>8, <3>2 DEF CrcMatch, Agree
      <3>3. QED
        BY <3>1, <3>2 DEF TypeOK
    <2>2. ParMatch'
      <3>1. CASE bPar = TRUE
        BY <1>1, <1>3, <1>5, <1>9, <3>1 DEF ParMatch, Agree
      <3>2. CASE bPar = FALSE
        BY <1>1, <1>2, <1>3, <1>5, <1>8, <3>2 DEF ParMatch, Agree
      <3>3. QED
        BY <3>1, <3>2 DEF TypeOK
    <2>3. BitsMatch'
      BY <1>1, <1>2, <1>3, <1>5 DEF BitsMatch, BitsAgree, Agree
    <2>4. QED
      BY <2>1, <2>2, <2>3
  <1>11. call.name = "open" => Opening /\ Len(todo) = 1 /\ todo' = <<>>
    <2>1. SUFFICES ASSUME call.name = "open" PROVE Opening /\ Len(todo) = 1 /\ todo' = <<>>
      OBVIOUS
    <2>2. Opening /\ Len(todo) = 1
      BY <1>1, <1>6, <2>1, OpeningStep DEF Opening
    <2>3. todo' \in Seq(StepSet) /\ Len(todo') = 0
      BY <1>6, <2>2 DEF TodoOK
    <2>4. QED
      BY <2>2, <2>3
  <1>12. ~Opening'
    BY <1>6, <1>11 DEF Opening
  <1>13. ASSUME ~failed'
         PROVE  /\ ui8Parameters' = parameters'
                /\ AutoMatch'
                /\ \A r \in Reg \cap Flagged : doubt'[r] = {}
    <2>1. CASE Opening
      <3>1. ~bCrc /\ ~bPar /\ ~bAutoIso14443_4 /\ ~autoSet /\ ui8Parameters = parameters
        BY <1>11, <2>1 DEF OpeningOK, Opening
      <3>2. Flagged \subseteq DOMAIN w
        BY <1>3, <3>1 DEF Flagged
      <3>3. AutoMatch'
        BY <1>1, <3>1, HistoryStep DEF AutoMatch
      <3>4. QED
        BY <1>1, <1>5, <3>1, <3>2, <3>3
    <2>2. CASE ~Opening
      <3>1. ~failed /\ ~blind
        BY <1>1, <1>6, <1>13 DEF BlindOK
      <3>2. /\ ui8Parameters = parameters
            /\ AutoMatch
            /\ \A r \in Reg \cap Flagged : doubt[r] = {}
        BY <1>6, <2>2, <3>1 DEF SettledOK
      <3>3. AutoMatch'
        BY <1>1, <3>2, HistoryStep DEF AutoMatch
      <3>4. QED
        BY <1>1, <1>5, <3>2, <3>3
    <2>3. QED
      BY <2>1, <2>2
  <1>14. SettledOK' /\ BlindOK' /\ OpeningOK'
    BY <1>6, <1>10, <1>12, <1>13 DEF SettledOK, BlindOK, OpeningOK
  <1>15. ReopenHeals'
    <2>1. SUFFICES ASSUME call.name = "open"
                   PROVE  /\ \A r \in (DOMAIN Wanted)' : doubt'[r] = {} /\ mem'[r] = On(r \in {"TxCrc", "RxCrc"})
                          /\ bCrc' /\ bPar'
      BY <1>6 DEF ReopenHeals, Returned
    <2>2. ~bCrc /\ ~bPar
      BY <1>11, <2>1 DEF OpeningOK
    <2>3. Flagged \subseteq DOMAIN w
      BY <1>3, <2>2 DEF Flagged
    <2>4. (DOMAIN Wanted)' = Reg \cap Flagged
      BY DEF Wanted, Flagged
    <2>5. QED
      BY <1>1, <1>2, <1>5, <1>8, <2>3, <2>4 DEF Flagged, On
  <1>16. InitiatorProgress'
    <2>1. SUFFICES ASSUME call.name = "initiator_init", ~failed PROVE Progress(Len(todo))'
      BY <1>1, <1>6 DEF InitiatorProgress
    <2>2. Len(todo) = 1 /\ Progress(1)
      BY <1>1, <1>6, <2>1, InitiatorOps DEF InitiatorProgress
    <2>3. \A r \in Reg \cap Framing : mem'[r] = mem[r]
      BY <1>3, <1>5 DEF Framing
    <2>4. ~failed'
      BY <1>1, <2>1
    <2>5. \A r \in Reg \cap Flagged : doubt'[r] = {}
      BY <1>13, <2>4
    <2>6. \A r \in Reg \cap {"TxCrc", "RxCrc"} : mem'[r] = Bit
      BY <1>1, <1>8, <1>10, <2>5 DEF CrcMatch, Agree, Flagged
    <2>7. Cleared({"Crypto1", "ParityDisable"})'
      <3>1. \A r \in Reg \cap {"ParityDisable"} : mem'[r] = {}
        BY <1>1, <1>8, <1>10, <2>5 DEF ParMatch, Agree, Flagged
      <3>2. \A r \in Reg \cap {"Crypto1"} : mem'[r] = {}
        BY <1>2, <1>3, <1>5
      <3>3. QED
        BY <3>1, <3>2 DEF Cleared
    <2>8. QED
      BY <1>1, <2>2, <2>3, <2>6, <2>7 DEF Progress, Cleared, Framing
  <1>17. QED
    BY <1>6, <1>7, <1>14, <1>15, <1>16

-----------------------------------------------------------------------------
(* The calls of the application preserve the invariant                     *)

LEMMA CallsPreserves ==
    ASSUME SettingsInv, NEW c \in Call, c.name # "open", NEW steps \in Seq(StepSet),
           c.name = "initiator_init" => steps = nfc_initiator_init, Calls(c, steps)
    PROVE  SettingsInv'
  <1> USE DEF SettingsInv
  <1>1. /\ open /\ todo = <<>> /\ call' = c /\ todo' = steps
        /\ UNCHANGED <<mem, dirty, doubt, ret, parameters, open, failed, blind, rawBits, autoSet>>
        /\ UNCHANGED <<bCrc, bPar, bAutoIso14443_4, bEasyFraming, ui8TxBits, ui8Parameters>>
    BY DEF Calls, fileVars, hostVars
  <1>2. TypeOK'
    BY <1>1 DEF TypeOK
  <1>3. TodoOK'
    BY <1>1, SuffixEmpty, InitiatorSteps DEF TodoOK
  <1>4. ~Opening /\ ~Opening'
    BY <1>1 DEF Opening
  <1>5. (CrcMatch => CrcMatch') /\ (ParMatch => ParMatch') /\ (BitsMatch => BitsMatch')
    BY <1>1 DEF CrcMatch, ParMatch, BitsMatch, BitsAgree, Agree
  <1>6. BlindOK' /\ OpeningOK' /\ ReopenHeals'
    BY <1>1, <1>4, <1>5 DEF BlindOK, OpeningOK, ReopenHeals, Returned
  <1>7. SettledOK'
    BY <1>1, <1>4, <1>5 DEF SettledOK, AutoMatch
  <1>8. InitiatorProgress'
    <2>1. SUFFICES ASSUME c.name = "initiator_init" PROVE Progress(Len(todo))'
      BY <1>1 DEF InitiatorProgress
    <2>2. Len(todo') = 9
      BY <1>1, <2>1, InitiatorSteps
    <2>3. QED
      BY <2>2 DEF Progress
  <1>9. QED
    BY <1>2, <1>3, <1>6, <1>7, <1>8

LEMMA ApplicationPreserves ==
    ASSUME SettingsInv,
           \/ \E p \in Asked, b \in BOOLEAN : set_property_bool(p, b)
           \/ initiator_init
           \/ \E kind \in {"14443_4", "14443_3", "felica", "dep"} : target_init(kind)
           \/ transceive_bytes
           \/ \E p \in {"bytes", "bits"} : transceive_bits(p)
           \/ \E p \in {"bytes", "bits"} : transceive_timed(p)
    PROVE  SettingsInv'
  <1>1. /\ Named("set_property") \in Call /\ Named("set_property").name = "set_property"
        /\ Named("initiator_init") \in Call /\ Named("initiator_init").name = "initiator_init"
        /\ Named("target_init") \in Call /\ Named("target_init").name = "target_init"
        /\ Named("transceive") \in Call /\ Named("transceive").name = "transceive"
    BY DEF Named, Call
  <1>2. ASSUME NEW p \in Asked, NEW b \in BOOLEAN, set_property_bool(p, b)
        PROVE  SettingsInv'
    <2>1. <<Set(p, b)>> \in Seq(StepSet)
      <3>1. Set(p, b) \in StepSet
        BY StepIn, SettingsAssumption
      <3>2. QED
        BY <3>1 DEF Set
    <2>2. Calls(Named("set_property"), <<Set(p, b)>>)
      BY <1>2 DEF set_property_bool
    <2>3. QED
      BY <1>1, <2>1, <2>2, CallsPreserves
  <1>3. CASE initiator_init
    BY <1>1, <1>3, CallsPreserves, InitiatorSteps DEF initiator_init
  <1>4. ASSUME NEW kind \in {"14443_4", "14443_3", "felica", "dep"}, target_init(kind)
        PROVE  SettingsInv'
    BY <1>1, <1>4, CallsPreserves, TargetSteps DEF target_init
  <1>5. CASE transceive_bytes
    <2>1. <<[op |-> "txbits", p |-> "bytes", b |-> TRUE], Send("bytes")>> \in Seq(StepSet)
      <3>1. [op |-> "txbits", p |-> "bytes", b |-> TRUE] \in StepSet /\ Send("bytes") \in StepSet
        BY StepIn
      <3>2. QED
        BY <3>1
    <2>2. Calls(Named("transceive"), <<[op |-> "txbits", p |-> "bytes", b |-> TRUE], Send("bytes")>>)
      BY <1>5 DEF transceive_bytes
    <2>3. QED
      BY <1>1, <2>1, <2>2, CallsPreserves
  <1>6. ASSUME NEW p \in {"bytes", "bits"}, transceive_bits(p)
        PROVE  SettingsInv'
    <2>1. <<[op |-> "txbits", p |-> p, b |-> TRUE], Send(p), Send("rcc")>> \in Seq(StepSet)
      <3>1. [op |-> "txbits", p |-> p, b |-> TRUE] \in StepSet /\ Send(p) \in StepSet /\ Send("rcc") \in StepSet
        BY StepIn
      <3>2. QED
        BY <3>1
    <2>2. Calls(Named("transceive"), <<[op |-> "txbits", p |-> p, b |-> TRUE], Send(p), Send("rcc")>>)
      BY <1>6 DEF transceive_bits
    <2>3. QED
      BY <1>1, <2>1, <2>2, CallsPreserves
  <1>7. ASSUME NEW p \in {"bytes", "bits"}, transceive_timed(p)
        PROVE  SettingsInv'
    <2>1. <<Frame(p), Try("level"), Send("fifo"), Try("timer")>> \in Seq(StepSet)
      <3>1. Frame(p) \in StepSet /\ Try("level") \in StepSet /\ Send("fifo") \in StepSet /\ Try("timer") \in StepSet
        BY StepIn
      <3>2. QED
        BY <3>1
    <2>2. Calls(Named("transceive"), <<Frame(p), Try("level"), Send("fifo"), Try("timer")>>)
      BY <1>7 DEF transceive_timed
    <2>3. QED
      BY <1>1, <2>1, <2>2, CallsPreserves
  <1>8. QED
    BY <1>2, <1>3, <1>4, <1>5, <1>6, <1>7

LEMMA ClosePreserves ==
    ASSUME SettingsInv, close
    PROVE  SettingsInv'
  <1> USE DEF SettingsInv
  <1>1. /\ open' = FALSE /\ call' = Named("close") /\ todo = <<>> /\ todo' = <<>>
        /\ UNCHANGED <<parameters, failed, blind, rawBits, autoSet>>
        /\ UNCHANGED <<bCrc, bPar, bAutoIso14443_4, bEasyFraming, ui8TxBits, ui8Parameters>>
    BY DEF close, hostVars
  <1>2. Named("close") \in Call /\ Named("close").name = "close"
    BY DEF Named, Call
  <1>3. None \in Registers /\ Success({}) \in Result /\ Failure \in Result
    BY DEF None, Registers, Value, Success, Failure, Result
  <1>4. mem' \in Registers /\ dirty' \in Registers /\ doubt' \in Registers /\ ret' \in Result
    <2>1. CASE Sent /\ ret' = Success({})
      BY <1>3, <2>1 DEF Sent, TypeOK
    <2>2. CASE Fail
      <3>1. doubt' = [r \in AllReg |-> doubt[r] \cup dirty[r]] /\ mem' \in Registers /\ dirty' = None /\ ret' = Failure
        BY <2>2, AllRegIsReg DEF Fail, Kept
      <3>2. doubt' \in Registers
        BY <3>1 DEF TypeOK, Registers, Value
      <3>3. QED
        BY <1>3, <3>1, <3>2
    <2>3. QED
      BY <2>1, <2>2 DEF close
  <1>5. TypeOK'
    BY <1>1, <1>2, <1>4 DEF TypeOK
  <1>6. TodoOK'
    BY <1>1, <1>2 DEF TodoOK
  <1>7. OpeningOK' /\ BlindOK' /\ SettledOK' /\ InitiatorProgress' /\ ReopenHeals'
    BY <1>1, <1>2 DEF OpeningOK, Opening, BlindOK, SettledOK, InitiatorProgress, ReopenHeals, Returned, Idle
  <1>8. QED
    BY <1>5, <1>6, <1>7

\* nfc_open starts: what holds then does not depend on the device's past.
LEMMA OpeningInv ==
    ASSUME TypeOK, open, todo = pn53x_init, call = Named("open"), ~failed, ~blind,
           ~bCrc, ~bPar, ~bAutoIso14443_4, ~autoSet
    PROVE  SettingsInv
  <1>1. call.name = "open"
    BY DEF Named
  <1>2. Len(todo) = 3 /\ todo \in Seq(StepSet) /\ todo # <<>>
    <2>1. Len(todo) = 3 /\ todo \in Seq(StepSet)
      BY OpenSteps
    <2>2. todo # <<>>
      BY <2>1
    <2>3. QED
      BY <2>1, <2>2
  <1>3. TodoOK
    BY <1>1, <1>2, SuffixEmpty, OpenSteps DEF TodoOK
  <1>4. OpeningOK /\ BlindOK /\ SettledOK /\ InitiatorProgress /\ ReopenHeals
    BY <1>1, <1>2 DEF OpeningOK, Opening, BlindOK, SettledOK, InitiatorProgress, ReopenHeals, Returned, Idle
  <1>5. QED
    BY <1>3, <1>4 DEF SettingsInv

LEMMA ReopenPreserves ==
    ASSUME SettingsInv, reopen
    PROVE  SettingsInv'
  <1>1. Named("open") \in Call
    BY DEF Named, Call
  <1>2. TypeOK'
    BY <1>1 DEF SettingsInv, TypeOK, reopen, fileVars
  <1>3. /\ open' /\ todo' = pn53x_init /\ call' = Named("open") /\ ~failed' /\ ~blind'
        /\ ~bCrc' /\ ~bPar' /\ ~bAutoIso14443_4' /\ ~autoSet'
    BY DEF reopen
  <1>4. call'.name = "open"
    BY <1>3 DEF Named
  <1>5. Len(todo') = 3 /\ todo' \in Seq(StepSet) /\ todo' # <<>>
    <2>1. Len(todo') = 3 /\ todo' \in Seq(StepSet)
      BY <1>3, OpenSteps
    <2>2. todo' # <<>>
      BY <2>1
    <2>3. QED
      BY <2>1, <2>2
  <1>6. TodoOK'
    BY <1>3, <1>4, <1>5, SuffixEmpty, OpenSteps DEF TodoOK
  <1>7. OpeningOK' /\ BlindOK' /\ SettledOK' /\ InitiatorProgress' /\ ReopenHeals'
    BY <1>3, <1>4, <1>5 DEF OpeningOK, Opening, BlindOK, SettledOK, InitiatorProgress, ReopenHeals, Returned, Idle
  <1>8. QED
    BY <1>2, <1>6, <1>7 DEF SettingsInv

-----------------------------------------------------------------------------
(* The theorems                                                            *)

LEMMA InitSettings == Init => SettingsInv
  <1> SUFFICES ASSUME Init PROVE SettingsInv
    OBVIOUS
  <1>1. None \in Registers /\ Success({}) \in Result /\ Named("open") \in Call
    BY DEF None, Registers, Value, Success, Result, Named, Call
  <1>2. TypeOK
    BY <1>1 DEF Init, FileInit, TypeOK
  <1>3. QED
    BY <1>2, OpeningInv DEF Init

LEMMA NextSettings == SettingsInv /\ [Next]_vars => SettingsInv'
  <1> SUFFICES ASSUME SettingsInv, [Next]_vars PROVE SettingsInv'
    OBVIOUS
  <1>1. CASE UNCHANGED vars
    <2>1. /\ UNCHANGED <<mem, dirty, doubt, ret, parameters, open, todo, call, failed, blind, rawBits, autoSet>>
          /\ UNCHANGED <<bCrc, bPar, bAutoIso14443_4, bEasyFraming, ui8TxBits, ui8Parameters>>
      BY <1>1 DEF vars, fileVars, hostVars
    <2>2. TypeOK' /\ TodoOK' /\ OpeningOK' /\ (CrcMatch <=> CrcMatch') /\ (ParMatch <=> ParMatch')
          /\ (BitsMatch <=> BitsMatch')
      BY <2>1 DEF SettingsInv, TypeOK, TodoOK, OpeningOK, Opening, CrcMatch, ParMatch, BitsMatch, BitsAgree, Agree
    <2>3. BlindOK' /\ SettledOK'
      BY <2>1, <2>2 DEF SettingsInv, BlindOK, SettledOK, AutoMatch, Opening
    <2>4. InitiatorProgress' /\ ReopenHeals'
      BY <2>1 DEF SettingsInv, InitiatorProgress, Progress, Cleared, ReopenHeals, Returned, Idle, Wanted
    <2>5. QED
      BY <2>2, <2>3, <2>4 DEF SettingsInv
  <1>2. CASE set_nothing \/ set_register \/ set_easy_framing \/ set_command \/ set_auto
    BY <1>2, SetNothingPreserves, SetRegisterPreserves, SetEasyFramingPreserves, SetCommandPreserves, SetAutoPreserves
  <1>3. CASE set_parameters \/ init_parameters \/ reset_settings \/ set_tx_bits \/ send \/ try \/ frame
    BY <1>3, SetParametersPreserves, InitParametersPreserves, ResetPreserves, SetTxBitsPreserves, SetCommandPreserves,
       TryPreserves, FramePreserves
  <1>4. CASE \/ \E p \in Asked, b \in BOOLEAN : set_property_bool(p, b)
             \/ initiator_init
             \/ \E kind \in {"14443_4", "14443_3", "felica", "dep"} : target_init(kind)
             \/ transceive_bytes
             \/ \E p \in {"bytes", "bits"} : transceive_bits(p)
             \/ \E p \in {"bytes", "bits"} : transceive_timed(p)
    BY <1>4, ApplicationPreserves
  <1>5. CASE close \/ reopen
    BY <1>5, ClosePreserves, ReopenPreserves
  <1>6. QED
    BY <1>1, <1>2, <1>3, <1>4, <1>5 DEF Next

\* The inductive invariant holds through every call and failure.
THEOREM SettingsInductive == Spec => []SettingsInv
  BY InitSettings, NextSettings, PTL DEF Spec

\* What the flags say of each symbol they stand for, one by one.
LEMMA WantedIs ==
    /\ DOMAIN Wanted = Reg \cap Flagged
    /\ \A r \in Reg \cap {"TxCrc", "RxCrc"} : Wanted[r] = On(bCrc)
    /\ \A r \in Reg \cap {"ParityDisable"} : Wanted[r] = On(~bPar)
    /\ \A r \in Reg \cap {"TxLastBits"} : Wanted[r] = ui8TxBits
  <1>1. DOMAIN Wanted = Reg \cap Flagged
    BY DEF Wanted, Flagged
  <1>2. \A r \in Reg \cap {"TxCrc", "RxCrc"} : Wanted[r] = On(bCrc)
    BY DEF Wanted
  <1>3. \A r \in Reg \cap {"ParityDisable"} : Wanted[r] = On(~bPar)
    BY DEF Wanted
  <1>4. \A r \in Reg \cap {"TxLastBits"} : Wanted[r] = ui8TxBits
    BY DEF Wanted
  <1>5. QED
    BY <1>1, <1>2, <1>3, <1>4

\* The flags that pn53x_set_property_bool and pn53x_set_tx_bits trust agree with
\* the chip through every failure, but for what FlagsMatch excepts: for every set of
\* symbols and register width.
THEOREM FlagsMatchHolds == Spec => []FlagsMatch
  <1>1. SettingsInv => FlagsMatch
    <2>1. SUFFICES ASSUME SettingsInv, open, ~blind, call.name = "open" => todo = <<>>
                   PROVE  /\ \A r \in DOMAIN Wanted :
                                mem[r] \ doubt[r] = Wanted[r] \ doubt[r] \/ (r = "TxLastBits" /\ rawBits)
                          /\ ~failed => /\ ui8Parameters = parameters
                                        /\ autoSet => (bAutoIso14443_4 <=> "AUTO_RATS" \in parameters)
      BY DEF FlagsMatch, SettingsInv
    <2>2. ~Opening
      BY <2>1 DEF Opening
    <2>3. CrcMatch /\ ParMatch /\ BitsMatch /\ (~failed => ui8Parameters = parameters /\ AutoMatch)
      BY <2>1, <2>2 DEF SettingsInv, SettledOK
    <2>4. \A r \in DOMAIN Wanted :
            mem[r] \ doubt[r] = Wanted[r] \ doubt[r] \/ (r = "TxLastBits" /\ rawBits)
      BY <2>3, WantedIs DEF CrcMatch, ParMatch, BitsMatch, BitsAgree, Agree, Flagged
    <2>5. QED
      BY <2>3, <2>4 DEF AutoMatch
  <1>2. QED
    BY <1>1, SettingsInductive, PTL

\* As long as no command fails, nfc_initiator_init leaves every symbol and flag
\* as its documentation says, whatever was called before it.
THEOREM ReadyUnlessFailedHolds == Spec => []ReadyUnlessFailed
  <1>1. SettingsInv => ReadyUnlessFailed
    <2>1. SUFFICES ASSUME SettingsInv, Returned("initiator_init"), ~failed PROVE InitiatorSettings
      BY DEF ReadyUnlessFailed
    <2>2. open /\ todo = <<>> /\ call.name = "initiator_init"
      BY <2>1 DEF Returned, Idle
    <2>3. Len(todo) = 0
      BY <2>2
    <2>4. Progress(0)
      BY <2>1, <2>2, <2>3 DEF SettingsInv, InitiatorProgress
    <2>5. /\ bAutoIso14443_4 /\ bEasyFraming
          /\ \A r \in Reg \cap (Framing \cup {"Crypto1", "ParityDisable"}) : mem[r] = {}
          /\ \A r \in Reg \cap {"TxCrc", "RxCrc"} : mem[r] = Bit
      BY <2>4 DEF Progress, Cleared, Framing
    <2>6. "AUTO_RATS" \in parameters
      BY <2>1, <2>2, <2>5 DEF SettingsInv, SettledOK, AutoMatch, BlindOK, Opening
    <2>7. ASSUME NEW r \in Reg \ {"TxLastBits"}
          PROVE  mem[r] = On(r \in {"TxCrc", "RxCrc"})
      <3>1. r \in {"TxCrc", "RxCrc"} \/ r \in Framing \cup {"Crypto1", "ParityDisable"}
        BY SettingsAssumption DEF Symbol, Framing
      <3>2. CASE r \in {"TxCrc", "RxCrc"}
        BY <2>5, <3>2 DEF On
      <3>3. CASE r \in Framing \cup {"Crypto1", "ParityDisable"}
        BY <2>5, <3>3 DEF On, Framing
      <3>4. QED
        BY <3>1, <3>2, <3>3
    <2>8. QED
      BY <2>5, <2>6, <2>7 DEF InitiatorSettings
  <1>2. QED
    BY <1>1, SettingsInductive, PTL

\* A device that is closed and opened again starts from known settings, unless
\* the driver did not look at a failing pn53x_init.
THEOREM ReopenHealsHolds == Spec => []ReopenHeals
  <1>1. SettingsInv => ReopenHeals
    BY DEF SettingsInv
  <1>2. QED
    BY <1>1, SettingsInductive, PTL
=============================================================================
