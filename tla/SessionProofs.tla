---------------------------- MODULE SessionProofs ----------------------------
(***************************************************************************)
(* The session of an application keeps host and chip in agreement, for any *)
(* targets and chip types, and through any sequence of calls.  The tools   *)
(* built on sessions follow: the relay of a card in two processes, the     *)
(* emulated tag whose file a reader may be writing when it is saved, and   *)
(* the copying of MIFARE cards into files and back.                        *)
(***************************************************************************)
EXTENDS Session, Emulation, Relay, MifareTools, FiniteSetTheorems, SequenceTheorems, TLAPS

-----------------------------------------------------------------------------
(* What the operators on the chip's state do                               *)

\* c is a state of the chip with these components.
Shape(c, rf, selected, emulated, sam) ==
    c \in Chip /\ c.rf = rf /\ c.selected = selected /\ c.emulated = emulated /\ c.sam = sam

\* Each operator on the chip's state changes the components it names, no other.
LEMMA ChipOperators ==
    ASSUME NEW c \in Chip
    PROVE  /\ Shape(Dark(c), FALSE, NoTag, c.emulated, c.sam)
           /\ Shape(Lit(c), TRUE, c.selected, c.emulated, c.sam)
           /\ Shape(Deselected(c), c.rf, NoTag, c.emulated, c.sam)
           /\ Shape(Quiet(c), c.rf, c.selected, NoTag, c.sam)
  BY DEF Shape, Dark, Lit, Deselected, Quiet, Chip

LEMMA ChipSelection ==
    ASSUME NEW c \in Chip, NEW t \in Tag
    PROVE  /\ Shape(Selected(c, t), TRUE, t, c.emulated, c.sam)
           /\ Shape([c EXCEPT !.emulated = t], c.rf, c.selected, t, c.sam)
  BY DEF Shape, Selected, Chip

LEMMA ChipSam ==
    ASSUME NEW c \in Chip, NEW m \in {"NORMAL", "WIRED_CARD"}
    PROVE  Shape(SAM(c, m), c.rf, c.selected, c.emulated, m)
  BY DEF Shape, SAM, Chip

\* The SAM mode of the chip once it is awake.
WokenSam == IF power_mode = "LOWVBAT" THEN "NORMAL" ELSE chip.sam

\* What waking the chip up, and taking it to the states the calls leave it in,
\* does to its components.
LEMMA ChipAwake ==
    ASSUME TypeOK
    PROVE  /\ Shape(Awake(chip), chip.rf, chip.selected, chip.emulated, WokenSam)
           /\ Shape(Lit(Awake(chip)), TRUE, chip.selected, chip.emulated, WokenSam)
           /\ Shape(Dark(Awake(chip)), FALSE, NoTag, chip.emulated, WokenSam)
           /\ Shape(Lit(Dark(Awake(chip))), TRUE, NoTag, chip.emulated, WokenSam)
           /\ Shape(SAM(Lit(Dark(Awake(chip))), "NORMAL"), TRUE, NoTag, chip.emulated, "NORMAL")
           /\ Shape(Quiet(Deselected(Awake(chip))), chip.rf, NoTag, NoTag, WokenSam)
           /\ Shape(Quiet(Dark(Awake(chip))), FALSE, NoTag, NoTag, WokenSam)
           /\ AwakeSam \in {"NORMAL", "WIRED_CARD"}
  <1>1. Shape(Awake(chip), chip.rf, chip.selected, chip.emulated, WokenSam)
    <2>1. Shape(SAM(chip, "NORMAL"), chip.rf, chip.selected, chip.emulated, "NORMAL")
      BY ChipSam DEF TypeOK
    <2>2. QED
      BY <2>1 DEF Shape, Awake, WokenSam, TypeOK
  <1>2. /\ Shape(Lit(Awake(chip)), TRUE, chip.selected, chip.emulated, WokenSam)
        /\ Shape(Dark(Awake(chip)), FALSE, NoTag, chip.emulated, WokenSam)
        /\ Shape(Deselected(Awake(chip)), chip.rf, NoTag, chip.emulated, WokenSam)
    BY <1>1, ChipOperators DEF Shape
  <1>3. /\ Shape(Lit(Dark(Awake(chip))), TRUE, NoTag, chip.emulated, WokenSam)
        /\ Shape(Quiet(Deselected(Awake(chip))), chip.rf, NoTag, NoTag, WokenSam)
        /\ Shape(Quiet(Dark(Awake(chip))), FALSE, NoTag, NoTag, WokenSam)
    BY <1>2, ChipOperators DEF Shape
  <1>4. Shape(SAM(Lit(Dark(Awake(chip))), "NORMAL"), TRUE, NoTag, chip.emulated, "NORMAL")
    BY <1>3, ChipSam DEF Shape
  <1>5. QED
    BY <1>1, <1>2, <1>3, <1>4 DEF AwakeSam, TypeOK

LEMMA ChipTarget ==
    ASSUME TypeOK, NEW t \in Tag
    PROVE  /\ Shape(Selected(chip, t), TRUE, t, chip.emulated, chip.sam)
           /\ Shape(Deselected(Lit(chip)), TRUE, NoTag, chip.emulated, chip.sam)
           /\ Shape([Ready EXCEPT !.emulated = t], FALSE, NoTag, t, WokenSam)
  <1>1. chip \in Chip /\ Shape(Lit(chip), TRUE, chip.selected, chip.emulated, chip.sam)
    BY ChipOperators DEF TypeOK
  <1>2. Shape(Ready, FALSE, NoTag, chip.emulated, WokenSam)
    BY ChipAwake DEF Ready
  <1>3. Shape([Ready EXCEPT !.emulated = t], FALSE, NoTag, t, WokenSam)
    BY <1>2 DEF Shape, Chip
  <1>4. Shape(Selected(chip, t), TRUE, t, chip.emulated, chip.sam)
    BY <1>1, ChipSelection
  <1>5. Shape(Deselected(Lit(chip)), TRUE, NoTag, chip.emulated, chip.sam)
    BY <1>1, ChipOperators DEF Shape
  <1>6. QED
    BY <1>3, <1>4, <1>5

-----------------------------------------------------------------------------
(* Types                                                                   *)

\* What a call that returns leaves as its result.
LEMMA ReturnsType ==
    ASSUME NEW op \in Call, NEW out \in {"ok", "none", "released", "error"},
           NEW t \in Tag \cup {NoTag}, TypeOK, Returns(op, out, t)
    PROVE  /\ result' \in Result
           /\ result'.op = op /\ result'.out = out /\ result'.tag = t /\ result'.had = chip.selected
  BY DEF Returns, Result, TypeOK, Chip

LEMMA IdledType ==
    ASSUME TypeOK
    PROVE  /\ Idled(operating_mode) \in Chip
           /\ HalfIdled(operating_mode) \subseteq Chip
           /\ Idled(operating_mode).sam = chip.sam
           /\ \A c \in HalfIdled(operating_mode) : c.sam = chip.sam
           /\ Idled(operating_mode).selected \in {chip.selected, NoTag}
           /\ Idled(operating_mode).rf \in {chip.rf, FALSE}
           /\ operating_mode = "INITIATOR" =>
                ~Idled(operating_mode).rf /\ Idled(operating_mode).selected = NoTag
           /\ operating_mode # "IDLE" => Idled(operating_mode).emulated = NoTag
           /\ operating_mode = "IDLE" => Idled(operating_mode) = chip
           /\ IdledPower(operating_mode) \in {"NORMAL", "LOWVBAT"}
           /\ type # "PN532" => IdledPower(operating_mode) = power_mode
  <1> USE DEF Shape
  <1> operating_mode \in {"INITIATOR", "TARGET", "IDLE"} /\ chip \in Chip
      /\ power_mode \in {"NORMAL", "LOWVBAT"}
    BY DEF TypeOK, Mode
  <1>0. /\ IdledPower(operating_mode) \in {"NORMAL", "LOWVBAT"}
        /\ type # "PN532" => IdledPower(operating_mode) = power_mode
    BY DEF IdledPower
  <1>1. CASE operating_mode = "INITIATOR"
    <2>1. Idled(operating_mode) = Quiet(Dark(chip))
      BY <1>1 DEF Idled
    <2>2. HalfIdled(operating_mode) = {chip, Deselected(chip), Dark(chip), Quiet(Dark(chip))}
      BY <1>1, <2>1 DEF HalfIdled
    <2>3. /\ Dark(chip) \in Chip /\ Dark(chip).rf = FALSE /\ Dark(chip).selected = NoTag
          /\ Dark(chip).sam = chip.sam
          /\ Deselected(chip) \in Chip /\ Deselected(chip).sam = chip.sam
      BY ChipOperators
    <2>4. /\ Quiet(Dark(chip)) \in Chip /\ Quiet(Dark(chip)).rf = FALSE
          /\ Quiet(Dark(chip)).selected = NoTag /\ Quiet(Dark(chip)).emulated = NoTag
          /\ Quiet(Dark(chip)).sam = chip.sam
      BY <2>3, ChipOperators
    <2>5. QED
      BY <1>0, <1>1, <2>1, <2>2, <2>3, <2>4
  <1>2. CASE operating_mode = "TARGET"
    <2>1. Idled(operating_mode) = Quiet(chip)
      BY <1>2 DEF Idled
    <2>2. HalfIdled(operating_mode) = {chip, Quiet(chip)}
      BY <1>2, <2>1 DEF HalfIdled
    <2>3. /\ Quiet(chip) \in Chip /\ Quiet(chip).rf = chip.rf /\ Quiet(chip).emulated = NoTag
          /\ Quiet(chip).selected = chip.selected /\ Quiet(chip).sam = chip.sam
      BY ChipOperators
    <2>4. QED
      BY <1>0, <1>2, <2>1, <2>2, <2>3
  <1>3. CASE operating_mode = "IDLE"
    <2>1. Idled(operating_mode) = chip
      BY <1>3 DEF Idled
    <2>2. HalfIdled(operating_mode) = {}
      BY <1>3 DEF HalfIdled
    <2>3. QED
      BY <1>0, <1>3, <2>1, <2>2
  <1> QED
    BY <1>1, <1>2, <1>3

-----------------------------------------------------------------------------
(* The inductive invariant                                                 *)

\* Only an initiator has a field it switched on itself, and a target selected;
\* an idle device emulates nothing.
FieldOfInitiator ==
    ~failed =>
        /\ chip.selected # NoTag => operating_mode = "INITIATOR"
        /\ chip.rf /\ ~byHand => operating_mode = "INITIATOR"
        /\ operating_mode = "IDLE" => chip.emulated = NoTag

\* The role the application was told, and what it rests on.
RoleMatches == role = "initiator" => operating_mode = "INITIATOR"
TargetKnown == role = "target" /\ current_target = NoTag => timedOut \/ released

\* The target the chip has is the host's, if the last selection recorded it.
SelectedKnown == ~failed /\ ~unnamed /\ chip.selected # NoTag => current_target = chip.selected

\* Only a PN532 has a SAM, and low VBat.
SamElsewhere == type # "PN532" => chip.sam = "NORMAL" /\ power_mode = "NORMAL"

SessionInv ==
    /\ TypeOK
    /\ IdleAtRest
    /\ PresenceWhenListed
    /\ CrashOnlyOrphaned
    /\ SamUnlessFailed
    /\ FieldOfInitiator
    /\ RoleMatches
    /\ TargetKnown
    /\ SelectedKnown
    /\ SamElsewhere

-----------------------------------------------------------------------------
(* Each call preserves the invariant                                       *)

\* What has to be seen of a call in which a command fails.  The parts of the
\* invariant that hold only without a failure then say nothing.
LEMMA BreaksPreserves ==
    ASSUME SessionInv, NEW op \in Call, NEW t \in Tag \cup {NoTag}, NEW cs,
           Breaks(op, t, cs),
           \A c \in cs : c \in Chip /\ c.sam \in {chip.sam, "NORMAL"},
           UNCHANGED <<type, crashed>>,
           operating_mode' \in Mode, current_target' \in Tag \cup {NoTag},
           sam_mode' \in {"NORMAL", "WIRED_CARD"}, power_mode' \in {"NORMAL", power_mode},
           bEasyFraming' \in BOOLEAN,
           role' \in {"none", role},
           \/ role' = "none"
           \/ operating_mode' = operating_mode /\ (current_target' = current_target \/ role # "target")
    PROVE  SessionInv'
  <1>1. result' \in Result /\ failed' = TRUE /\ UNCHANGED <<timedOut, released, byHand, drowsy, unnamed, chained>>
        /\ chip' \in Chip /\ chip'.sam \in {chip.sam, "NORMAL"} /\ result'.out = "error"
    BY ReturnsType DEF Breaks, SessionInv
  <1>2. TypeOK'
    BY <1>1 DEF SessionInv, TypeOK
  <1>3. CrashOnlyOrphaned' /\ SamElsewhere'
    BY <1>1, <1>2 DEF SessionInv, CrashOnlyOrphaned, SamElsewhere, TypeOK
  <1>4. RoleMatches' /\ TargetKnown'
    BY <1>1, <1>2 DEF SessionInv, RoleMatches, TargetKnown, TypeOK
  <1>5. QED
    BY <1>1, <1>2, <1>3, <1>4 DEF SessionInv, IdleAtRest, Returned, PresenceWhenListed, SamUnlessFailed,
       FieldOfInitiator, SelectedKnown

\* A call that changes nothing keeps the invariant if what it returns is right.
LEMMA ResultOnly ==
    ASSUME SessionInv, UNCHANGED <<hostVars, chip, role, crashed, history>>,
           result' \in Result, ~Returned("idle")', PresenceRight'
    PROVE  SessionInv'
  <1>1. TypeOK'
    BY DEF SessionInv, TypeOK, hostVars, history
  <1>2. IdleAtRest' /\ PresenceWhenListed' /\ CrashOnlyOrphaned' /\ SamUnlessFailed'
    BY <1>1 DEF SessionInv, TypeOK, hostVars, history, IdleAtRest, PresenceWhenListed, CrashOnlyOrphaned, SamUnlessFailed
  <1>3. FieldOfInitiator' /\ RoleMatches' /\ TargetKnown' /\ SelectedKnown' /\ SamElsewhere'
    BY <1>1 DEF SessionInv, TypeOK, hostVars, history, FieldOfInitiator, RoleMatches, TargetKnown, SelectedKnown, SamElsewhere
  <1>4. QED
    BY <1>1, <1>2, <1>3 DEF SessionInv

LEMMA IdlePreserves ==
    ASSUME SessionInv, idle
    PROVE  SessionInv'
  <1> USE IdledType DEF SessionInv
  <1>1. CASE /\ chip' = Idled(operating_mode)
             /\ current_target' = NoTag
             /\ operating_mode' = "IDLE"
             /\ role' = "none"
             /\ Returns("idle", "ok", NoTag)
             /\ power_mode' = IdledPower(operating_mode)
             /\ UNCHANGED <<type, history, crashed, sam_mode, bEasyFraming>>
    <2>1. result' \in Result /\ chip' \in Chip
      BY <1>1, ReturnsType DEF Call
    <2>2. TypeOK'
      BY <1>1, <2>1 DEF TypeOK, Mode, history
    <2>3. IdleAtRest' /\ FieldOfInitiator'
      BY <1>1, <2>2 DEF IdleAtRest, FieldOfInitiator, TypeOK, Mode, history
    <2>4. PresenceWhenListed'
      BY <1>1 DEF PresenceWhenListed, PresenceRight, Returns
    <2>5. CrashOnlyOrphaned' /\ SamUnlessFailed'
      BY <1>1, <2>2 DEF CrashOnlyOrphaned, SamUnlessFailed, history, TypeOK
    <2>6. RoleMatches' /\ TargetKnown' /\ SelectedKnown' /\ SamElsewhere'
      BY <1>1, <2>3 DEF RoleMatches, TargetKnown, SelectedKnown, SamElsewhere, FieldOfInitiator, history
    <2>7. QED
      BY <2>2, <2>3, <2>4, <2>5, <2>6
  <1>2. CASE /\ Breaks("idle", NoTag, HalfIdled(operating_mode))
             /\ UNCHANGED <<hostVars, role, crashed>>
    BY <1>2, BreaksPreserves DEF Call, hostVars, TypeOK
  <1> QED
    BY <1>1, <1>2 DEF idle

LEMMA ReopenPreserves ==
    ASSUME SessionInv, reopen
    PROVE  SessionInv'
  <1> USE DEF SessionInv
  <1>1. PICK c \in {Idled(operating_mode)} \cup HalfIdled(operating_mode) :
          /\ chip' = IF type = "PN532" THEN SAM(c, "NORMAL") ELSE c
          /\ failed' = (failed \/ c # Idled(operating_mode))
    BY DEF reopen
  <1>2. c \in Chip /\ c.sam = chip.sam
    BY IdledType
  <1>3. Shape(SAM(c, "NORMAL"), c.rf, c.selected, c.emulated, "NORMAL")
    BY <1>2, ChipSam
  <1>4. /\ chip' \in Chip /\ chip'.selected = c.selected /\ chip'.sam = "NORMAL"
    BY <1>1, <1>2, <1>3 DEF Shape, SamElsewhere
  <1>5. result' \in Result /\ result'.op = "open"
    BY ReturnsType DEF reopen, Call
  <1>6. TypeOK'
    BY <1>1, <1>4, <1>5 DEF TypeOK, Mode, reopen
  <1>7. IdleAtRest' /\ PresenceWhenListed' /\ CrashOnlyOrphaned' /\ SamUnlessFailed'
    BY <1>4, <1>5, <1>6 DEF IdleAtRest, Returned, PresenceWhenListed, PresenceRight, CrashOnlyOrphaned,
       SamUnlessFailed, reopen, TypeOK
  <1>8. FieldOfInitiator' /\ RoleMatches' /\ TargetKnown' /\ SamElsewhere'
    BY <1>4, <1>6 DEF FieldOfInitiator, RoleMatches, TargetKnown, SamElsewhere, reopen, TypeOK
  <1>9. SelectedKnown'
    BY <1>1, <1>4, <1>6, IdledType DEF SelectedKnown, FieldOfInitiator, reopen, TypeOK
  <1> QED
    BY <1>6, <1>7, <1>8, <1>9

LEMMA InitiatorInitPreserves ==
    ASSUME SessionInv, initiator_init
    PROVE  SessionInv'
  <1> USE DEF SessionInv
  <1> DEFINE lit == Lit(Dark(Awake(chip)))
  <1>0. TypeOK /\ chip \in Chip
    BY DEF TypeOK
  <1>1. CASE /\ chip' = IF AwakeSam = "NORMAL" THEN lit ELSE SAM(lit, "NORMAL")
             /\ operating_mode' = "INITIATOR"
             /\ sam_mode' = "NORMAL"
             /\ bEasyFraming' = TRUE
             /\ role' = "initiator"
             /\ Returns("initiator_init", "ok", NoTag)
             /\ UNCHANGED history
    <2>1. /\ Shape(chip', TRUE, NoTag, chip.emulated, IF AwakeSam = "NORMAL" THEN WokenSam ELSE "NORMAL")
          /\ UNCHANGED <<type, current_target, crashed>> /\ power_mode' = "NORMAL"
      BY <1>1, ChipAwake DEF Shape, initiator_init
    <2>2. result' \in Result /\ result'.op = "initiator_init"
      BY <1>1, ReturnsType DEF Call
    <2>3. TypeOK'
      BY <1>1, <2>1, <2>2 DEF TypeOK, Mode, Shape, history
    <2>4. IdleAtRest' /\ PresenceWhenListed' /\ CrashOnlyOrphaned'
      BY <1>1, <2>1, <2>2, <2>3 DEF IdleAtRest, Returned, PresenceWhenListed, PresenceRight, CrashOnlyOrphaned, history, TypeOK
    <2>5. SamUnlessFailed' /\ SamElsewhere'
      BY <1>1, <2>1, <2>3 DEF SamUnlessFailed, SamElsewhere, Shape, AwakeSam, WokenSam, history, TypeOK
    <2>6. FieldOfInitiator' /\ RoleMatches' /\ TargetKnown' /\ SelectedKnown'
      BY <1>1, <2>1, <2>3 DEF FieldOfInitiator, RoleMatches, TargetKnown, SelectedKnown, Shape, TypeOK
    <2>7. QED
      BY <2>3, <2>4, <2>5, <2>6
  <1>2. CASE /\ Breaks("initiator_init", NoTag, {chip, Awake(chip), Dark(Awake(chip)), lit})
             /\ sam_mode' \in {sam_mode, AwakeSam}
             /\ role' = "none"
             /\ UNCHANGED <<operating_mode, bEasyFraming>>
    <2>1. \A c \in {chip, Awake(chip), Dark(Awake(chip)), lit} : c \in Chip /\ c.sam \in {chip.sam, "NORMAL"}
      BY <1>0, ChipAwake DEF Shape, WokenSam
    <2>2. sam_mode' \in {"NORMAL", "WIRED_CARD"}
      BY <1>0, <1>2, ChipAwake DEF TypeOK
    <2>3. QED
      BY <1>0, <1>2, <2>1, <2>2, BreaksPreserves DEF Call, TypeOK, initiator_init
  <1>3. CASE /\ sam_mode' = "NORMAL"
             /\ bEasyFraming' = TRUE
             /\ role' = "none"
             /\ Breaks("initiator_init", NoTag, {lit, SAM(lit, "NORMAL")})
             /\ UNCHANGED operating_mode
    <2>1. \A c \in {lit, SAM(lit, "NORMAL")} : c \in Chip /\ c.sam \in {chip.sam, "NORMAL"}
      BY <1>0, ChipAwake DEF Shape, WokenSam
    <2>2. QED
      BY <1>0, <1>3, <2>1, BreaksPreserves DEF Call, TypeOK, initiator_init
  <1> QED
    BY <1>1, <1>2, <1>3 DEF initiator_init

LEMMA SecureElementPreserves ==
    ASSUME SessionInv, init_secure_element
    PROVE  SessionInv'
  <1> USE DEF SessionInv
  <1>1. CASE type = "PN532"
    <2>1. Shape(SAM(chip, "WIRED_CARD"), chip.rf, chip.selected, chip.emulated, "WIRED_CARD")
      BY ChipSam DEF TypeOK
    <2>2. /\ chip' \in Chip /\ chip'.rf = chip.rf /\ chip'.selected = chip.selected
          /\ chip'.emulated = chip.emulated
          /\ ~failed' => chip'.sam = "WIRED_CARD" /\ failed' = failed
          /\ failed' \in BOOLEAN /\ (failed => failed')
      BY <1>1, <2>1, ChipAwake DEF Shape, TypeOK, init_secure_element
    <2>3. /\ sam_mode' = IF power_mode = "LOWVBAT" THEN "NORMAL" ELSE "WIRED_CARD"
          /\ power_mode' = "NORMAL"
          /\ drowsy' = (drowsy \/ power_mode = "LOWVBAT")
          /\ UNCHANGED <<type, operating_mode, current_target, bEasyFraming, role, crashed>>
          /\ UNCHANGED <<timedOut, released, byHand, unnamed, chained>>
      BY <1>1 DEF init_secure_element
    <2>4. result' \in Result /\ result'.op = "init_secure_element"
      BY <1>1, ReturnsType DEF Call, init_secure_element
    <2>5. TypeOK'
      BY <2>2, <2>3, <2>4 DEF TypeOK
    <2>6. IdleAtRest' /\ PresenceWhenListed' /\ CrashOnlyOrphaned' /\ SamUnlessFailed' /\ SamElsewhere'
      BY <1>1, <2>2, <2>3, <2>4, <2>5 DEF IdleAtRest, Returned, PresenceWhenListed, PresenceRight,
         CrashOnlyOrphaned, SamUnlessFailed, SamElsewhere, TypeOK
    <2>7. FieldOfInitiator' /\ RoleMatches' /\ TargetKnown' /\ SelectedKnown'
      BY <1>1, <2>2, <2>3, <2>5 DEF FieldOfInitiator, RoleMatches, TargetKnown, SelectedKnown, TypeOK
    <2>8. QED
      BY <2>5, <2>6, <2>7
  <1>2. CASE type # "PN532"
    <2>1. UNCHANGED <<hostVars, chip, role, crashed, history>>
      BY <1>2 DEF init_secure_element, hostVars
    <2>2. result' \in Result /\ result'.op = "init_secure_element"
      BY <1>2, ReturnsType DEF Call, init_secure_element
    <2>3. QED
      BY <2>1, <2>2, ResultOnly DEF Returned, PresenceRight
  <1> QED
    BY <1>1, <1>2

LEMMA ActivateFieldPreserves ==
    ASSUME SessionInv, NEW b \in BOOLEAN, activate_field(b)
    PROVE  SessionInv'
  <1> USE DEF SessionInv
  <1> DEFINE after == IF b THEN Lit(Awake(chip)) ELSE Dark(Awake(chip))
  <1>0. TypeOK /\ chip \in Chip
    BY DEF TypeOK
  <1>1. CASE /\ chip' = after
             /\ Wakes
             /\ Returns("activate_field", "ok", NoTag)
             /\ byHand' = (byHand \/ (b /\ operating_mode # "INITIATOR"))
             /\ UNCHANGED <<failed, timedOut, released, drowsy, unnamed, chained>>
    <2>1. /\ chip' \in Chip /\ chip'.rf = b /\ chip'.selected \in {chip.selected, NoTag}
          /\ chip'.emulated = chip.emulated /\ chip'.sam = WokenSam
          /\ UNCHANGED <<type, operating_mode, current_target, bEasyFraming, role, crashed>>
      BY <1>0, <1>1, ChipAwake DEF Shape, activate_field
    <2>2. result' \in Result /\ result'.op = "activate_field"
      BY <1>1, ReturnsType DEF Call
    <2>3. TypeOK'
      BY <1>1, <2>1, <2>2, ChipAwake DEF TypeOK, Wakes
    <2>4. IdleAtRest' /\ PresenceWhenListed' /\ CrashOnlyOrphaned'
      BY <1>1, <2>1, <2>2, <2>3 DEF IdleAtRest, Returned, PresenceWhenListed, PresenceRight, CrashOnlyOrphaned, TypeOK
    <2>5. SamUnlessFailed' /\ SamElsewhere'
      BY <1>1, <2>1, <2>3 DEF SamUnlessFailed, SamElsewhere, Wakes, AwakeSam, WokenSam, TypeOK
    <2>6. FieldOfInitiator' /\ RoleMatches' /\ TargetKnown' /\ SelectedKnown'
      BY <1>1, <2>1, <2>3 DEF FieldOfInitiator, RoleMatches, TargetKnown, SelectedKnown, TypeOK
    <2>7. QED
      BY <2>3, <2>4, <2>5, <2>6
  <1>2. CASE Breaks("activate_field", NoTag, {chip, Awake(chip), after}) /\ FailsToWake
    <2>1. \A c \in {chip, Awake(chip), after} : c \in Chip /\ c.sam \in {chip.sam, "NORMAL"}
      BY <1>0, ChipAwake DEF Shape, WokenSam
    <2>2. sam_mode' \in {"NORMAL", "WIRED_CARD"} /\ power_mode' = "NORMAL"
      BY <1>0, <1>2, ChipAwake DEF TypeOK, FailsToWake
    <2>3. QED
      BY <1>0, <1>2, <2>1, <2>2, BreaksPreserves DEF Call, TypeOK, activate_field
  <1> QED
    BY <1>1, <1>2 DEF activate_field

LEMMA EasyFramingPreserves ==
    ASSUME SessionInv, NEW b \in BOOLEAN, easy_framing(b)
    PROVE  SessionInv'
  <1> USE DEF SessionInv
  <1>1. result' \in Result /\ result'.op = "easy_framing"
    BY ReturnsType DEF Call, easy_framing
  <1>2. TypeOK'
    BY <1>1 DEF TypeOK, easy_framing, history
  <1>3. IdleAtRest' /\ PresenceWhenListed' /\ CrashOnlyOrphaned' /\ SamUnlessFailed'
    BY <1>1, <1>2 DEF TypeOK, easy_framing, history, IdleAtRest, Returned, PresenceWhenListed, PresenceRight,
       CrashOnlyOrphaned, SamUnlessFailed
  <1>4. FieldOfInitiator' /\ RoleMatches' /\ TargetKnown' /\ SelectedKnown' /\ SamElsewhere'
    BY <1>2 DEF TypeOK, easy_framing, history, FieldOfInitiator, RoleMatches, TargetKnown, SelectedKnown, SamElsewhere
  <1>5. QED
    BY <1>2, <1>3, <1>4

-----------------------------------------------------------------------------
(* The calls of an initiator                                               *)

\* What has to be seen of a call by which an initiator selects, loses or asks
\* for a target.
LEMMA InitiatorPreserves ==
    ASSUME SessionInv, role = "initiator",
           UNCHANGED <<type, operating_mode, sam_mode, power_mode, role, crashed>>,
           UNCHANGED <<timedOut, released, byHand, drowsy, chained>>,
           failed' \in {failed, TRUE}, unnamed' \in BOOLEAN,
           chip' \in Chip, chip'.emulated = chip.emulated, chip'.sam = chip.sam,
           current_target' \in Tag \cup {NoTag}, bEasyFraming' \in BOOLEAN,
           result' \in Result, result'.op # "idle",
           failed' \/ unnamed' \/ PresenceRight', failed' \/ SelectedKnown'
    PROVE  SessionInv'
  <1> USE DEF SessionInv
  <1>1. TypeOK'
    BY DEF TypeOK
  <1>2. operating_mode' = "INITIATOR"
    BY DEF RoleMatches
  <1>3. IdleAtRest' /\ PresenceWhenListed' /\ CrashOnlyOrphaned'
    BY <1>1 DEF TypeOK, IdleAtRest, Returned, PresenceWhenListed, CrashOnlyOrphaned
  <1>4. SamUnlessFailed' /\ SamElsewhere'
    BY <1>1 DEF TypeOK, SamUnlessFailed, SamElsewhere
  <1>5. FieldOfInitiator' /\ RoleMatches' /\ TargetKnown' /\ SelectedKnown'
    BY <1>1, <1>2 DEF TypeOK, FieldOfInitiator, RoleMatches, TargetKnown, SelectedKnown
  <1>6. QED
    BY <1>1, <1>3, <1>4, <1>5

LEMMA SelectNativeEffect ==
    ASSUME SessionInv, NEW op \in {"select", "poll"}, NEW t \in Tag, NEW pnt \in BOOLEAN, SelectNative(op, t, pnt)
    PROVE  /\ chip' \in Chip /\ chip'.emulated = chip.emulated /\ chip'.sam = chip.sam
           /\ UNCHANGED <<timedOut, released, byHand, drowsy, chained, bEasyFraming>>
           /\ failed' \in {failed, TRUE} /\ current_target' \in Tag \cup {NoTag}
           /\ result' \in Result /\ result'.op = op
           /\ unnamed' \in BOOLEAN
           /\ failed' \/ unnamed' \/ chip'.selected = NoTag \/ chip'.selected = current_target'
  <1> USE DEF SessionInv
  <1>1. /\ chip' \in {chip, Deselected(Lit(chip)), Selected(chip, t)}
        /\ UNCHANGED <<timedOut, released, byHand, drowsy, chained, bEasyFraming>>
        /\ failed' \in {failed, TRUE} /\ current_target' \in {current_target, t} /\ unnamed' \in {unnamed, TRUE, FALSE}
        /\ \/ failed' = TRUE
           \/ unnamed' = TRUE
           \/ chip' = Selected(chip, t) /\ current_target' = t
           \/ chip' = Deselected(Lit(chip))
    BY DEF SelectNative, Breaks, history, Sound
  <1>2. result' \in Result /\ result'.op = op
    BY ReturnsType DEF SelectNative, Breaks, Call
  <1>3. chip \in Chip /\ current_target \in Tag \cup {NoTag} /\ unnamed \in BOOLEAN
    BY DEF TypeOK
  <1>4. QED
    BY <1>1, <1>2, <1>3, ChipTarget DEF Shape

LEMMA SelectRawEffect ==
    ASSUME SessionInv, NEW op \in {"select", "poll"}, NEW t \in Tag, SelectRaw(op, t)
    PROVE  /\ UNCHANGED <<chip, current_target, timedOut, released, byHand, drowsy, unnamed, chained>>
           /\ bEasyFraming' = FALSE
           /\ failed' \in {failed, TRUE}
           /\ result' \in Result /\ result'.op = op
  <1> USE DEF SessionInv
  <1>1. result' \in Result /\ result'.op = op
    BY ReturnsType DEF SelectRaw, Breaks, Call
  <1>2. QED
    BY <1>1 DEF SelectRaw, Breaks, history

LEMMA SelectPreserves ==
    ASSUME SessionInv, NEW t \in Tag, select_passive_target(t)
    PROVE  SessionInv'
  <1> USE DEF SessionInv
  <1>0. TypeOK /\ role = "initiator" /\ UNCHANGED <<type, operating_mode, sam_mode, power_mode, role, crashed>>
    BY DEF select_passive_target
  <1>1. ASSUME NEW pnt \in BOOLEAN, SelectNative("select", t, pnt) PROVE SessionInv'
    BY <1>0, <1>1, SelectNativeEffect, InitiatorPreserves DEF TypeOK, PresenceRight, SelectedKnown
  <1>2. CASE SelectRaw("select", t)
    BY <1>0, <1>2, SelectRawEffect, InitiatorPreserves DEF TypeOK, PresenceRight, SelectedKnown
  <1> QED
    BY <1>1, <1>2 DEF select_passive_target

LEMMA PollPreserves ==
    ASSUME SessionInv, NEW t \in Tag, poll_target(t)
    PROVE  SessionInv'
  <1> USE DEF SessionInv
  <1>0. /\ TypeOK /\ role = "initiator" /\ chip \in Chip
        /\ UNCHANGED <<type, operating_mode, sam_mode, power_mode, role, crashed>>
    BY DEF poll_target, TypeOK
  <1>1. CASE /\ type = "PN532"
             /\ chip' \in {chip, Selected(chip, t), Deselected(Lit(chip))}
             /\ UNCHANGED <<current_target, bEasyFraming, timedOut, released, byHand, drowsy, chained>>
             /\ failed' \in {failed, TRUE} /\ unnamed' \in {unnamed, TRUE}
             /\ failed' = TRUE \/ unnamed' = TRUE \/ chip' = Deselected(Lit(chip)) \/ (chip' = chip /\ failed' = failed /\ unnamed' = unnamed)
             /\ \E out \in {"ok", "error"} : Returns("poll", out, t)
    <2>1. result' \in Result /\ result'.op = "poll"
      BY <1>1, ReturnsType DEF Call
    <2>2. chip' \in Chip /\ chip'.emulated = chip.emulated /\ chip'.sam = chip.sam
      BY <1>0, <1>1, ChipTarget DEF Shape
    <2>3. failed' \/ SelectedKnown'
      <3>1. Shape(Deselected(Lit(chip)), TRUE, NoTag, chip.emulated, chip.sam)
        BY <1>0, ChipTarget
      <3>2. CASE failed' = TRUE \/ unnamed' = TRUE
        BY <3>2 DEF SelectedKnown
      <3>3. CASE chip' = Deselected(Lit(chip))
        BY <3>1, <3>3 DEF Shape, SelectedKnown
      <3>4. CASE chip' = chip /\ failed' = failed /\ unnamed' = unnamed
        BY <1>1, <3>4 DEF SelectedKnown
      <3> QED BY <1>1, <3>2, <3>3, <3>4
    <2>4. QED
      BY <1>0, <1>1, <2>1, <2>2, <2>3, InitiatorPreserves DEF TypeOK, PresenceRight
  <1>2. CASE SelectNative("poll", t, TRUE)
    BY <1>0, <1>2, SelectNativeEffect, InitiatorPreserves DEF TypeOK, PresenceRight, SelectedKnown
  <1>3. CASE SelectRaw("poll", t)
    BY <1>0, <1>3, SelectRawEffect, InitiatorPreserves DEF TypeOK, PresenceRight, SelectedKnown
  <1>4. CASE /\ chip' \in IF t \in RawTag THEN {chip} ELSE {Deselected(Lit(chip)), Selected(chip, t)}
             /\ failed' = TRUE
             /\ bEasyFraming' = (bEasyFraming /\ t \notin RawTag)
             /\ Returns("poll", "none", t)
             /\ UNCHANGED <<current_target, timedOut, released, byHand, drowsy, unnamed, chained>>
    <2>1. result' \in Result /\ result'.op = "poll"
      BY <1>4, ReturnsType DEF Call
    <2>2. chip' \in Chip /\ chip'.emulated = chip.emulated /\ chip'.sam = chip.sam
      BY <1>0, <1>4, ChipTarget DEF Shape
    <2>3. bEasyFraming' \in BOOLEAN
      BY <1>4
    <2>4. QED
      BY <1>0, <1>4, <2>1, <2>2, <2>3, InitiatorPreserves DEF TypeOK
  <1> QED
    BY <1>1, <1>2, <1>3, <1>4 DEF poll_target, Breaks, history, Sound

LEMMA SelectDepPreserves ==
    ASSUME SessionInv, NEW t \in Tag, select_dep_target(t)
    PROVE  SessionInv'
  <1> USE DEF SessionInv
  <1>0. /\ TypeOK /\ role = "initiator" /\ chip \in Chip
        /\ UNCHANGED <<type, operating_mode, sam_mode, power_mode, bEasyFraming, role, crashed>>
    BY DEF select_dep_target, TypeOK
  <1>1. /\ chip' \in {chip, Deselected(Lit(chip)), Selected(chip, t)}
        /\ UNCHANGED <<timedOut, released, byHand, drowsy, chained>>
        /\ failed' \in {failed, TRUE} /\ unnamed' \in {unnamed, FALSE} /\ current_target' \in {NoTag, t}
        /\ \/ failed' = TRUE
           \/ chip' = Selected(chip, t) /\ current_target' = t
           \/ chip' = Deselected(Lit(chip))
    BY DEF select_dep_target, Breaks, history, Sound
  <1>2. result' \in Result /\ result'.op = "select_dep"
    BY ReturnsType DEF select_dep_target, Breaks, Call
  <1>3. chip' \in Chip /\ chip'.emulated = chip.emulated /\ chip'.sam = chip.sam
    BY <1>0, <1>1, ChipTarget DEF Shape
  <1>4. failed' \/ chip'.selected = NoTag \/ chip'.selected = current_target'
    BY <1>0, <1>1, ChipTarget DEF Shape
  <1>5. QED
    BY <1>0, <1>1, <1>2, <1>3, <1>4, InitiatorPreserves DEF TypeOK, PresenceRight, SelectedKnown

LEMMA PollDepPreserves ==
    ASSUME SessionInv, NEW t \in Tag, poll_dep_target(t)
    PROVE  SessionInv'
  <1> USE DEF SessionInv
  <1>1. CASE select_dep_target(t)
    BY <1>1, SelectDepPreserves
  <1>2. CASE /\ role = "initiator"
             /\ chip' \in {Deselected(Lit(chip)), Selected(chip, t)}
             /\ current_target' = NoTag
             /\ Returns("poll_dep", "none", t)
             /\ failed' = TRUE
             /\ UNCHANGED <<type, operating_mode, sam_mode, power_mode, bEasyFraming, role, crashed>>
             /\ UNCHANGED <<timedOut, released, byHand, drowsy, unnamed, chained>>
    <2>1. result' \in Result /\ result'.op = "poll_dep"
      BY <1>2, ReturnsType DEF Call
    <2>2. chip' \in Chip /\ chip'.emulated = chip.emulated /\ chip'.sam = chip.sam
      BY <1>2, ChipTarget DEF Shape
    <2>3. QED
      BY <1>2, <2>1, <2>2, InitiatorPreserves DEF TypeOK
  <1> QED
    BY <1>1, <1>2 DEF poll_dep_target

LEMMA DeselectPreserves ==
    ASSUME SessionInv, deselect_target
    PROVE  SessionInv'
  <1> USE DEF SessionInv
  <1>0. /\ TypeOK /\ role = "initiator" /\ chip \in Chip
        /\ UNCHANGED <<type, operating_mode, sam_mode, power_mode, bEasyFraming, role, crashed>>
    BY DEF deselect_target, TypeOK
  <1>1. /\ chip' \in {chip, Deselected(chip)} /\ current_target' = NoTag
        /\ UNCHANGED <<timedOut, released, byHand, drowsy, unnamed, chained>>
        /\ failed' \in {failed, TRUE}
        /\ failed' = TRUE \/ chip' = Deselected(chip)
    BY DEF deselect_target, Breaks, history
  <1>2. result' \in Result /\ result'.op = "deselect"
    BY ReturnsType DEF deselect_target, Breaks, Call
  <1>3. Shape(Deselected(chip), chip.rf, NoTag, chip.emulated, chip.sam)
    BY <1>0, ChipOperators
  <1>4. QED
    BY <1>0, <1>1, <1>2, <1>3, InitiatorPreserves DEF Shape, TypeOK, PresenceRight, SelectedKnown

LEMMA IsPresentPreserves ==
    ASSUME SessionInv, NEW t \in Tag, target_is_present(t)
    PROVE  SessionInv'
  <1> USE DEF SessionInv
  <1>0. /\ TypeOK /\ role = "initiator" /\ chip \in Chip
        /\ UNCHANGED <<type, operating_mode, sam_mode, power_mode, bEasyFraming, role, crashed>>
        /\ UNCHANGED <<chip, timedOut, released, byHand, drowsy, unnamed, chained>>
        /\ current_target' \in {current_target, NoTag}
        /\ failed' \in {failed, TRUE}
        /\ ~failed' => current_target' = current_target \/ chip.selected = NoTag
    BY DEF target_is_present, TypeOK, Breaks, history
  <1>1. /\ result' \in Result /\ result'.op = "is_present" /\ result'.tag = t /\ result'.had = chip.selected
        /\ ~failed' /\ result'.out = "ok" => current_target = t /\ chip.selected # NoTag
        /\ ~failed' /\ result'.out = "released" => current_target # t \/ chip.selected = NoTag
    BY <1>0, ReturnsType DEF target_is_present, Breaks, Call
  <1>2. failed' \/ SelectedKnown'
    <2>1. CASE failed' = TRUE
      BY <2>1
    <2>2. CASE failed' = failed /\ failed = FALSE
      BY <1>0, <2>2 DEF SelectedKnown
    <2>3. QED
      BY <1>0, <2>1, <2>2 DEF TypeOK
  <1>3. t # NoTag
    BY SessionAssumption
  <1>4. failed' \/ unnamed' \/ PresenceRight'
    <2>1. CASE failed' = TRUE \/ unnamed = TRUE
      BY <1>0, <2>1
    <2>2. CASE failed' = failed /\ failed = FALSE /\ unnamed = FALSE
      BY <1>0, <1>1, <1>3, <2>2 DEF SelectedKnown, PresenceRight
    <2>3. QED
      BY <1>0, <2>1, <2>2 DEF TypeOK
  <1> QED
    BY <1>0, <1>1, <1>2, <1>4, InitiatorPreserves DEF TypeOK

LEMMA TagLeavesPreserves ==
    ASSUME SessionInv, tag_leaves
    PROVE  SessionInv'
  <1> USE DEF SessionInv
  <1>1. Shape(chip', chip.rf, NoTag, chip.emulated, chip.sam) /\ chip.selected # NoTag
        /\ UNCHANGED <<hostVars, role, result, crashed, history>>
    BY ChipOperators DEF tag_leaves, TypeOK
  <1>2. TypeOK'
    BY <1>1 DEF TypeOK, Shape, hostVars, history
  <1>3. IdleAtRest' /\ PresenceWhenListed' /\ CrashOnlyOrphaned' /\ SamUnlessFailed'
    BY <1>1, <1>2 DEF TypeOK, Shape, hostVars, history, IdleAtRest, Returned, PresenceWhenListed, PresenceRight,
       CrashOnlyOrphaned, SamUnlessFailed
  <1>4. FieldOfInitiator' /\ RoleMatches' /\ TargetKnown' /\ SelectedKnown' /\ SamElsewhere'
    BY <1>1, <1>2 DEF TypeOK, Shape, hostVars, history, FieldOfInitiator, RoleMatches, TargetKnown, SelectedKnown, SamElsewhere
  <1>5. QED
    BY <1>2, <1>3, <1>4

-----------------------------------------------------------------------------
(* Exchanging data, and being a target                                     *)

LEMMA ExchangePreserves ==
    ASSUME SessionInv, NEW op \in {"transceive", "target_exchange"}, Exchange(op),
           UNCHANGED <<type, operating_mode, bEasyFraming, role>>
    PROVE  SessionInv'
  <1> USE DEF SessionInv
  <1>0. TypeOK /\ chip \in Chip /\ op \in Call
    BY DEF TypeOK, Call
  <1>1. CASE Breaks(op, NoTag, {chip, Awake(chip)}) /\ FailsToWake /\ UNCHANGED <<current_target, crashed>>
    <2>1. \A c \in {chip, Awake(chip)} : c \in Chip /\ c.sam \in {chip.sam, "NORMAL"}
      BY <1>0, ChipAwake DEF Shape, WokenSam
    <2>2. sam_mode' \in {"NORMAL", "WIRED_CARD"} /\ power_mode' = "NORMAL"
      BY <1>0, <1>1, ChipAwake DEF TypeOK, FailsToWake
    <2>3. QED
      BY <1>0, <1>1, <2>1, <2>2, BreaksPreserves DEF TypeOK
  <1>2. CASE /\ \E out \in {"ok", "error", "released"} : Returns(op, out, NoTag)
             /\ Wakes
             /\ UNCHANGED <<crashed, failed, timedOut, byHand, drowsy, unnamed, chained>>
             /\ \/ chip' = Awake(chip) /\ UNCHANGED <<current_target, released>>
                \/ chip' = Quiet(Deselected(Awake(chip))) /\ current_target' = NoTag /\ released' = TRUE
    <2>1. /\ chip' \in Chip /\ chip'.rf = chip.rf /\ chip'.selected \in {chip.selected, NoTag}
          /\ chip'.emulated \in {chip.emulated, NoTag} /\ chip'.sam = WokenSam
          /\ current_target' \in {current_target, NoTag}
          /\ released' = released \/ released' = TRUE
          /\ chip'.selected = NoTag \/ (chip'.selected = chip.selected /\ current_target' = current_target)
          /\ released' = TRUE \/ current_target' = current_target
      <3>1. CASE chip' = Awake(chip) /\ UNCHANGED <<current_target, released>>
        <4>1. Shape(chip', chip.rf, chip.selected, chip.emulated, WokenSam)
          BY <1>0, <3>1, ChipAwake
        <4>2. QED
          BY <3>1, <4>1 DEF Shape
      <3>2. CASE chip' = Quiet(Deselected(Awake(chip))) /\ current_target' = NoTag /\ released' = TRUE
        <4>1. Shape(chip', chip.rf, NoTag, NoTag, WokenSam)
          BY <1>0, <3>2, ChipAwake
        <4>2. QED
          BY <3>2, <4>1 DEF Shape
      <3>3. QED
        BY <1>2, <3>1, <3>2
    <2>2. result' \in Result /\ result'.op = op
      BY <1>0, <1>2, ReturnsType
    <2>8. sam_mode' \in {"NORMAL", "WIRED_CARD"} /\ power_mode' = "NORMAL"
      BY <1>2, ChipAwake DEF Wakes
    <2>3. TypeOK'
      <3>1. released' \in BOOLEAN /\ unnamed' \in BOOLEAN /\ chained' \in BOOLEAN /\ crashed' \in BOOLEAN
        BY <1>0, <1>2, <2>1, Zenon DEF TypeOK
      <3>2. failed' \in BOOLEAN /\ timedOut' \in BOOLEAN /\ byHand' \in BOOLEAN /\ drowsy' \in BOOLEAN
        BY <1>0, <1>2, Zenon DEF TypeOK
      <3> QED BY <1>2, <2>1, <2>2, <2>8, <3>1, <3>2 DEF TypeOK
    <2>4. IdleAtRest' /\ PresenceWhenListed' /\ CrashOnlyOrphaned'
      BY <1>2, <2>1, <2>2, <2>3 DEF IdleAtRest, Returned, PresenceWhenListed, PresenceRight, CrashOnlyOrphaned, TypeOK
    <2>5. SamUnlessFailed' /\ SamElsewhere'
      BY <1>2, <2>1, <2>3 DEF SamUnlessFailed, SamElsewhere, Wakes, AwakeSam, WokenSam, TypeOK
    <2>6. FieldOfInitiator' /\ RoleMatches' /\ TargetKnown' /\ SelectedKnown'
      BY <1>2, <2>1, <2>3 DEF FieldOfInitiator, RoleMatches, TargetKnown, SelectedKnown, TypeOK
    <2>7. QED
      BY <2>3, <2>4, <2>5, <2>6
  <1>3. CASE /\ crashed' = TRUE /\ chained' = TRUE /\ chip' = Awake(chip) /\ Wakes
             /\ UNCHANGED <<current_target, result, failed, timedOut, released, byHand, drowsy, unnamed>>
    <2>1. Shape(chip', chip.rf, chip.selected, chip.emulated, WokenSam)
      BY <1>0, <1>3, ChipAwake
    <2>2. sam_mode' \in {"NORMAL", "WIRED_CARD"} /\ power_mode' = "NORMAL"
      BY <1>3, ChipAwake DEF Wakes
    <2>3. TypeOK'
      BY <1>3, <2>1, <2>2 DEF TypeOK, Shape
    <2>4. IdleAtRest' /\ PresenceWhenListed' /\ CrashOnlyOrphaned'
      BY <1>3, <2>1, <2>3 DEF IdleAtRest, Returned, PresenceWhenListed, PresenceRight, CrashOnlyOrphaned, Shape, TypeOK
    <2>5. SamUnlessFailed' /\ SamElsewhere'
      BY <1>3, <2>1, <2>3 DEF SamUnlessFailed, SamElsewhere, Wakes, AwakeSam, WokenSam, Shape, TypeOK
    <2>6. FieldOfInitiator' /\ RoleMatches' /\ TargetKnown' /\ SelectedKnown'
      BY <1>3, <2>1, <2>3 DEF FieldOfInitiator, RoleMatches, TargetKnown, SelectedKnown, Shape, TypeOK
    <2>7. QED
      BY <2>3, <2>4, <2>5, <2>6
  <1> QED
    BY <1>1, <1>2, <1>3 DEF Exchange, history

LEMMA TransceivePreserves ==
    ASSUME SessionInv, transceive_bytes
    PROVE  SessionInv'
  BY ExchangePreserves DEF transceive_bytes

LEMMA TargetExchangePreserves ==
    ASSUME SessionInv, target_exchange
    PROVE  SessionInv'
  <1> USE DEF SessionInv
  <1>1. CASE /\ current_target = NoTag /\ crashed' = TRUE
             /\ UNCHANGED <<chip, current_target, sam_mode, power_mode, result, history>>
    <2>1. UNCHANGED <<type, operating_mode, bEasyFraming, role>> /\ role = "target"
      BY DEF target_exchange
    <2>2. TypeOK'
      BY <1>1, <2>1 DEF TypeOK, history
    <2>3. IdleAtRest' /\ PresenceWhenListed' /\ SamUnlessFailed'
      BY <1>1, <2>1, <2>2 DEF TypeOK, history, IdleAtRest, Returned, PresenceWhenListed, PresenceRight, SamUnlessFailed
    <2>4. CrashOnlyOrphaned' /\ RoleMatches' /\ TargetKnown'
      BY <1>1, <2>1, <2>2 DEF TypeOK, history, CrashOnlyOrphaned, RoleMatches, TargetKnown
    <2>5. FieldOfInitiator' /\ SelectedKnown' /\ SamElsewhere'
      BY <1>1, <2>1, <2>2 DEF TypeOK, history, FieldOfInitiator, SelectedKnown, SamElsewhere
    <2>6. QED
      BY <2>2, <2>3, <2>4, <2>5
  <1>2. CASE Exchange("target_exchange")
    BY <1>2, ExchangePreserves DEF target_exchange
  <1> QED
    BY <1>1, <1>2 DEF target_exchange

LEMMA TargetInitEarlyPreserves ==
    ASSUME SessionInv, NEW t \in Tag, target_init_early(t)
    PROVE  SessionInv'
  <1> USE DEF SessionInv
  <1>0. TypeOK /\ chip \in Chip
    BY DEF TypeOK
  <1>1. \A c \in {chip, Awake(chip), Ready} : c \in Chip /\ c.sam \in {chip.sam, "NORMAL"}
    BY <1>0, ChipAwake DEF Shape, WokenSam, Ready
  <1>2. sam_mode' \in {"NORMAL", "WIRED_CARD"} /\ power_mode' = "NORMAL"
    BY <1>0, ChipAwake DEF TypeOK, FailsToWake, target_init_early
  <1>3. bEasyFraming' \in BOOLEAN
    BY <1>0 DEF TypeOK, target_init_early
  <1>4. QED
    BY <1>0, <1>1, <1>2, <1>3, BreaksPreserves DEF TypeOK, Call, target_init_early

\* What has to be seen of an nfc_target_init in which no command fails.
LEMMA TargetPreserves ==
    ASSUME SessionInv, NEW t \in Tag, NEW out \in {"ok", "error"}, Returns("target_init", out, t),
           UNCHANGED <<type, crashed, failed, released, byHand, drowsy, unnamed, chained>>,
           bEasyFraming' = TRUE, sam_mode' = AwakeSam,
           power_mode' \in {"NORMAL", "LOWVBAT"}, type # "PN532" => power_mode' = "NORMAL",
           chip' \in Chip, ~chip'.rf, chip'.selected = NoTag, chip'.sam = WokenSam,
           current_target' \in Tag \cup {NoTag}, timedOut' \in {timedOut, TRUE},
           \/ operating_mode' = "TARGET"
           \/ operating_mode' = "IDLE" /\ chip'.emulated = NoTag,
           \/ role' = "none"
           \/ role' = "target" /\ current_target' # NoTag
           \/ role' = "target" /\ timedOut' = TRUE
    PROVE  SessionInv'
  <1> USE DEF SessionInv
  <1>1. result' \in Result /\ result'.op = "target_init"
    BY ReturnsType DEF Call
  <1>2. TypeOK'
    BY <1>1, ChipAwake DEF TypeOK, Mode
  <1>3. IdleAtRest' /\ PresenceWhenListed' /\ CrashOnlyOrphaned'
    BY <1>1, <1>2 DEF TypeOK, IdleAtRest, Returned, PresenceWhenListed, PresenceRight, CrashOnlyOrphaned
  <1>4. SamUnlessFailed' /\ SamElsewhere'
    BY <1>2 DEF TypeOK, SamUnlessFailed, SamElsewhere, AwakeSam, WokenSam
  <1>5. FieldOfInitiator' /\ RoleMatches' /\ TargetKnown' /\ SelectedKnown'
    BY <1>2 DEF TypeOK, FieldOfInitiator, RoleMatches, TargetKnown, SelectedKnown
  <1>6. QED
    BY <1>2, <1>3, <1>4, <1>5

LEMMA TargetInitFailPreserves ==
    ASSUME SessionInv, NEW t \in Tag, target_init_fail(t)
    PROVE  SessionInv'
  <1> USE DEF SessionInv
  <1>0. /\ TypeOK /\ chip \in Chip
        /\ operating_mode' = "TARGET" /\ bEasyFraming' = TRUE /\ role' = "none"
        /\ power_mode' = "NORMAL" /\ sam_mode' = AwakeSam
        /\ UNCHANGED <<type, current_target, crashed>>
    BY DEF TypeOK, Wakes, target_init_fail
  <1>1. CASE chip' = Ready /\ Returns("target_init", "error", t) /\ UNCHANGED history
    BY <1>0, <1>1, ChipAwake, TargetPreserves DEF Ready, Shape, TypeOK, history
  <1>2. CASE Breaks("target_init", t, {Ready, [Ready EXCEPT !.emulated = t]})
    <2>0. Shape(Ready, FALSE, NoTag, chip.emulated, WokenSam)
      BY <1>0, ChipAwake DEF Ready
    <2> DEFINE cs == {Ready, [Ready EXCEPT !.emulated = t]}
    <2>1. \A c \in cs : c \in Chip /\ c.sam \in {chip.sam, "NORMAL"}
      BY <1>0, <2>0, ChipTarget DEF Shape, WokenSam
    <2>2. sam_mode' \in {"NORMAL", "WIRED_CARD"} /\ current_target \in Tag \cup {NoTag}
      BY <1>0, ChipAwake DEF TypeOK
    <2>3. Breaks("target_init", t, cs)
      BY <1>2
    <2> HIDE DEF cs
    <2>4. QED
      BY <1>0, <2>1, <2>2, <2>3, BreaksPreserves DEF Call, Mode
  <1> QED
    BY <1>1, <1>2 DEF target_init_fail

LEMMA TargetInitOkPreserves ==
    ASSUME SessionInv, NEW t \in Tag, target_init_ok(t)
    PROVE  SessionInv'
  <1>1. Shape(chip', FALSE, NoTag, t, WokenSam)
    BY ChipTarget DEF target_init_ok, SessionInv
  <1>2. t # NoTag
    BY SessionAssumption
  <1>3. QED
    BY <1>1, <1>2, TargetPreserves DEF Shape, target_init_ok, history, Wakes, SessionInv, TypeOK

LEMMA TargetInitTimeoutPreserves ==
    ASSUME SessionInv, NEW t \in Tag, target_init_timeout(t)
    PROVE  SessionInv'
  <1> USE DEF SessionInv
  <1>0. /\ TypeOK /\ chip \in Chip
        /\ bEasyFraming' = TRUE
        /\ UNCHANGED <<type, crashed>>
    BY DEF TypeOK, target_init_timeout
  <1>1. CASE /\ chip' = Quiet(Ready)
             /\ operating_mode' = "IDLE"
             /\ current_target' = NoTag
             /\ role' = "target"
             /\ timedOut' = TRUE
             /\ power_mode' = IF type = "PN532" THEN "LOWVBAT" ELSE "NORMAL"
             /\ sam_mode' = AwakeSam
             /\ Returns("target_init", "ok", t)
             /\ UNCHANGED <<failed, released, byHand, drowsy, unnamed, chained>>
    <2>1. Shape(chip', FALSE, NoTag, NoTag, WokenSam)
      BY <1>0, <1>1, ChipAwake DEF Ready
    <2>2. QED
      BY <1>0, <1>1, <2>1, TargetPreserves DEF Shape
  <1>2. CASE /\ operating_mode' = "TARGET"
             /\ role' = "none"
             /\ Wakes
             /\ Breaks("target_init", t, {Quiet(Ready), [Ready EXCEPT !.emulated = t]})
             /\ UNCHANGED current_target
    <2>0. Shape(Quiet(Ready), FALSE, NoTag, NoTag, WokenSam)
      BY <1>0, ChipAwake DEF Ready
    <2> DEFINE cs == {Quiet(Ready), [Ready EXCEPT !.emulated = t]}
    <2>1. \A c \in cs : c \in Chip /\ c.sam \in {chip.sam, "NORMAL"}
      BY <1>0, <2>0, ChipTarget DEF Shape, WokenSam
    <2>2. sam_mode' \in {"NORMAL", "WIRED_CARD"} /\ power_mode' = "NORMAL"
      BY <1>2, ChipAwake DEF Wakes
    <2>3. Breaks("target_init", t, cs) /\ current_target \in Tag \cup {NoTag}
      BY <1>0, <1>2 DEF TypeOK
    <2> HIDE DEF cs
    <2>4. QED
      BY <1>0, <1>2, <2>1, <2>2, <2>3, BreaksPreserves DEF Call, Mode
  <1> QED
    BY <1>1, <1>2 DEF target_init_timeout

-----------------------------------------------------------------------------
(* The theorems                                                            *)

LEMMA InitSession == Init => SessionInv
  <1> SUFFICES ASSUME Init PROVE SessionInv
    OBVIOUS
  <1>1. chip \in Chip /\ result \in Result
    BY DEF Init, Chip, Result, Call
  <1>2. TypeOK
    BY <1>1 DEF Init, TypeOK, Mode
  <1>3. IdleAtRest /\ PresenceWhenListed /\ CrashOnlyOrphaned /\ SamUnlessFailed
    BY <1>2 DEF Init, IdleAtRest, Returned, PresenceWhenListed, PresenceRight, CrashOnlyOrphaned, SamUnlessFailed
  <1>4. FieldOfInitiator /\ RoleMatches /\ TargetKnown /\ SelectedKnown /\ SamElsewhere
    BY DEF Init, FieldOfInitiator, RoleMatches, TargetKnown, SelectedKnown, SamElsewhere
  <1>5. QED
    BY <1>2, <1>3, <1>4 DEF SessionInv

LEMMA NextSession == SessionInv /\ [Next]_vars => SessionInv'
  <1> SUFFICES ASSUME SessionInv, [Next]_vars PROVE SessionInv'
    OBVIOUS
  <1>1. CASE UNCHANGED vars
    <2>1. UNCHANGED <<hostVars, chip, role, result, crashed, history>>
      BY <1>1 DEF vars
    <2>2. TypeOK' /\ IdleAtRest' /\ PresenceWhenListed' /\ CrashOnlyOrphaned' /\ SamUnlessFailed'
      BY <2>1 DEF SessionInv, TypeOK, hostVars, history, IdleAtRest, Returned, PresenceWhenListed, PresenceRight,
         CrashOnlyOrphaned, SamUnlessFailed
    <2>3. FieldOfInitiator' /\ RoleMatches' /\ TargetKnown' /\ SelectedKnown' /\ SamElsewhere'
      BY <2>1 DEF SessionInv, TypeOK, hostVars, history, FieldOfInitiator, RoleMatches, TargetKnown, SelectedKnown,
         SamElsewhere
    <2>4. QED
      BY <2>2, <2>3 DEF SessionInv
  <1>2. CASE idle \/ reopen \/ initiator_init \/ init_secure_element
    BY <1>2, IdlePreserves, ReopenPreserves, InitiatorInitPreserves, SecureElementPreserves
  <1>3. ASSUME NEW b \in BOOLEAN, activate_field(b) \/ easy_framing(b)
        PROVE  SessionInv'
    BY <1>3, ActivateFieldPreserves, EasyFramingPreserves
  <1>4. ASSUME NEW t \in Tag, \/ select_passive_target(t) \/ poll_target(t) \/ select_dep_target(t)
                              \/ poll_dep_target(t) \/ target_is_present(t)
        PROVE  SessionInv'
    BY <1>4, SelectPreserves, PollPreserves, SelectDepPreserves, PollDepPreserves, IsPresentPreserves
  <1>5. ASSUME NEW t \in Tag, \/ target_init_early(t) \/ target_init_fail(t) \/ target_init_ok(t)
                              \/ target_init_timeout(t)
        PROVE  SessionInv'
    BY <1>5, TargetInitEarlyPreserves, TargetInitFailPreserves, TargetInitOkPreserves, TargetInitTimeoutPreserves
  <1>6. CASE deselect_target \/ tag_leaves \/ transceive_bytes \/ target_exchange
    BY <1>6, DeselectPreserves, TagLeavesPreserves, TransceivePreserves, TargetExchangePreserves
  <1>7. QED
    BY <1>1, <1>2, <1>3, <1>4, <1>5, <1>6 DEF Next

\* The inductive invariant of a session holds after any sequence of nfc_ calls.
THEOREM SessionInductive == Spec => []SessionInv
  BY InitSession, NextSession, PTL DEF Spec

\* Once nfc_idle has succeeded and no command has failed, the device is at
\* rest: for any targets and chips, whatever calls came before.
THEOREM IdleAtRestHolds == Spec => []IdleAtRest
  <1>1. SessionInv => IdleAtRest
    BY DEF SessionInv
  <1>2. QED
    BY <1>1, SessionInductive, PTL

\* As long as no command fails and the last selection recorded its target,
\* nfc_initiator_target_is_present says "present" of the target the chip has,
\* and "released" only of another one.
THEOREM PresenceWhenListedHolds == Spec => []PresenceWhenListed
  <1>1. SessionInv => PresenceWhenListed
    BY DEF SessionInv
  <1>2. QED
    BY <1>1, SessionInductive, PTL

\* The process ends in an exchange only after a time-out of nfc_target_init or a
\* release (a null current_target), or on a NAD or a chained frame (abort()).
THEOREM CrashOnlyOrphanedHolds == Spec => []CrashOnlyOrphaned
  <1>1. SessionInv => CrashOnlyOrphaned
    BY DEF SessionInv
  <1>2. QED
    BY <1>1, SessionInductive, PTL

\* sam_mode is the SAM mode of the chip as long as no command fails and the
\* secure element is not initialised out of low VBat.
THEOREM SamUnlessFailedHolds == Spec => []SamUnlessFailed
  <1>1. SessionInv => SamUnlessFailed
    BY DEF SessionInv
  <1>2. QED
    BY <1>1, SessionInductive, PTL

-----------------------------------------------------------------------------
(* nfc-relay-picc                                                          *)

Setup == {"scanUID", "scanATQA", "scanSAK", "scanATS"}
Resting == {"init", "receive", "exit"} \cup Setup
Line == {"UID", "ATQA", "SAK", "ATS", "C-APDU", "R-APDU"}

RelayTypeOK ==
    /\ split \in BOOLEAN
    /\ pcT \in Resting \cup {"scan", "forward", "send"}
    /\ pcI \in {"select", "scan", "forward", "exit", "none"}
    /\ up \in Seq(Line) /\ down \in Seq(Line)
    /\ failures \in Nat /\ commands \in Nat
    /\ answered \in Seq([command : Nat, bytes : {0}])
    /\ abtCapdu = commands /\ szRapduLen = 0

\* The modes differ in who talks to the card.
Modes ==
    /\ split => pcT # "forward" /\ pcI # "none"
    /\ ~split => pcI = "none" /\ pcT \notin Setup \cup {"scan"}

\* The lines of the identity from the i-th on
Rest(s, i) == Len(s) = 5 - i /\ \A k \in 1..5 - i : s[k] = Identity[i + k - 1]

\* Until an exchange fails, the lines on the way are what is left of the card's
\* identity, or the one command that is under way or its answer.
OneLine ==
    split /\ failures = 0 =>
      /\ \A i \in 1..4 : pcT = ScanState[i] =>
           /\ up = <<>>
           /\ \/ i = 1 /\ pcI = "select" /\ down = <<>>
              \/ pcI \in {"scan", "exit"} /\ Rest(down, i)
      /\ pcT \in {"init", "receive", "send"} => up = <<>> /\ down = <<>> /\ pcI \in {"scan", "exit"}
      /\ pcT = "scan" =>
           \/ up = <<"C-APDU">> /\ down = <<>> /\ pcI \in {"scan", "exit"}
           \/ up = <<>> /\ down = <<>> /\ pcI = "forward"
           \/ up = <<>> /\ down = <<"R-APDU">> /\ pcI \in {"scan", "exit"}

\* Until an exchange fails, all commands but the one under way were answered.
AllAnswered ==
    failures = 0 /\ pcT # "exit" => commands = Len(answered) + (IF pcT \in Resting THEN 0 ELSE 1)

InOrder == failures = 0 => \A n \in 1..Len(answered) : answered[n] = [command |-> n, bytes |-> 0]

RelayInv == RelayTypeOK /\ Modes /\ OneLine /\ AllAnswered /\ InOrder

LEMMA EmptyLines ==
    ASSUME NEW S, NEW s \in Seq(S), Len(s) = 0
    PROVE  s = <<>>
  OBVIOUS

LEMMA TailLines ==
    ASSUME NEW S, NEW s \in Seq(S), s # <<>>
    PROVE  Tail(s) \in Seq(S)
  OBVIOUS

LEMMA AppendLines ==
    ASSUME NEW S, NEW s \in Seq(S), NEW e \in S
    PROVE  /\ Append(s, e) \in Seq(S) /\ Len(s) \in Nat /\ Len(Append(s, e)) = Len(s) + 1
           /\ Append(s, e)[Len(s) + 1] = e /\ \A n \in 1..Len(s) : Append(s, e)[n] = s[n]
  OBVIOUS

LEMMA LinesAreFunction ==
    ASSUME NEW S, NEW s \in Seq(S)
    PROVE  s \in [1..Len(s) -> S]
  OBVIOUS

LEMMA RestLines ==
    /\ Identity \in Seq(Line) /\ Rest(Identity, 1)
    /\ \A s \in Seq(Line), i \in 1..4 : Rest(s, i) =>
         s # <<>> /\ Head(s) = Identity[i] /\ Tail(s) \in Seq(Line) /\ (i = 4 => Tail(s) = <<>>) /\ (i < 4 => Rest(Tail(s), i + 1))
  <1>1. Identity \in Seq(Line) /\ Len(Identity) = 4
    BY DEF Identity, Line
  <1>2. Rest(Identity, 1)
    BY <1>1 DEF Rest
  <1>3. ASSUME NEW s \in Seq(Line), NEW i \in 1..4, Rest(s, i)
        PROVE  s # <<>> /\ Head(s) = Identity[i] /\ Tail(s) \in Seq(Line)
               /\ (i = 4 => Tail(s) = <<>>) /\ (i < 4 => Rest(Tail(s), i + 1))
    <2>1. Len(s) = 5 - i /\ \A k \in 1..5 - i : s[k] = Identity[i + k - 1]
      BY <1>3 DEF Rest
    <2>2. s # <<>> /\ Head(s) = Identity[i]
      <3>1. Len(s) # 0 /\ s[1] = Identity[i]
        BY <2>1
      <3>2. QED
        BY <3>1
    <2>3. Tail(s) \in Seq(Line) /\ Len(Tail(s)) = 4 - i /\ \A k \in 1..4 - i : Tail(s)[k] = s[k + 1]
      BY <2>1, <2>2
    <2>4. i = 4 => Tail(s) = <<>>
      <3>1. i = 4 => Len(Tail(s)) = 0
        BY <2>3
      <3>2. QED
        BY <2>3, <3>1, EmptyLines
    <2>5. i < 4 => Rest(Tail(s), i + 1)
      BY <2>1, <2>3 DEF Rest
    <2>6. QED
      BY <2>2, <2>3, <2>4, <2>5
  <1>4. QED
    BY <1>1, <1>2, <1>3

LEMMA ScanStates ==
    /\ ScanState[1] = "scanUID" /\ ScanState[2] = "scanATQA" /\ ScanState[3] = "scanSAK" /\ ScanState[4] = "scanATS"
    /\ \A i \in 1..4 : ScanState[i] \in Setup /\ \A j \in 1..4 : ScanState[i] = ScanState[j] => i = j
  <1>1. \A i \in 1..4 : i = 1 \/ i = 2 \/ i = 3 \/ i = 4
    OBVIOUS
  <1>2. /\ ScanState[1] = "scanUID" /\ ScanState[2] = "scanATQA" /\ ScanState[3] = "scanSAK" /\ ScanState[4] = "scanATS"
    BY DEF ScanState
  <1>3. QED
    BY <1>1, <1>2 DEF Setup

\* The target's process neither took nor answered a command.
LEMMA CountQuiet ==
    ASSUME RelayInv, UNCHANGED <<answered, commands, szRapduLen>>, failures' >= failures, failures' \in Nat,
           pcT' = "exit" \/ (pcT' \in Resting <=> pcT \in Resting), pcT = "exit" => pcT' = "exit"
    PROVE  AllAnswered' /\ InOrder'
  BY DEF RelayInv, RelayTypeOK, AllAnswered, InOrder

LEMMA FindCardPreserves == RelayInv /\ find_card => RelayInv'
  <1> SUFFICES ASSUME RelayInv, find_card PROVE RelayInv'
    OBVIOUS
  <1>1. /\ pcI = "select" /\ UNCHANGED <<split, pcT, up, abtCapdu, szRapduLen, answered, commands>>
        /\ \/ pcI' \in {"scan", "exit"} /\ down' = Identity /\ UNCHANGED failures
           \/ failures' = failures + 1 /\ pcI' = "exit" /\ UNCHANGED down
    BY DEF find_card, Around
  <1>2. RelayTypeOK'
    BY <1>1, RestLines DEF RelayInv, RelayTypeOK
  <1>3. Modes'
    BY <1>1 DEF RelayInv, Modes
  <1>4. OneLine'
    BY <1>1, RestLines, ScanStates DEF RelayInv, RelayTypeOK, OneLine
  <1>5. AllAnswered' /\ InOrder'
    BY <1>1, CountQuiet DEF RelayInv, RelayTypeOK
  <1>6. QED
    BY <1>2, <1>3, <1>4, <1>5 DEF RelayInv

LEMMA ScanIdentityPreserves == RelayInv /\ (\E i \in 1..4 : scan_identity(i)) => RelayInv'
  <1> SUFFICES ASSUME RelayInv, NEW i \in 1..4, scan_identity(i) PROVE RelayInv'
    OBVIOUS
  <1>1. /\ pcT = ScanState[i] /\ UNCHANGED <<split, pcI, up, abtCapdu, szRapduLen, answered, failures, commands>>
        /\ \/ /\ down # <<>> /\ down' = Tail(down)
              /\ pcT' = IF Head(down) # Identity[i] THEN "exit" ELSE IF i = 4 THEN "init" ELSE ScanState[i + 1]
           \/ pcT' = "exit" /\ UNCHANGED down
    BY DEF scan_identity
  <1>2. pcT \in Setup /\ pcT \in Resting /\ pcT' \in Resting /\ (pcT' \in Setup \cup {"init", "exit"})
    <2>1. i = 4 \/ i + 1 \in 1..4
      OBVIOUS
    <2>2. pcT' \in Setup \cup {"init", "exit"}
      BY <1>1, <2>1, ScanStates
    <2>3. QED
      BY <1>1, <2>2, ScanStates DEF Resting
  <1>3. down' \in Seq(Line)
    BY <1>1, TailLines DEF RelayInv, RelayTypeOK
  <1>4. RelayTypeOK'
    BY <1>1, <1>2, <1>3 DEF RelayInv, RelayTypeOK
  <1>5. Modes' /\ split
    BY <1>1, <1>2 DEF RelayInv, Modes, Setup, RelayTypeOK
  <1>6. OneLine'
    <2> SUFFICES ASSUME failures = 0 PROVE OneLine'
      BY <1>1 DEF OneLine
    <2>1. CASE pcT' = "exit"
      BY <2>1, ScanStates DEF OneLine, Setup
    <2>2. CASE pcT' # "exit"
      <3>1. down # <<>> /\ down' = Tail(down) /\ pcT' = IF i = 4 THEN "init" ELSE ScanState[i + 1]
        BY <1>1, <2>2
      <3>2. up = <<>> /\ pcI \in {"scan", "exit"} /\ Rest(down, i)
        BY <1>1, <1>5, <3>1 DEF RelayInv, OneLine
      <3>3. (i = 4 => Tail(down) = <<>>) /\ (i < 4 => Rest(Tail(down), i + 1))
        BY <3>2, RestLines DEF RelayInv, RelayTypeOK
      <3>4. CASE i = 4
        BY <1>1, <3>1, <3>2, <3>3, <3>4, ScanStates DEF OneLine, Setup
      <3>5. CASE i < 4
        <4>1. i + 1 \in 1..4 /\ pcT' = ScanState[i + 1] /\ pcT' \in Setup
          BY <3>1, <3>5, ScanStates
        <4>2. \A j \in 1..4 : pcT' = ScanState[j] => j = i + 1
          BY <4>1, ScanStates
        <4>3. QED
          BY <1>1, <3>1, <3>2, <3>3, <3>5, <4>1, <4>2 DEF OneLine, Setup
      <3>6. QED
        BY <3>4, <3>5
    <2>3. QED
      BY <2>1, <2>2
  <1>7. AllAnswered' /\ InOrder'
    BY <1>1, <1>2, CountQuiet DEF RelayInv, RelayTypeOK, Resting, Setup
  <1>8. QED
    BY <1>4, <1>5, <1>6, <1>7 DEF RelayInv

LEMMA TargetInitPreserves == RelayInv /\ (target_init \/ receive_failed) => RelayInv'
  <1> SUFFICES ASSUME RelayInv, target_init \/ receive_failed PROVE RelayInv'
    OBVIOUS
  <1>1. /\ pcT \in {"init", "receive"} /\ pcT' \in {"receive", "exit"}
        /\ UNCHANGED <<split, pcI, up, down, abtCapdu, szRapduLen, answered, failures, commands>>
    BY DEF target_init, receive_failed, Around
  <1>2. RelayTypeOK' /\ Modes' /\ OneLine'
    BY <1>1, ScanStates DEF RelayInv, RelayTypeOK, Modes, OneLine, Setup, Resting
  <1>3. AllAnswered' /\ InOrder'
    BY <1>1, CountQuiet DEF RelayInv, RelayTypeOK, Resting
  <1>4. QED
    BY <1>2, <1>3 DEF RelayInv

LEMMA InterruptPreserves == RelayInv /\ (UNCHANGED relay_vars \/ \E p \in {"T", "I"} : interrupt(p)) => RelayInv'
  <1> SUFFICES ASSUME RelayInv, UNCHANGED relay_vars \/ \E p \in {"T", "I"} : interrupt(p) PROVE RelayInv'
    OBVIOUS
  <1>1. UNCHANGED <<split, pcT, pcI, up, down, abtCapdu, szRapduLen, answered, failures, commands>>
    BY DEF interrupt, relay_vars
  <1>2. QED
    BY <1>1 DEF RelayInv, RelayTypeOK, Modes, OneLine, AllAnswered, InOrder

LEMMA ReceiveCapduPreserves == RelayInv /\ receive_capdu => RelayInv'
  <1> SUFFICES ASSUME RelayInv, receive_capdu PROVE RelayInv'
    OBVIOUS
  <1>1. /\ pcT = "receive" /\ commands' = commands + 1 /\ abtCapdu' = commands'
        /\ \/ up' = (IF split THEN Append(up, "C-APDU") ELSE up) /\ pcT' = IF split THEN "scan" ELSE "forward"
           \/ pcI = "exit" /\ pcT' = "exit" /\ UNCHANGED up
        /\ UNCHANGED <<split, pcI, down, szRapduLen, answered, failures>>
    BY DEF receive_capdu
  <1>2. up' \in Seq(Line) /\ (split /\ failures = 0 /\ pcT' # "exit" => up' = <<"C-APDU">>)
    <2>1. up' \in Seq(Line)
      BY <1>1 DEF RelayInv, RelayTypeOK, Line
    <2>2. split /\ failures = 0 /\ pcT' # "exit" => up' = <<"C-APDU">>
      BY <1>1 DEF RelayInv, OneLine
    <2>3. QED
      BY <2>1, <2>2
  <1>3. RelayTypeOK'
    BY <1>1, <1>2 DEF RelayInv, RelayTypeOK, Resting
  <1>4. Modes'
    BY <1>1 DEF RelayInv, Modes, Setup, RelayTypeOK
  <1>5. OneLine'
    BY <1>1, <1>2, ScanStates DEF RelayInv, OneLine, Setup, RelayTypeOK
  <1>6. AllAnswered' /\ InOrder'
    BY <1>1 DEF RelayInv, AllAnswered, InOrder, Resting, Setup, RelayTypeOK
  <1>7. QED
    BY <1>3, <1>4, <1>5, <1>6 DEF RelayInv

LEMMA ScanCapduPreserves == RelayInv /\ scan_capdu => RelayInv'
  <1> SUFFICES ASSUME RelayInv, scan_capdu PROVE RelayInv'
    OBVIOUS
  <1>1. /\ pcI = "scan" /\ UNCHANGED <<split, pcT, down, abtCapdu, szRapduLen, answered, failures, commands>>
        /\ \/ up # <<>> /\ up' = Tail(up) /\ pcI' = "forward"
           \/ up = <<>> /\ pcT = "exit" /\ pcI' = "exit" /\ UNCHANGED up
    BY DEF scan_capdu
  <1>2. RelayTypeOK'
    <2>1. up' \in Seq(Line)
      BY <1>1, TailLines DEF RelayInv, RelayTypeOK
    <2>2. QED
      BY <1>1, <2>1 DEF RelayInv, RelayTypeOK
  <1>3. Modes'
    BY <1>1 DEF RelayInv, Modes
  <1>4. OneLine'
    <2>1. CASE pcT = "exit"
      BY <1>1, <2>1, ScanStates DEF OneLine, Setup
    <2>2. CASE pcT # "exit"
      <3>1. up # <<>> /\ up' = Tail(up) /\ pcI' = "forward"
        BY <1>1, <2>2
      <3>2. split /\ failures = 0 => pcT = "scan" /\ up = <<"C-APDU">> /\ down = <<>>
        BY <2>2, <3>1, ScanStates DEF RelayInv, OneLine, Modes, RelayTypeOK, Resting, Setup
      <3>3. up = <<"C-APDU">> => up' = <<>>
        BY <3>1
      <3>4. QED
        BY <1>1, <3>1, <3>2, <3>3, ScanStates DEF OneLine, Setup
    <2>3. QED
      BY <2>1, <2>2
  <1>5. AllAnswered' /\ InOrder'
    BY <1>1, CountQuiet DEF RelayInv, RelayTypeOK
  <1>6. QED
    BY <1>2, <1>3, <1>4, <1>5 DEF RelayInv

LEMMA ForwardPreserves == RelayInv /\ forward => RelayInv'
  <1> SUFFICES ASSUME RelayInv, forward PROVE RelayInv'
    OBVIOUS
  <1>1. PICK ok \in BOOLEAN :
           /\ "forward" \in {pcT, pcI} /\ failures' = (IF ok THEN failures ELSE failures + 1)
           /\ IF split THEN /\ pcI' \in {"scan", "exit"} /\ UNCHANGED pcT
                            /\ (down' = IF ok THEN Append(down, "R-APDU") ELSE down) \/ (pcT = "exit" /\ down' = down)
              ELSE /\ pcT' = (IF ok THEN "send" ELSE pcT') /\ pcT' \in {"send", "receive", "exit"}
                   /\ UNCHANGED <<pcI, down>>
           /\ UNCHANGED <<split, up, abtCapdu, szRapduLen, answered, commands>>
    BY DEF forward, Answered, Around
  <1>2. split \in BOOLEAN /\ failures \in Nat /\ failures' \in Nat /\ (failures' = 0 => ok = TRUE /\ failures = 0)
    BY <1>1 DEF RelayInv, RelayTypeOK
  <1>3. CASE split
    <2>1. pcI = "forward" /\ pcT # "forward"
      BY <1>1, <1>3 DEF RelayInv, Modes
    <2>2. down' \in Seq(Line)
      <3>1. down \in Seq(Line) /\ "R-APDU" \in Line
        BY DEF RelayInv, RelayTypeOK, Line
      <3>2. Append(down, "R-APDU") \in Seq(Line)
        BY <3>1, AppendLines
      <3>3. QED
        BY <1>1, <1>3, <3>1, <3>2
    <2>3. RelayTypeOK' /\ Modes'
      BY <1>1, <1>2, <1>3, <2>1, <2>2 DEF RelayInv, RelayTypeOK, Modes
    <2>4. OneLine'
      <3> SUFFICES ASSUME failures' = 0 PROVE OneLine'
        BY DEF OneLine
      <3>1. CASE pcT = "exit"
        BY <1>1, <1>3, <3>1, ScanStates DEF OneLine, Setup
      <3>2. CASE pcT # "exit"
        <4>1. pcT = "scan" /\ up = <<>> /\ down = <<>>
          BY <1>2, <1>3, <2>1, <3>2, ScanStates DEF RelayInv, OneLine, RelayTypeOK, Resting, Setup
        <4>2. down' = <<"R-APDU">>
          BY <1>1, <1>2, <1>3, <3>2, <4>1
        <4>3. QED
          BY <1>1, <1>3, <4>1, <4>2, ScanStates DEF OneLine, Setup
      <3>3. QED
        BY <3>1, <3>2
    <2>5. AllAnswered' /\ InOrder'
      BY <1>1, <1>2, <1>3, CountQuiet DEF RelayInv, RelayTypeOK
    <2>6. QED
      BY <2>3, <2>4, <2>5 DEF RelayInv
  <1>4. CASE ~split
    <2>1. pcT = "forward" /\ pcI = "none"
      BY <1>1, <1>4 DEF RelayInv, Modes
    <2>2. RelayTypeOK' /\ Modes' /\ OneLine'
      BY <1>1, <1>2, <1>4, <2>1 DEF RelayInv, RelayTypeOK, Modes, OneLine, Setup, Resting
    <2>3. AllAnswered' /\ InOrder'
      <3>1. failures' = 0 => pcT' = "send" /\ failures = 0
        BY <1>1, <1>2, <1>4
      <3>2. QED
        BY <1>1, <2>1, <3>1 DEF RelayInv, AllAnswered, InOrder, Resting, Setup
    <2>4. QED
      BY <2>2, <2>3 DEF RelayInv
  <1>5. QED
    BY <1>2, <1>3, <1>4

LEMMA ScanRapduPreserves == RelayInv /\ scan_rapdu => RelayInv'
  <1> SUFFICES ASSUME RelayInv, scan_rapdu PROVE RelayInv'
    OBVIOUS
  <1>1. /\ pcT = "scan" /\ UNCHANGED <<split, pcI, up, abtCapdu, szRapduLen, answered, failures, commands>>
        /\ \/ down # <<>> /\ down' = Tail(down) /\ pcT' = (IF Head(down) = "R-APDU" THEN "send" ELSE "exit")
           \/ down = <<>> /\ pcI = "exit" /\ pcT' = "exit" /\ UNCHANGED down
    BY DEF scan_rapdu
  <1>2. down' \in Seq(Line)
    BY <1>1, TailLines DEF RelayInv, RelayTypeOK
  <1>3. RelayTypeOK' /\ Modes' /\ split
    BY <1>1, <1>2 DEF RelayInv, RelayTypeOK, Modes, Resting, Setup
  <1>4. OneLine'
    <2> SUFFICES ASSUME failures = 0 PROVE OneLine'
      BY <1>1 DEF OneLine
    <2>1. CASE pcT' = "exit"
      BY <2>1, ScanStates DEF OneLine, Setup
    <2>2. CASE pcT' # "exit"
      <3>1. down # <<>> /\ down' = Tail(down) /\ pcT' = "send"
        BY <1>1, <2>2
      <3>2. up = <<>> /\ down = <<"R-APDU">> /\ pcI \in {"scan", "exit"}
        BY <1>1, <1>3, <3>1 DEF RelayInv, OneLine
      <3>3. down' = <<>>
        BY <3>1, <3>2
      <3>4. QED
        BY <1>1, <3>1, <3>2, <3>3, ScanStates DEF OneLine, Setup
    <2>3. QED
      BY <2>1, <2>2
  <1>5. AllAnswered' /\ InOrder'
    BY <1>1, CountQuiet DEF RelayInv, RelayTypeOK, Resting, Setup
  <1>6. QED
    BY <1>3, <1>4, <1>5 DEF RelayInv

LEMMA SendRapduPreserves == RelayInv /\ send_rapdu => RelayInv'
  <1> SUFFICES ASSUME RelayInv, send_rapdu PROVE RelayInv'
    OBVIOUS
  <1> DEFINE new == [command |-> abtCapdu, bytes |-> szRapduLen]
  <1>1. /\ pcT = "send" /\ UNCHANGED <<split, pcI, up, down, abtCapdu, szRapduLen, failures, commands>>
        /\ \/ pcT' \in {"receive", "exit"} /\ answered' = Append(answered, new)
           \/ pcT' = "exit" /\ UNCHANGED answered
    BY DEF send_rapdu, Around
  <1>2. new \in [command : Nat, bytes : {0}] /\ new = [command |-> commands, bytes |-> 0]
    BY DEF RelayInv, RelayTypeOK
  <1> HIDE DEF new
  <1>3. answered' \in Seq([command : Nat, bytes : {0}])
    <2>1. answered \in Seq([command : Nat, bytes : {0}])
      BY DEF RelayInv, RelayTypeOK
    <2>2. Append(answered, new) \in Seq([command : Nat, bytes : {0}])
      BY <1>2, <2>1, AppendLines
    <2>3. QED
      BY <1>1, <2>1, <2>2
  <1>4. RelayTypeOK' /\ Modes' /\ OneLine'
    BY <1>1, <1>3, ScanStates DEF RelayInv, RelayTypeOK, Modes, OneLine, Setup, Resting
  <1>5. CASE UNCHANGED answered /\ pcT' = "exit"
    <2>1. AllAnswered' /\ InOrder'
      BY <1>1, <1>5, CountQuiet DEF RelayInv, RelayTypeOK
    <2>2. QED
      BY <1>4, <2>1 DEF RelayInv
  <1>6. CASE answered' = Append(answered, new)
    <2>1. /\ Len(answered') = Len(answered) + 1 /\ answered'[Len(answered) + 1] = new /\ Len(answered) \in Nat
          /\ \A n \in 1..Len(answered) : answered'[n] = answered[n]
      <3>1. answered \in Seq([command : Nat, bytes : {0}])
        BY DEF RelayInv, RelayTypeOK
      <3>2. QED
        BY <1>2, <1>6, <3>1, AppendLines
    <2>2. failures = 0 => commands = Len(answered) + 1
      BY <1>1 DEF RelayInv, AllAnswered, Resting, Setup
    <2>3. AllAnswered'
      BY <1>1, <2>1, <2>2 DEF AllAnswered, Resting, Setup
    <2>4. InOrder'
      <3> SUFFICES ASSUME failures' = 0, NEW n \in 1..Len(answered') PROVE answered'[n] = [command |-> n, bytes |-> 0]
        BY DEF InOrder
      <3>1. n \in 1..Len(answered) \/ n = Len(answered) + 1
        BY <2>1
      <3>2. CASE n \in 1..Len(answered)
        BY <1>1, <2>1, <3>2 DEF RelayInv, InOrder
      <3>3. CASE n = Len(answered) + 1
        BY <1>1, <1>2, <2>1, <2>2, <3>3
      <3>4. QED
        BY <3>1, <3>2, <3>3
    <2>5. QED
      BY <1>4, <2>3, <2>4 DEF RelayInv
  <1>7. QED
    BY <1>1, <1>5, <1>6

LEMMA InitRelay == RelayInit => RelayInv
  <1> SUFFICES ASSUME RelayInit PROVE RelayInv
    OBVIOUS
  <1>1. RelayTypeOK /\ Modes /\ AllAnswered /\ InOrder
    BY DEF RelayInit, RelayTypeOK, Modes, AllAnswered, InOrder, Resting, Setup
  <1>2. OneLine
    BY ScanStates DEF RelayInit, OneLine
  <1>3. QED
    BY <1>1, <1>2 DEF RelayInv

\* The inductive invariant of the relay: until an exchange with the card fails,
\* at most one line is on its way between the two processes once the identity of
\* the card was read, and it is the command under way or its answer.
THEOREM RelayInductive == RelaySpec => []RelayInv
  <1>1. RelayInv /\ [RelayNext]_relay_vars => RelayInv'
    BY FindCardPreserves, ScanIdentityPreserves, TargetInitPreserves, InterruptPreserves, ReceiveCapduPreserves,
       ScanCapduPreserves, ForwardPreserves, ScanRapduPreserves, SendRapduPreserves DEF RelayNext
  <1>2. QED
    BY <1>1, InitRelay, PTL DEF RelaySpec

\* main of nfc-relay-picc: for any number of commands and interrupts, the two
\* processes wait for each other only after nfc_initiator_transceive_bytes
\* failed, and until then every command is answered once and in order.
THEOREM WaitNeedsFailureHolds == RelaySpec => []WaitNeedsFailure
  <1>1. RelayInv => WaitNeedsFailure
    <2> SUFFICES ASSUME RelayInv PROVE WaitNeedsFailure
      OBVIOUS
    <2>1. pcT = "scan" /\ pcI = "scan" /\ up = <<>> /\ down = <<>> => failures > 0
      <3> SUFFICES ASSUME pcT = "scan", pcI = "scan", up = <<>>, down = <<>>, failures = 0 PROVE FALSE
        BY DEF RelayInv, RelayTypeOK
      <3>1. split
        BY DEF RelayInv, RelayTypeOK, Modes
      <3>2. QED
        BY <3>1 DEF RelayInv, OneLine
    <2>2. failures = 0 => \A n \in 1..Len(answered) : answered[n].command = n
      <3> SUFFICES ASSUME failures = 0, NEW n \in 1..Len(answered) PROVE answered[n].command = n
        OBVIOUS
      <3>1. answered[n] = [command |-> n, bytes |-> 0]
        BY DEF RelayInv, InOrder
      <3>2. QED
        BY <3>1
    <2>3. QED
      BY <2>1, <2>2 DEF WaitNeedsFailure
  <1>2. QED
    BY <1>1, RelayInductive, PTL

-----------------------------------------------------------------------------
(* nfc-emulate-forum-tag4                                                  *)

EmulationTypeOK ==
    /\ em_pc \in {"receive", "io", "send", "close", "exit"}
    /\ ndef_file \in [0..Room - 1 -> Nat] /\ ndef_file_len \in Nat
    /\ completed \subseteq Messages
    /\ writer # Idle => /\ writer = [message |-> writer.message, at |-> writer.at]
                        /\ writer.message \in Messages /\ writer.at \in 0..Len(writer.message)
                        /\ Fits(writer.message)

\* An update that was received and not yet carried out.
Pending == em_pc = "io" /\ apdu.ins = "update"

\* Its data are bytes; an offset is not negative.
PendingBytes == Pending => apdu.off \in Nat /\ apdu.data \in Seq(Nat)

\* Readers wrote as prescribed, and nothing was written past the file.
Regular == ~stray /\ ~overrun

\* The first n bytes of message m are in the file.
Holds(m, n) == \A i \in 1..n : ndef_file[i + 1] = m[i]

\* Nobody writes: the file is a complete message, once its length arrived.
QuietFile ==
    writer = Idle => \E m \in completed :
        /\ Holds(m, Len(m))
        /\ ~Pending => ndef_file_len = Len(m) + 2
        /\ Pending => apdu.off = 0 /\ apdu.data = TwoBytes(Len(m))

\* A reader writes: the length is 0 and the bytes written so far are in the file,
\* but for those of the update that is pending.
WrittenFile ==
    writer # Idle =>
        \/ ~Pending /\ ndef_file_len = 2 /\ Holds(writer.message, writer.at)
        \/ Pending /\ writer.at = 0 /\ apdu.off = 0 /\ apdu.data = <<0, 0>>
        \/ /\ Pending /\ ndef_file_len = 2
           /\ \E o \in 0..writer.at - 1 :
                apdu.off = o + 2 /\ apdu.data = SubSeq(writer.message, o + 1, writer.at) /\ Holds(writer.message, o)

SavedFile ==
    /\ em_pc # "exit" => saved = <<>>
    /\ em_pc = "exit" => \/ saved = <<"empty">> /\ writer # Idle
                         \/ \E m \in completed : saved = <<"saved", m>>

RegularFile == (\A m \in completed : Fits(m)) /\ QuietFile /\ WrittenFile /\ SavedFile

EmulationInv == EmulationTypeOK /\ PendingBytes /\ (Regular => RegularFile)

LEMMA TwoByteFacts ==
    ASSUME NEW n \in Nat
    PROVE  (Byte * (n \div Byte)) + (n % Byte) = n /\ n \div Byte \in Nat /\ n % Byte \in Nat
  <1>1. ASSUME NEW b \in Nat \ {0} PROVE (b * (n \div b)) + (n % b) = n /\ n \div b \in Nat /\ n % b \in Nat
    OBVIOUS
  <1>2. QED
    BY <1>1, EmulationAssumption

LEMMA MessageFacts ==
    ASSUME NEW m \in Messages
    PROVE  m \in Seq(Nat) /\ Len(m) \in Nat \ {0} /\ \A i \in 1..Len(m) : m[i] \in Nat
  <1>1. m \in Seq(Nat) /\ Len(m) \in 1..(Byte * Byte) - 1
    BY EmulationAssumption
  <1>2. \A l, k : l \in 1..k => l \in Nat \ {0}
    OBVIOUS
  <1>3. QED
    BY <1>1, <1>2

LEMMA FitFacts ==
    ASSUME NEW m \in Messages, Fits(m)
    PROVE  Len(m) \in 1..Room - 2 /\ Room \in Nat
  <1>1. \A l \in Nat \ {0}, k \in Nat : l + 2 <= k => l \in 1..k - 2
    OBVIOUS
  <1>2. QED
    BY <1>1, MessageFacts, EmulationAssumption DEF Fits

LEMMA LoadFacts ==
    ASSUME NEW m \in Messages
    PROVE  /\ Load(m) \in [0..Room - 1 -> Nat]
           /\ Fits(m) => \A i \in 1..Len(m) : Load(m)[i + 1] = m[i]
  <1> DEFINE h(i) == TwoBytes(Len(m))[i + 1]
             f(i) == CASE i \in {0, 1} -> h(i) [] i \in 2..Len(m) + 1 -> m[i - 1] [] OTHER -> 0
  <1>1. Load(m) = [i \in 0..Room - 1 |-> f(i)]
    BY DEF Load
  <1>2. h(0) \in Nat /\ h(1) \in Nat
    BY TwoByteFacts, MessageFacts DEF TwoBytes
  <1> HIDE DEF h
  <1>3. \A i \in 2..Len(m) + 1 : f(i) = m[i - 1]
    BY MessageFacts
  <1>4. f(0) = h(0) /\ f(1) = h(1) /\ \A i \in Int : i # 0 /\ i # 1 /\ i \notin 2..Len(m) + 1 => f(i) = 0
    BY MessageFacts
  <1> HIDE DEF f
  <1>5. \A i \in 0..Room - 1 : f(i) \in Nat
    <2> SUFFICES ASSUME NEW i \in 0..Room - 1 PROVE f(i) \in Nat
      OBVIOUS
    <2>1. CASE i \in 2..Len(m) + 1
      <3>1. i - 1 \in 1..Len(m)
        BY <2>1, MessageFacts
      <3>2. QED
        BY <1>3, <2>1, <3>1, MessageFacts
    <2>2. CASE i \notin 2..Len(m) + 1
      BY <1>2, <1>4, <2>2
    <2>3. QED
      BY <2>1, <2>2
  <1>6. ASSUME Fits(m), NEW i \in 1..Len(m) PROVE Load(m)[i + 1] = m[i]
    <2> DEFINE n == Len(m)
    <2>1. n \in 1..Room - 2 /\ Room \in Nat /\ i \in 1..n
      BY <1>6, FitFacts
    <2> HIDE DEF n
    <2>2. i + 1 \in 0..Room - 1 /\ i + 1 \in 2..n + 1 /\ (i + 1) - 1 = i
      BY <2>1
    <2>3. QED
      BY <1>1, <1>3, <2>2 DEF n
  <1>7. QED
    BY <1>1, <1>5, <1>6

LEMMA InitEmulation == EmulationInit => EmulationInv
  <1> SUFFICES ASSUME EmulationInit PROVE EmulationInv
    OBVIOUS
  <1>1. PICK m \in Messages : ndef_file = Load(m) /\ completed = {m} /\ ndef_file_len = Len(m) + 2 /\ overrun = ~Fits(m)
    BY DEF EmulationInit
  <1>2. em_pc = "receive" /\ writer = Idle /\ saved = <<>>
    BY DEF EmulationInit
  <1>3. EmulationTypeOK /\ PendingBytes
    BY <1>1, <1>2, LoadFacts, MessageFacts DEF EmulationTypeOK, PendingBytes, Pending
  <1>4. ASSUME Regular PROVE RegularFile
    <2>1. Fits(m)
      BY <1>1, <1>4, Zenon DEF Regular
    <2>2. QuietFile
      BY <1>1, <1>2, <2>1, LoadFacts DEF QuietFile, Holds, Pending
    <2>3. WrittenFile /\ SavedFile
      BY <1>2 DEF WrittenFile, SavedFile
    <2>4. QED
      BY <1>1, <2>1, <2>2, <2>3 DEF RegularFile
  <1>5. QED
    BY <1>3, <1>4 DEF EmulationInv

\* A step that neither writes the file nor starts an update.
LEMMA FileQuiet ==
    ASSUME EmulationInv, UNCHANGED <<ndef_file, ndef_file_len, writer, completed, stray, overrun, saved>>,
           ~Pending, ~Pending', em_pc # "exit", em_pc' \in {"receive", "io", "send", "close"}
    PROVE  EmulationInv'
  <1>1. EmulationTypeOK' /\ PendingBytes'
    BY DEF EmulationInv, EmulationTypeOK, PendingBytes, Fits
  <1>2. ASSUME Regular' PROVE RegularFile'
    <2>1. RegularFile
      BY <1>2 DEF EmulationInv, Regular
    <2>2. (\A m \in completed : Fits(m))'
      BY <2>1 DEF RegularFile, Fits
    <2>3. QuietFile'
      BY <2>1 DEF RegularFile, QuietFile, Holds
    <2>4. WrittenFile'
      BY <2>1 DEF RegularFile, WrittenFile, Holds
    <2>5. SavedFile'
      BY <2>1 DEF RegularFile, SavedFile
    <2>6. QED
      BY <2>2, <2>3, <2>4, <2>5 DEF RegularFile
  <1>3. QED
    BY <1>1, <1>2 DEF EmulationInv

LEMMA RequestPreserves ==
    ASSUME EmulationInv, receive_request \/ receive_error \/ io_refuse \/ io_select \/ io_read \/ send_answer
    PROVE  EmulationInv'
  <1>1. UNCHANGED <<ndef_file, ndef_file_len, writer, completed, stray, overrun, saved>>
    BY DEF receive_request, receive_error, io_refuse, io_select, io_read, send_answer, file_vars
  <1>2. CASE receive_request
    <2>1. em_pc = "receive" /\ em_pc' = "io" /\ apdu' \in Requests
      BY <1>2 DEF receive_request, Frame
    <2>2. apdu'.ins # "update"
      BY <2>1 DEF Requests
    <2>3. QED
      BY <1>1, <2>1, <2>2, FileQuiet DEF Pending
  <1>3. CASE receive_error
    BY <1>1, <1>3, FileQuiet DEF Pending, receive_error
  <1>4. CASE io_refuse
    BY <1>1, <1>4, FileQuiet DEF Pending, io_refuse
  <1>5. CASE io_select
    <2>1. em_pc = "io" /\ apdu.ins # "update" /\ em_pc' \in {"receive", "send"}
      BY <1>5 DEF io_select, Reply
    <2>2. QED
      BY <1>1, <2>1, FileQuiet DEF Pending
  <1>6. CASE io_read
    <2>1. em_pc = "io" /\ apdu.ins # "update" /\ em_pc' \in {"receive", "send"}
      BY <1>6 DEF io_read, Reply
    <2>2. QED
      BY <1>1, <2>1, FileQuiet DEF Pending
  <1>7. CASE send_answer
    BY <1>1, <1>7, FileQuiet DEF Pending, send_answer
  <1>8. QED
    BY <1>2, <1>3, <1>4, <1>5, <1>6, <1>7

\* The end of the next piece
LEMMA PieceEnd ==
    ASSUME NEW l \in Nat, NEW a \in 0..l - 1, NEW c \in Nat \ {0}, NEW n, n = IF a + c > l THEN l ELSE a + c
    PROVE  a \in Nat /\ n \in 1..l /\ a \in 0..n - 1
  OBVIOUS

LEMMA PieceBytes ==
    ASSUME NEW m \in Seq(Nat), NEW n \in 1..Len(m), NEW a \in 1..n
    PROVE  SubSeq(m, a, n) \in Seq(Nat)
  <1>1. a \in 1..Len(m) /\ n \in 1..Len(m)
    OBVIOUS
  <1>2. QED
    BY <1>1

LEMMA ReceiveUpdatePreserves ==
    ASSUME EmulationInv, receive_update
    PROVE  EmulationInv'
  <1>1. /\ UNCHANGED <<ndef_file, ndef_file_len, stray, overrun, saved>> /\ em_pc = "receive" /\ em_pc' = "io"
        /\ completed' = IF writer' = Idle THEN completed \cup {writer.message} ELSE completed
    BY DEF receive_update, Frame, file_vars
  <1>2. Regular' => RegularFile /\ saved = <<>> /\ SavedFile'
    BY <1>1 DEF EmulationInv, Regular, RegularFile, SavedFile
  <1>3. \A m, a : a \in Int /\ a # -1 => [message |-> m, at |-> a] # Idle
    BY DEF Idle
  <1>4. CASE /\ writer = Idle /\ \E m \in {k \in Messages : Fits(k)} : writer' = [message |-> m, at |-> 0]
             /\ Frame([ins |-> "update", off |-> 0, data |-> <<0, 0>>])
    <2>1. PICK m \in Messages : Fits(m) /\ writer' = [message |-> m, at |-> 0]
      BY <1>4
    <2>2. /\ writer' # Idle /\ writer'.message = m /\ writer'.at = 0 /\ completed' = completed
      BY <1>1, <1>3, <2>1
    <2>3. apdu'.ins = "update" /\ apdu'.off = 0 /\ apdu'.data = <<0, 0>>
      BY <1>4 DEF Frame
    <2>4. EmulationTypeOK' /\ PendingBytes'
      <3>1. <<0, 0>> \in Seq(Nat)
        OBVIOUS
      <3>2. QED
        BY <1>1, <2>1, <2>2, <2>3, <3>1, MessageFacts DEF EmulationInv, EmulationTypeOK, PendingBytes, Fits
    <2>5. QuietFile' /\ WrittenFile'
      BY <1>1, <2>2, <2>3 DEF QuietFile, WrittenFile, Pending
    <2>6. QED
      BY <1>2, <2>2, <2>4, <2>5 DEF EmulationInv, RegularFile, Fits
  <1>5. CASE /\ writer.at \in 0..Len(writer.message) - 1
             /\ LET n == IF writer.at + Chunk > Len(writer.message) THEN Len(writer.message) ELSE writer.at + Chunk IN
                  /\ Frame([ins |-> "update", off |-> writer.at + 2, data |-> SubSeq(writer.message, writer.at + 1, n)])
                  /\ writer' = [writer EXCEPT !.at = n]
    <2> DEFINE m == writer.message
               n == IF writer.at + Chunk > Len(m) THEN Len(m) ELSE writer.at + Chunk
    <2>1. writer # Idle
      BY <1>5 DEF Idle
    <2>2. /\ writer = [message |-> m, at |-> writer.at] /\ m \in Messages /\ writer.at \in 0..Len(m)
          /\ Len(m) \in Nat /\ Fits(m)
      BY <2>1, MessageFacts DEF EmulationInv, EmulationTypeOK
    <2>3. writer.at \in Nat /\ n \in 1..Len(m) /\ writer.at \in 0..n - 1
      BY <1>5, <2>2, EmulationAssumption, PieceEnd
    <2>4. /\ apdu'.ins = "update" /\ apdu'.off = writer.at + 2 /\ apdu'.data = SubSeq(m, writer.at + 1, n)
          /\ writer' = [message |-> m, at |-> n]
      BY <1>5, <2>2 DEF Frame
    <2> HIDE DEF n
    <2>5. writer' # Idle /\ writer'.message = m /\ writer'.at = n /\ completed' = completed
      BY <1>1, <1>3, <2>3, <2>4
    <2>6. EmulationTypeOK'
      BY <1>1, <2>2, <2>3, <2>4, <2>5 DEF EmulationInv, EmulationTypeOK, Fits
    <2>7. PendingBytes'
      <3>1. m \in Seq(Nat)
        BY <2>2, MessageFacts
      <3>2. n \in 1..Len(m) /\ writer.at + 1 \in 1..n
        BY <2>2, <2>3
      <3>3. SubSeq(m, writer.at + 1, n) \in Seq(Nat)
        BY <3>1, <3>2, PieceBytes
      <3>4. QED
        BY <2>3, <2>4, <3>3 DEF PendingBytes
    <2>8. ASSUME Regular' PROVE QuietFile' /\ WrittenFile'
      <3>1. ndef_file_len = 2 /\ Holds(m, writer.at)
        BY <1>1, <1>2, <2>1, <2>8 DEF RegularFile, WrittenFile, Pending
      <3>2. Pending' /\ ndef_file_len' = 2 /\ \A i \in 1..writer.at : ndef_file'[i + 1] = m[i]
        BY <1>1, <2>4, <3>1 DEF Pending, Holds
      <3>3. QED
        BY <2>3, <2>4, <2>5, <3>2 DEF QuietFile, WrittenFile, Holds
    <2>9. QED
      BY <1>2, <2>5, <2>6, <2>7, <2>8 DEF EmulationInv, RegularFile, Fits
  <1>6. CASE /\ writer # Idle /\ writer.at = Len(writer.message)
             /\ Frame([ins |-> "update", off |-> 0, data |-> TwoBytes(Len(writer.message))])
             /\ writer' = Idle
    <2>1. writer.message \in Messages /\ Fits(writer.message)
      BY <1>6 DEF EmulationInv, EmulationTypeOK
    <2>2. completed' = completed \cup {writer.message}
      BY <1>1, <1>6
    <2>3. apdu'.ins = "update" /\ apdu'.off = 0 /\ apdu'.data = TwoBytes(Len(writer.message))
      BY <1>6 DEF Frame
    <2>4. EmulationTypeOK'
      BY <1>1, <1>6, <2>1, <2>2 DEF EmulationInv, EmulationTypeOK
    <2>5. PendingBytes'
      <3>1. TwoBytes(Len(writer.message)) \in Seq(Nat)
        BY <2>1, MessageFacts, TwoByteFacts DEF TwoBytes
      <3>2. QED
        BY <2>3, <3>1 DEF PendingBytes
    <2>6. ASSUME Regular' PROVE RegularFile'
      <3>1. Holds(writer.message, Len(writer.message))
        BY <1>1, <1>2, <1>6, <2>6 DEF RegularFile, WrittenFile, Pending
      <3>2. WrittenFile' /\ QuietFile'
        BY <1>1, <1>6, <2>2, <2>3, <3>1 DEF QuietFile, WrittenFile, Pending, Holds
      <3>3. (\A m \in completed : Fits(m))'
        BY <1>2, <2>1, <2>2, <2>6 DEF RegularFile, Fits
      <3>4. QED
        BY <1>2, <2>6, <3>2, <3>3 DEF RegularFile
    <2>7. QED
      BY <2>4, <2>5, <2>6 DEF EmulationInv
  <1>7. QED
    BY <1>4, <1>5, <1>6 DEF receive_update

\* A stray update arrives: nothing is claimed of the file any more.
LEMMA ReceiveStrayPreserves ==
    ASSUME EmulationInv, receive_stray
    PROVE  EmulationInv'
  <1>1. PICK o \in 0..(Byte * Byte) - 1, d \in Strays : Frame([ins |-> "update", off |-> o, data |-> d])
    BY DEF receive_stray
  <1>2. o \in Nat /\ d \in Seq(Nat) /\ apdu'.off = o /\ apdu'.data = d /\ em_pc' = "io"
    <2>1. \A k : o \in 0..k => o \in Nat
      OBVIOUS
    <2>2. QED
      BY <1>1, <2>1, EmulationAssumption DEF Frame
  <1>3. stray' /\ UNCHANGED <<ndef_file, ndef_file_len, writer, completed>>
    BY DEF receive_stray, file_vars
  <1>4. EmulationTypeOK'
    BY <1>2, <1>3 DEF EmulationInv, EmulationTypeOK, Fits
  <1>5. QED
    BY <1>2, <1>3, <1>4 DEF EmulationInv, PendingBytes, Regular

\* The bytes of a piece of a message
LEMMA PieceFacts ==
    ASSUME NEW m \in Seq(Nat), NEW a \in 1..Len(m), NEW o \in 0..a - 1
    PROVE  /\ Len(SubSeq(m, o + 1, a)) = a - o
           /\ \A k \in 1..a - o : SubSeq(m, o + 1, a)[k] = m[o + k]
  <1> DEFINE n == Len(m)
             s == SubSeq(m, o + 1, a)
  <1>1. n \in Nat /\ a \in 1..n /\ \A i \in 1..n : m[i] \in Nat
    OBVIOUS
  <1> HIDE DEF n
  <1>2. o + 1 \in Int /\ a \in Int /\ o + 1 <= a /\ a - (o + 1) + 1 = a - o
    BY <1>1
  <1>3. \A i \in o + 1..a : m[i] \in Nat
    BY <1>1
  <1>4. Len(s) = IF o + 1 <= a THEN a - (o + 1) + 1 ELSE 0
    BY <1>2, <1>3, SubSeqProperties, Zenon
  <1>5. \A i \in 1..a - (o + 1) + 1 : s[i] = m[(o + 1) + i - 1]
    <2> DEFINE p == o + 1
    <2>1. p \in Int /\ a \in Int /\ \A i \in p..a : m[i] \in Nat
      BY <1>2, <1>3
    <2> HIDE DEF p
    <2>2. \A i \in 1..a - p + 1 : SubSeq(m, p, a)[i] = m[p + i - 1]
      BY <2>1, SubSeqProperties
    <2>3. QED
      BY <2>2 DEF p
  <1> HIDE DEF s
  <1>6. \A k \in 1..a - o : o + 1 + k - 1 = o + k
    BY <1>1
  <1>7. Len(s) = a - o /\ \A k \in 1..a - o : s[k] = m[o + k]
    BY <1>2, <1>4, <1>5, <1>6
  <1>8. QED
    BY <1>7 DEF s

LEMMA IoUpdatePreserves ==
    ASSUME EmulationInv, io_update
    PROVE  EmulationInv'
  <1> DEFINE d == apdu.data
             o == apdu.off
             l == Len(d)
  <1>1. /\ Pending /\ em_pc' = "send" /\ UNCHANGED <<apdu, writer, completed, stray, saved>>
        /\ ndef_file' = [i \in 0..Room - 1 |-> IF i - o \in 0..l - 1 THEN d[i - o + 1] ELSE ndef_file[i]]
        /\ ndef_file_len' = IF o = 0 THEN (Byte * ndef_file'[0]) + ndef_file'[1] + 2 ELSE ndef_file_len
        /\ overrun' = (overrun \/ o + l > Room)
    <2>1. Ok # <<>>
      BY DEF Ok
    <2>2. QED
      BY <2>1 DEF io_update, Pending, Reply, Length
  <1>2. ~Pending'
    BY <1>1 DEF Pending
  <1>3. ndef_file \in [0..Room - 1 -> Nat] /\ ndef_file_len \in Nat /\ o \in Nat /\ d \in Seq(Nat)
    BY <1>1 DEF EmulationInv, EmulationTypeOK, PendingBytes
  <1>4. ndef_file' \in [0..Room - 1 -> Nat]
    <2>1. \A i \in 0..Room - 1 : i - o \in 0..l - 1 => d[i - o + 1] \in Nat
      <3>1. l \in Nat /\ \A k \in 1..l : d[k] \in Nat
        BY <1>3
      <3> HIDE DEF l, d
      <3>2. \A i \in Int : i - o \in 0..l - 1 => i - o + 1 \in 1..l
        BY <1>3, <3>1
      <3>3. QED
        BY <3>1, <3>2
    <2> HIDE DEF l, d, o
    <2>2. QED
      BY <1>1, <1>3, <2>1
  <1>5. ndef_file_len' \in Nat
    <2>1. 0 \in 0..Room - 1 /\ 1 \in 0..Room - 1
      BY EmulationAssumption
    <2>2. ndef_file'[0] \in Nat /\ ndef_file'[1] \in Nat
      BY <1>4, <2>1
    <2>3. \A x, y \in Nat : (Byte * x) + y + 2 \in Nat
      <3>1. \A b, x, y \in Nat : (b * x) + y + 2 \in Nat
        OBVIOUS
      <3>2. QED
        BY <3>1, EmulationAssumption
    <2>4. QED
      BY <1>1, <1>3, <2>2, <2>3
  <1>6. EmulationTypeOK' /\ PendingBytes'
    BY <1>1, <1>2, <1>4, <1>5 DEF EmulationInv, EmulationTypeOK, PendingBytes, Fits
  <1>7. SUFFICES ASSUME Regular' PROVE RegularFile'
    BY <1>6 DEF EmulationInv
  <1>8. RegularFile /\ SavedFile' /\ (\A m \in completed : Fits(m))'
    <2>1. Regular
      BY <1>1, <1>7, Zenon DEF Regular
    <2>2. RegularFile
      BY <2>1 DEF EmulationInv
    <2>3. QED
      BY <1>1, <2>2 DEF RegularFile, SavedFile, Pending, Fits
  \* The length, 0 or that of a message, is written.
  <1>9. ASSUME NEW n \in Nat, NEW x \in Nat, NEW y \in Nat, (Byte * x) + y = n, o = 0, d = <<x, y>>
        PROVE  /\ ndef_file_len' = n + 2
               /\ \A i \in 2..Room - 1 : ndef_file'[i] = ndef_file[i]
    <2>1. l = 2 /\ d[1] = x /\ d[2] = y
      BY <1>9
    <2> HIDE DEF d, l
    <2>2. \A i \in 0..Room - 1 : ndef_file'[i] = IF i = 0 THEN x ELSE IF i = 1 THEN y ELSE ndef_file[i]
      BY <1>1, <1>9, <2>1
    <2>3. ndef_file'[0] = x /\ ndef_file'[1] = y
      BY <2>2, EmulationAssumption
    <2>4. ndef_file_len' = n + 2
      <3>1. ndef_file_len' = (Byte * x) + y + 2
        BY <1>1, <1>9, <2>3
      <3>2. QED
        BY <1>9, <3>1
    <2>5. QED
      BY <2>2, <2>4
  <1>10. CASE writer = Idle
    <2>1. PICK m \in completed : Holds(m, Len(m)) /\ o = 0 /\ d = TwoBytes(Len(m))
      BY <1>1, <1>8, <1>10 DEF RegularFile, QuietFile
    <2>2. m \in Messages /\ Len(m) \in Nat /\ Len(m) \in 1..Room - 2 /\ Room \in Nat
      BY <1>8, MessageFacts, FitFacts DEF EmulationInv, EmulationTypeOK, RegularFile
    <2> DEFINE n == Len(m)
    <2>3. /\ ndef_file_len' = Len(m) + 2
          /\ \A i \in 2..Room - 1 : ndef_file'[i] = ndef_file[i]
      <3>1. n \in Nat /\ o = 0 /\ d = <<n \div Byte, n % Byte>>
        BY <2>1, <2>2 DEF TwoBytes
      <3> HIDE DEF n, d, o
      <3>2. PICK x \in Nat, y \in Nat : (Byte * x) + y = n /\ d = <<x, y>>
        BY <3>1, TwoByteFacts
      <3>3. /\ ndef_file_len' = n + 2
            /\ \A i \in 2..Room - 1 : ndef_file'[i] = ndef_file[i]
        BY <1>9, <3>1, <3>2
      <3>4. QED
        BY <3>3 DEF n
    <2>4. \A i \in 1..Len(m) : i + 1 \in 2..Room - 1
      <3>1. n \in 1..Room - 2 /\ Room \in Nat
        BY <2>2
      <3> HIDE DEF n
      <3>2. \A i \in 1..n : i + 1 \in 2..Room - 1
        BY <3>1
      <3>3. QED
        BY <3>2 DEF n
    <2>5. \A i \in 1..Len(m) : ndef_file'[i + 1] = m[i]
      BY <2>1, <2>3, <2>4 DEF Holds
    <2>6. QuietFile' /\ WrittenFile'
      <3>1. Holds(m, Len(m))' /\ m \in completed' /\ writer' = Idle
        BY <1>1, <1>10, <2>1, <2>5 DEF Holds
      <3>2. QED
        BY <1>2, <2>3, <3>1 DEF QuietFile, WrittenFile
    <2>7. QED
      BY <1>8, <2>6 DEF RegularFile
  <1>11. CASE writer # Idle
    <2> DEFINE m == writer.message
               a == writer.at
    <2>1. m \in Messages /\ m \in Seq(Nat) /\ a \in 0..Len(m) /\ Len(m) \in 1..Room - 2 /\ Room \in Nat
      BY <1>11, MessageFacts, FitFacts DEF EmulationInv, EmulationTypeOK
    <2>2. SUFFICES ndef_file_len' = 2 /\ \A i \in 1..a : ndef_file'[i + 1] = m[i]
      <3>1. QuietFile' /\ WrittenFile'
        BY <1>1, <1>2, <1>11, <2>2 DEF QuietFile, WrittenFile, Holds
      <3>2. QED
        BY <1>8, <3>1 DEF RegularFile
    <2>3. CASE a = 0 /\ o = 0 /\ d = <<0, 0>>
      <3>1. (Byte * 0) + 0 = 0
        BY EmulationAssumption
      <3>2. ndef_file_len' = 0 + 2
        BY <1>9, <2>3, <3>1
      <3>3. QED
        BY <2>3, <3>2
    <2>4. CASE /\ ndef_file_len = 2
               /\ \E b \in 0..a - 1 : o = b + 2 /\ d = SubSeq(m, b + 1, a) /\ Holds(m, b)
      <3>1. PICK b \in 0..a - 1 : o = b + 2 /\ d = SubSeq(m, b + 1, a) /\ Holds(m, b)
        BY <2>4
      <3> DEFINE e == Len(m)
      <3>2. e \in 1..Room - 2 /\ Room \in Nat /\ a \in 0..e /\ a \in 1..e /\ b \in Nat
        BY <2>1
      <3> HIDE DEF e
      <3>3. l = a - b /\ \A k \in 1..a - b : d[k] = m[b + k]
        BY <2>1, <3>1, <3>2, PieceFacts DEF e
      <3> HIDE DEF d, l, m, a, o
      <3>4. \A i \in 0..Room - 1 : ndef_file'[i] = IF i \in b + 2..a + 1 THEN m[i - 1] ELSE ndef_file[i]
        <4> SUFFICES ASSUME NEW i \in 0..Room - 1
                     PROVE  ndef_file'[i] = IF i \in b + 2..a + 1 THEN m[i - 1] ELSE ndef_file[i]
          OBVIOUS
        <4>1. ndef_file'[i] = IF i - o \in 0..l - 1 THEN d[i - o + 1] ELSE ndef_file[i]
          BY <1>1
        <4>2. i - o \in 0..l - 1 <=> i \in b + 2..a + 1
          <5>1. o = b + 2 /\ l = a - b /\ i \in Int /\ a \in Int /\ b \in Int
            BY <3>1, <3>2, <3>3
          <5>2. QED
            BY <5>1
        <4>3. i \in b + 2..a + 1 => i - o + 1 \in 1..a - b /\ b + (i - o + 1) = i - 1
          BY <3>1, <3>2
        <4>4. QED
          BY <3>3, <4>1, <4>2, <4>3
      <3>5. ndef_file_len' = 2
        BY <1>1, <2>4, <3>1
      <3>6. ASSUME NEW i \in 1..a PROVE ndef_file'[i + 1] = m[i]
        <4>1. i + 1 \in 0..Room - 1 /\ (i + 1) - 1 = i
          BY <3>2
        <4>2. CASE i \in 1..b
          <5>1. i + 1 \notin b + 2..a + 1
            BY <4>2
          <5>2. QED
            BY <3>1, <3>4, <4>1, <4>2, <5>1 DEF Holds
        <4>3. CASE i \notin 1..b
          <5>1. i + 1 \in b + 2..a + 1
            BY <3>2, <4>3
          <5>2. QED
            BY <3>4, <4>1, <5>1
        <4>4. QED
          BY <4>2, <4>3
      <3>7. QED
        BY <3>5, <3>6
    <2>5. QED
      BY <1>1, <1>8, <1>11, <2>3, <2>4 DEF RegularFile, WrittenFile
  <1>12. QED
    BY <1>10, <1>11

LEMMA SaveMessagePreserves ==
    ASSUME EmulationInv, save_message
    PROVE  EmulationInv'
  <1>1. /\ em_pc = "close" /\ em_pc' = "exit"
        /\ UNCHANGED <<ndef_file, ndef_file_len, writer, completed, stray, overrun>>
        /\ saved' = IF ndef_file_len = 2 THEN <<"empty">>
                    ELSE <<"saved", [i \in 1..ndef_file_len - 2 |-> At(i + 1)]>>
    BY DEF save_message, file_vars
  <1>2. ~Pending /\ ~Pending'
    BY <1>1 DEF Pending
  <1>3. EmulationTypeOK' /\ PendingBytes'
    BY <1>1, <1>2 DEF EmulationInv, EmulationTypeOK, PendingBytes, Fits
  <1>4. SUFFICES ASSUME Regular' PROVE RegularFile'
    BY <1>3 DEF EmulationInv
  <1>5. RegularFile
    BY <1>1, <1>4 DEF EmulationInv, Regular
  <1>6. QuietFile' /\ WrittenFile' /\ (\A m \in completed : Fits(m))'
    BY <1>1, <1>2, <1>5 DEF RegularFile, QuietFile, WrittenFile, Holds, Fits
  <1>7. SavedFile'
    <2>1. CASE writer # Idle
      BY <1>1, <1>2, <1>5, <2>1 DEF RegularFile, WrittenFile, SavedFile
    <2>2. CASE writer = Idle
      <3>1. PICK m \in completed : Holds(m, Len(m)) /\ ndef_file_len = Len(m) + 2
        BY <1>2, <1>5, <2>2 DEF RegularFile, QuietFile
      <3>2. m \in Seq(Nat) /\ Len(m) \in 1..Room - 2 /\ Room \in Nat
        BY <1>5, MessageFacts, FitFacts DEF EmulationInv, EmulationTypeOK, RegularFile
      <3> DEFINE n == Len(m)
      <3>3. ndef_file_len # 2 /\ ndef_file_len - 2 = Len(m) /\ \A i \in 1..Len(m) : i + 1 < Room
        <4>1. n \in 1..Room - 2 /\ Room \in Nat /\ ndef_file_len = n + 2
          BY <3>1, <3>2
        <4> HIDE DEF n
        <4>2. ndef_file_len # 2 /\ ndef_file_len - 2 = n /\ \A i \in 1..n : i + 1 < Room
          BY <4>1
        <4>3. QED
          BY <4>2 DEF n
      <3>4. m = [i \in 1..Len(m) |-> m[i]]
        BY <3>2, LinesAreFunction, Zenon
      <3>5. [i \in 1..Len(m) |-> At(i + 1)] = [i \in 1..Len(m) |-> m[i]]
        BY <3>1, <3>3 DEF Holds, At
      <3>6. saved' = <<"saved", m>>
        BY <1>1, <3>3, <3>4, <3>5
      <3>7. QED
        BY <1>1, <3>6 DEF SavedFile
    <2>3. QED
      BY <2>1, <2>2
  <1>8. QED
    BY <1>6, <1>7 DEF RegularFile

\* The inductive invariant of the emulated tag.  The file holds bytes whatever is
\* written to it.  As long as readers write as Type 4 tags prescribe and nothing was
\* written past it, a file nobody writes is a whole message, and one that is being
\* written has the length 0 and, before the update that is pending, the bytes
\* written so far.
THEOREM EmulationInductive == EmulationSpec => []EmulationInv
  <1>1. EmulationInv /\ [EmulationNext]_em_vars => EmulationInv'
    <2> SUFFICES ASSUME EmulationInv, [EmulationNext]_em_vars PROVE EmulationInv'
      OBVIOUS
    <2>1. CASE UNCHANGED em_vars
      BY <2>1 DEF em_vars, file_vars, EmulationInv, EmulationTypeOK, PendingBytes, Regular, RegularFile, QuietFile, WrittenFile,
                  SavedFile, Holds, Pending, Fits
    <2>2. CASE EmulationNext
      BY <2>2, RequestPreserves, ReceiveUpdatePreserves, ReceiveStrayPreserves, IoUpdatePreserves,
         SaveMessagePreserves DEF EmulationNext
    <2>3. QED
      BY <2>1, <2>2
  <1>2. QED
    BY <1>1, InitEmulation, PTL DEF EmulationSpec

\* ndef_message_save of nfc-emulate-forum-tag4, for any size of the file, any values
\* of a byte and any messages: as long as readers write as Type 4 tags prescribe
\* and the message loaded fits the file, the file saved whenever the emulation ends
\* is a complete message, or is empty because a reader was writing.
THEOREM SavedIsMessageHolds == EmulationSpec => []SavedIsMessage
  <1>1. EmulationInv => SavedIsMessage
    <2> SUFFICES ASSUME EmulationInv, Regular
                 PROVE  (Len(saved) = 2 => saved[2] \in completed) /\ (saved = <<"empty">> => writer # Idle)
      BY DEF SavedIsMessage, Regular
    <2>1. SavedFile
      BY DEF EmulationInv, RegularFile
    <2>2. CASE saved = <<>>
      BY <2>2
    <2>3. CASE saved = <<"empty">> /\ writer # Idle
      BY <2>3
    <2>4. CASE \E m \in completed : saved = <<"saved", m>>
      BY <2>4
    <2>5. QED
      BY <2>1, <2>2, <2>3, <2>4 DEF SavedFile
  <1>2. QED
    BY <1>1, EmulationInductive, PTL

-----------------------------------------------------------------------------
(* The MIFARE tools.  A card that answers is the one the tool selected, the   *)
(* part of the dump already read is that card's, and a sector is counted with *)
(* its size at most.                                                         *)

Selections == {"unlock", "loop", "auth", "block", "read", "saved", "written"}
Places == {"idle", "select", "end"} \cup Selections

\* The cards of the deck, with other blocks
CardOf(c) == [kind : {Deck[c].kind}, magic : {Deck[c].magic}, blocks : [0..LastBlock[Deck[c].kind] -> Block]]
CardsOK(deck) == deck = [c \in DOMAIN Deck |-> deck[c]] /\ \A c \in DOMAIN Deck : deck[c] \in CardOf(c)

Link == [selected : BOOLEAN, auth : Int, key : {"A", "B"}, free : BOOLEAN, locked : BOOLEAN]

MifareTypes ==
    /\ CardsOK(card)
    /\ present \in DOMAIN Deck \cup {0}
    /\ link \in Link
    /\ mc_pc \in Places /\ (IF mc_pc = "idle" THEN arg = NoArg ELSE arg \in Args)
    /\ iBlock \in Int /\ bFailure \in BOOLEAN /\ counter \in Nat /\ key_index \in Nat /\ nt \in DOMAIN Deck \cup {0}
    /\ uiBlocks \in 0..LastBlock["4K"]
    /\ mtDump \in Dump /\ mtKeys \in Dump
    /\ disk = NoFile \/ disk \in [tool : {"classic", "ultralight"}, blocks : Dump, last : Nat]
    /\ mc_faults \in Nat

\* Which tool and which part of it is where.
Placed ==
    /\ mc_pc \in {"unlock", "auth", "block"} => Classic
    /\ mc_pc = "unlock" => arg.unlock
    /\ mc_pc = "auth" => ~arg.unlock /\ key_index \in 1..Len(Keys)
    /\ mc_pc \in {"read", "saved"} => Reading
    /\ mc_pc = "written" => ~Reading
    /\ mc_pc \in {"loop", "auth", "block"} => iBlock \in 0..uiBlocks
    /\ mc_pc \in {"auth", "block"} => Boundary
    /\ mc_pc \in {"idle", "select", "unlock"} => counter = 0 /\ ~bFailure
    /\ mc_pc = "unlock" => iBlock = IF Reading THEN uiBlocks ELSE 0
    /\ mc_pc \in Selections => nt # 0
    /\ link.selected => present = nt /\ nt # 0
    /\ mc_pc \in Selections /\ ~Classic => uiBlocks = LastBlock["UL"]
    /\ mc_pc \in Selections /\ Classic => is_trailer_block(uiBlocks)

\* A block of the dump and the block of the card it was read from
Same(a, n, d, c, trailer) ==
    \/ d = c
    \/ trailer /\ ~a.unlock /\ d[2] = c[2] /\ d[KeyAt[a.key]] = c[KeyAt[a.key]]
    \/ trailer /\ d = Zero /\ n > 0

ReadSoFar ==
    /\ Reading /\ mc_pc = "select" => mtDump = Blank
    /\ Reading /\ mc_pc \in Selections =>
      /\ ~bFailure
      /\ Classic /\ Deck[nt].kind # "UL" => uiBlocks = LastBlock[Deck[nt].kind]
      /\ ~Classic => Deck[nt].kind = "UL"
      /\ Classic => /\ iBlock \in -1..uiBlocks
                    /\ \A b \in iBlock + 1 .. uiBlocks : Same(arg, mc_faults, mtDump[b], card[nt].blocks[b], is_trailer_block(b))
                    /\ \A b \in 0..iBlock : mtDump[b] = Zero
      /\ ~Classic => /\ iBlock \in Nat /\ iBlock % 4 = 0
                     /\ \A b \in 0..uiBlocks : b < iBlock => mtDump[b] = card[nt].blocks[b]
      /\ mc_pc = "block" /\ ~arg.unlock =>
            mtKeys[iBlock][KeyAt[arg.key]] = card[nt].blocks[iBlock][KeyAt[arg.key]]
      /\ mc_pc \in {"read", "saved"} => IF Classic THEN iBlock = -1 ELSE iBlock > uiBlocks
      /\ mc_pc = "saved" => disk.blocks = mtDump

\* Without a fault the card stays where it is while a tool runs, and every trailer
\* can be read ...
Faultless ==
    mc_faults = 0 =>
      /\ ~stretched => \A c \in DOMAIN Deck : Deck[c].kind # "UL" => Valid(card[c].blocks)
      /\ mc_pc \in Selections => present = nt /\ (~Classic => Deck[nt].kind = "UL")
      /\ mc_pc \in {"loop", "block"} /\ Reading /\ Classic /\ arg.unlock => link.selected /\ link.free /\ Deck[nt].magic
      /\ mc_pc = "block" /\ Reading /\ ~arg.unlock =>
            /\ link.selected /\ link.auth = iBlock
            /\ Deck[nt].kind # "UL" /\ card[nt].blocks[iBlock][2] # 0
      /\ mc_pc \in {"loop", "read"} /\ Reading /\ Classic /\ iBlock < uiBlocks => Deck[nt].kind # "UL"

\* ... and so every dump has valid trailers up to the last block that was read, and
\* only those are written, unless the card is larger.
Writable(file) == \A b \in 0..file.last : is_trailer_block(b) => file.blocks[b][2] # 0
DumpsValid ==
    /\ arg.tool = "classic" /\ arg.act = "write" => mtDump = disk.blocks /\ disk.tool = "classic"
    /\ mc_pc \in Selections /\ arg.tool = "classic" /\ arg.act = "write" /\ ~stretched => uiBlocks <= disk.last
    /\ mc_faults = 0 /\ ~stretched /\ disk.tool = "classic" => Writable(disk)

\* Blocks that are on a card, or are not to be written, and those on the card in use
Done == {b \in Nat : OnCard(b) # {} \/ b \in Untold}
Onto == {b \in Nat : nt \in OnCard(b) \/ b \in Untold}
Among(K, F) == Cardinality({b \in 0..F - 1 : b \in K})

\* Classic cards are written by sectors, and F is the first block of the one that
\* is not counted yet.
Start(F) == F % Sector(F) = 0
Sectors(F) ==
    /\ Start(F) /\ iBlock \in F..F + Sector(F)
    /\ mc_pc \in {"auth", "block"} => F = iBlock
    /\ mc_pc = "loop" /\ iBlock > 0 => F < iBlock
    /\ counter <= F /\ counter <= Among(Done, F)
    /\ counter = F => 0..F - 1 \subseteq Onto
    /\ ~bFailure => F..iBlock - 1 \subseteq Onto
WrittenSoFar ==
    /\ mc_pc \in {"loop", "auth", "block"} /\ Classic /\ ~Reading => \E F \in 0..uiBlocks : Sectors(F)
    /\ mc_pc = "loop" /\ ~Classic /\ ~Reading => /\ iBlock \in 2..uiBlocks /\ counter <= iBlock - 2
                                                 /\ counter <= Among(Done, iBlock)
MifareInv == MifareTypes /\ Placed /\ ReadSoFar /\ Faultless /\ DumpsValid /\ WrittenSoFar /\ WrittenIsCounted

-----------------------------------------------------------------------------
(* Sectors: the blocks of one have the same size, and it ends with its trailer *)

LEMMA RestOf ==
    ASSUME NEW S \in Nat \ {0}, NEW F \in Nat, F % S = 0, NEW j \in 0..S - 1
    PROVE  (F + j) % S = j
  OBVIOUS

LEMMA RestBefore ==
    ASSUME NEW S \in Nat, S > 0, NEW F \in Nat, NEW r \in Nat, r < S, (F + r) % S = r
    PROVE  F % S = 0
  BY Z3

LEMMA RestLess ==
    ASSUME NEW S \in Nat \ {0}, NEW b \in Nat
    PROVE  b % S \in 0..S - 1 /\ b - (b % S) \in Nat /\ (b - (b % S)) % S = 0
  <1>1. b % S \in 0..S - 1
    OBVIOUS
  <1>2. b - (b % S) \in Nat
    OBVIOUS
  <1>3. (b - (b % S)) % S = 0
    <2> DEFINE r == b % S
               F == b - r
    <2>1. F \in Nat /\ r \in Nat /\ r < S /\ (F + r) % S = r
      BY <1>1, <1>2
    <2> HIDE DEF r, F
    <2>2. F % S = 0
      BY <2>1, RestBefore
    <2> QED BY <2>2 DEF r, F
  <1> QED BY <1>1, <1>2, <1>3

LEMMA NextMultiple ==
    ASSUME NEW S \in Nat \ {0}, NEW F \in Nat, F % S = 0
    PROVE  (F + S) % S = 0
  <1> DEFINE r == (F + S) % S
             B == F + S - r
  <1>0. F + S \in Nat
    OBVIOUS
  <1>1. r \in 0..S - 1 /\ B \in Nat /\ B % S = 0
    <2> DEFINE x == F + S
    <2>1. x \in Nat
      BY <1>0
    <2> HIDE DEF x
    <2>2. x % S \in 0..S - 1 /\ x - (x % S) \in Nat /\ (x - (x % S)) % S = 0
      BY <2>1, RestLess
    <2> QED BY <2>2 DEF x
  <1>2. CASE r > 0
    <2>1. S - r \in 0..S - 1 /\ B = F + (S - r)
      BY <1>1, <1>2
    <2>2. B % S = S - r
      BY <2>1, RestOf
    <2> QED BY <2>2, <1>1, <1>2
  <1> QED BY <1>1, <1>2

LEMMA NoMultipleBetween ==
    ASSUME NEW S \in Nat \ {0}, NEW F \in Nat, NEW T \in Nat, F % S = 0, T % S = 0, F < T
    PROVE  F + S <= T
  <1> SUFFICES ASSUME T < F + S PROVE FALSE
    OBVIOUS
  <1>1. T - F \in 0..S - 1 /\ T = F + (T - F)
    OBVIOUS
  <1>2. T % S = T - F
    BY <1>1, RestOf
  <1> QED BY <1>2

-----------------------------------------------------------------------------
(* Sectors                                                                 *)

LEMMA SectorSize ==
    ASSUME NEW b \in Nat
    PROVE  Sector(b) \in Nat \ {0} /\ Sector(b) > 1
  BY MifareAssumption DEF Sector

\* A sector lies on one side of the threshold.
LEMMA SectorInside ==
    ASSUME NEW F \in Nat, Start(F), NEW i \in Nat, F <= i, i < F + Sector(F)
    PROVE  Sector(i) = Sector(F) /\ i % Sector(i) = i - F
  <1>1. Sector(i) = Sector(F)
    <2>1. CASE F < Threshold
      <3>1. F % Small = 0 /\ Sector(F) = Small
        BY <2>1 DEF Start, Sector
      <3>2. F + Small <= Threshold
        <4>1. Small \in Nat \ {0} /\ Threshold \in Nat /\ Threshold % Small = 0
          BY MifareAssumption
        <4> QED BY <2>1, <3>1, <4>1, NoMultipleBetween
      <3>3. i < Threshold
        <4> DEFINE n == Small
        <4>1. n \in Nat /\ Threshold \in Nat /\ i < F + n /\ F + n <= Threshold
          BY <3>1, <3>2, MifareAssumption
        <4> HIDE DEF n
        <4> QED BY <4>1
      <3> QED BY <3>1, <3>3 DEF Sector
    <2>2. CASE ~(F < Threshold)
      BY <2>2, MifareAssumption DEF Sector
    <2> QED BY <2>1, <2>2
  <1>2. (F + (i - F)) % Sector(F) = i - F
    <2>1. i - F \in 0..Sector(F) - 1
      BY SectorSize
    <2>2. F % Sector(F) = 0 /\ Sector(F) \in Nat \ {0}
      BY SectorSize DEF Start
    <2> QED BY <2>1, <2>2, RestOf
  <1> QED BY <1>1, <1>2

LEMMA SectorNext ==
    ASSUME NEW F \in Nat, Start(F)
    PROVE  F + Sector(F) \in Nat /\ Start(F + Sector(F))
  <1>1. F + Sector(F) \in Nat
    BY SectorSize
  <1>2. CASE F < Threshold
    <2>1. F % Small = 0 /\ Sector(F) = Small /\ Small \in Nat \ {0}
      BY <1>2, MifareAssumption DEF Start, Sector
    <2>2. F + Small <= Threshold /\ (F + Small) % Small = 0
      BY <1>2, <2>1, NoMultipleBetween, NextMultiple, MifareAssumption
    <2>3. CASE F + Small < Threshold
      BY <2>1, <2>2, <2>3 DEF Start, Sector
    <2>4. CASE F + Small = Threshold
      BY <2>1, <2>4, MifareAssumption DEF Start, Sector
    <2> QED BY <1>1, <2>1, <2>2, <2>3, <2>4, MifareAssumption
  <1>3. CASE ~(F < Threshold)
    <2>1. F % Big = 0 /\ Sector(F) = Big /\ Big \in Nat \ {0} /\ ~(F + Big < Threshold)
      BY <1>3, MifareAssumption DEF Start, Sector
    <2>2. (F + Big) % Big = 0
      BY <2>1, NextMultiple
    <2> QED BY <1>1, <2>1, <2>2 DEF Start, Sector
  <1> QED BY <1>2, <1>3

\* The first block of the next sector, and the trailer before it.
LEMMA SectorFirst ==
    ASSUME NEW F \in Nat, Start(F), NEW i \in Nat, F < i, i <= F + Sector(F)
    PROVE  is_first_block(i) <=> i = F + Sector(F)
  <1>1. CASE i < F + Sector(F)
    BY <1>1, SectorInside DEF is_first_block
  <1>2. CASE i = F + Sector(F)
    BY <1>2, SectorNext DEF is_first_block, Start
  <1> QED BY <1>1, <1>2, SectorSize

LEMMA SectorTrailer ==
    ASSUME NEW F \in Nat, Start(F), NEW i \in Nat, F <= i, i < F + Sector(F)
    PROVE  is_trailer_block(i) <=> i + 1 = F + Sector(F)
  <1>1. Sector(i) = Sector(F) /\ Sector(F) \in Nat \ {0}
    BY SectorInside, SectorSize
  <1>2. CASE i + 1 = F + Sector(F)
    <2>1. (F + Sector(F)) % Sector(F) = 0
      BY <1>1, NextMultiple DEF Start
    <2> QED BY <1>1, <1>2, <2>1 DEF is_trailer_block
  <1>3. CASE i + 1 < F + Sector(F)
    <2>1. i + 1 - F \in 0..Sector(F) - 1 /\ i + 1 - F > 0 /\ F + (i + 1 - F) = i + 1
      BY <1>1, <1>3
    <2>2. (F + (i + 1 - F)) % Sector(F) = i + 1 - F
      BY <1>1, <2>1, RestOf DEF Start
    <2> QED BY <1>1, <1>3, <2>1, <2>2 DEF is_trailer_block
  <1> QED BY <1>1, <1>2, <1>3

\* The trailer of a trailer is itself.
LEMMA TrailerOfTrailer ==
    ASSUME NEW b \in Nat, is_trailer_block(b)
    PROVE  get_trailer_block(b) = b
  <1> DEFINE S == Sector(b)
             r == b % S
             F == b - r
  <1>1. S \in Nat \ {0}
    BY SectorSize
  <1>2. r \in 0..S - 1 /\ F \in Nat /\ F % S = 0
    BY <1>1, RestLess
  <1>3. CASE r + 1 < S
    <2>1. (F + (r + 1)) % S = r + 1
      <3>1. r + 1 \in 0..S - 1
        BY <1>1, <1>2, <1>3
      <3> HIDE DEF S, r, F
      <3> QED BY <1>1, <1>2, <3>1, RestOf
    <2>2. F + (r + 1) = b + 1
      BY <1>1, <1>2
    <2> QED BY <1>1, <1>2, <2>1, <2>2 DEF is_trailer_block
  <1>4. r = S - 1 => get_trailer_block(b) = b
    BY <1>1, <1>2 DEF get_trailer_block
  <1> QED BY <1>1, <1>2, <1>3, <1>4

-----------------------------------------------------------------------------
(* Cards and commands                                                      *)

LEMMA DeckFacts ==
    ASSUME NEW c \in DOMAIN Deck
    PROVE  /\ c # 0 /\ Deck[c].kind \in {"Mini", "1K", "4K", "UL"} /\ Deck[c].magic \in BOOLEAN
           /\ Deck[c].blocks \in [0..LastBlock[Deck[c].kind] -> Block]
           /\ Deck[c] \in CardOf(c)
           /\ Deck[c].kind = "UL" => ~Deck[c].magic
           /\ Deck[c].kind # "UL" => Valid(Deck[c].blocks)
  BY MifareAssumption DEF CardOf

LEMMA SizeFacts ==
    /\ LastBlock["4K"] \in Nat /\ LastBlock["1K"] \in 0..LastBlock["4K"]
    /\ LastBlock["Mini"] \in 0..LastBlock["4K"] /\ is_trailer_block(LastBlock["Mini"]) /\ LastBlock["UL"] \in 4..LastBlock["4K"]
    /\ is_trailer_block(LastBlock["1K"]) /\ is_trailer_block(LastBlock["4K"])
    /\ (LastBlock["UL"] + 1) % 4 = 0
  <1>1. LastBlock["4K"] \in 0..LastBlock["4K"]
    BY MifareAssumption
  <1>2. LastBlock["UL"] \in 4..LastBlock["4K"]
    BY MifareAssumption
  <1>3. LastBlock["4K"] \in Nat
    BY <1>1
  <1> QED BY <1>2, <1>3, MifareAssumption

LEMMA CardFacts ==
    ASSUME NEW deck, CardsOK(deck)
    PROVE  /\ DOMAIN deck = DOMAIN Deck
           /\ \A c \in DOMAIN Deck : /\ deck[c].kind = Deck[c].kind /\ deck[c].blocks \in [0..LastBlock[Deck[c].kind] -> Block]
                                     /\ DOMAIN deck[c].blocks = 0..LastBlock[Deck[c].kind]
  BY DEF CardsOK, CardOf

\* Writing a block changes that block, of that card.
Wrote(after, deck, x, b, p) ==
    /\ DOMAIN after = DOMAIN deck
    /\ \A c \in DOMAIN deck : /\ after[c].kind = deck[c].kind /\ DOMAIN after[c].blocks = DOMAIN deck[c].blocks
                              /\ \A i \in DOMAIN deck[c].blocks :
                                    after[c].blocks[i] = IF c = x /\ i = b THEN p ELSE deck[c].blocks[i]

LEMMA WriteFacts ==
    ASSUME NEW deck, CardsOK(deck), NEW x \in DOMAIN Deck, NEW b \in DOMAIN deck[x].blocks, NEW p \in Block
    PROVE  CardsOK([deck EXCEPT ![x].blocks[b] = p]) /\ Wrote([deck EXCEPT ![x].blocks[b] = p], deck, x, b, p)
  <1> DEFINE after == [deck EXCEPT ![x].blocks[b] = p]
             new == [deck[x].blocks EXCEPT ![b] = p]
  <1>0. /\ DOMAIN deck = DOMAIN Deck /\ deck[x] \in CardOf(x)
        /\ deck[x].blocks \in [0..LastBlock[Deck[x].kind] -> Block] /\ b \in 0..LastBlock[Deck[x].kind]
    BY CardFacts DEF CardsOK
  <1>1. after = [c \in DOMAIN Deck |-> IF c = x THEN [deck[x] EXCEPT !.blocks = new] ELSE deck[c]]
    BY DEF CardsOK
  <1>2. /\ new \in [0..LastBlock[Deck[x].kind] -> Block]
        /\ \A i \in 0..LastBlock[Deck[x].kind] : new[i] = IF i = b THEN p ELSE deck[x].blocks[i]
    BY <1>0
  <1> HIDE DEF new
  <1>3. /\ [deck[x] EXCEPT !.blocks = new] \in CardOf(x)
        /\ [deck[x] EXCEPT !.blocks = new].blocks = new /\ [deck[x] EXCEPT !.blocks = new].kind = deck[x].kind
    BY <1>0, <1>2 DEF CardOf
  <1>4. after[x] = [deck[x] EXCEPT !.blocks = new] /\ \A c \in DOMAIN Deck : c # x => after[c] = deck[c]
    BY <1>1
  <1>5. after = [c \in DOMAIN Deck |-> after[c]]
    BY <1>1
  <1>8. DOMAIN after = DOMAIN Deck
    BY <1>1
  <1> HIDE DEF after
  <1>6. CardsOK(after)
    BY <1>3, <1>4, <1>5 DEF CardsOK
  <1>7. Wrote(after, deck, x, b, p)
    <2> SUFFICES ASSUME NEW c \in DOMAIN Deck
                 PROVE  /\ after[c].kind = deck[c].kind /\ DOMAIN after[c].blocks = DOMAIN deck[c].blocks
                        /\ \A i \in DOMAIN deck[c].blocks :
                              after[c].blocks[i] = IF c = x /\ i = b THEN p ELSE deck[c].blocks[i]
      BY <1>0, <1>8 DEF Wrote
    <2>1. CASE c = x
      BY <2>1, <1>0, <1>2, <1>3, <1>4
    <2>2. CASE c # x
      BY <2>2, <1>4
    <2> QED BY <2>1, <2>2
  <1> QED BY <1>6, <1>7 DEF after

LEMMA AwayFacts == Away \in Link /\ ~Away.selected
  BY DEF Away, Link, Nowhere

LEMMA WokenFacts ==
    ASSUME NEW c
    PROVE  Woken(c) \in Link /\ Woken(c).selected
  <1> DEFINE l == card[c].kind = "UL" /\ card[c].blocks[2][1] # 0
  <1>1. l \in BOOLEAN
    BY Zenon
  <1>2. Woken(c) = [Away EXCEPT !.selected = TRUE, !.locked = l]
    BY DEF Woken
  <1> HIDE DEF l
  <1>3. Woken(c) = [selected |-> TRUE, auth |-> Nowhere, key |-> "A", free |-> FALSE, locked |-> l]
    BY <1>2 DEF Away
  <1>4. Nowhere \in Int
    BY DEF Nowhere
  <1> QED BY <1>1, <1>3, <1>4 DEF Link

LEMMA TrailerInt ==
    ASSUME NEW b \in Int
    PROVE  get_trailer_block(b) \in Int
  <1>1. Small \in Nat \ {0} /\ Big \in Nat \ {0}
    BY MifareAssumption
  <1>2. Sector(b) \in Nat \ {0}
    BY <1>1 DEF Sector
  <1>3. b % Sector(b) \in Int
    BY <1>2
  <1> QED BY <1>2, <1>3 DEF get_trailer_block

LEMMA ArgFacts ==
    ASSUME MifareTypes
    PROVE  /\ arg.key \in {"A", "B"} /\ arg.keyfile \in BOOLEAN /\ arg.unlock \in BOOLEAN
           /\ mc_pc # "idle" => arg.tool \in {"classic", "ultralight"} /\ arg.act \in {"read", "write"}
           /\ mc_pc = "idle" => arg.act = "none"
           /\ arg.tool = "ultralight" => ~arg.unlock
  <1>1. CASE mc_pc = "idle"
    <2>1. arg = NoArg
      BY <1>1 DEF MifareTypes
    <2> QED BY <1>1, <2>1 DEF NoArg
  <1>2. CASE mc_pc # "idle"
    <2>1. arg \in Args
      BY <1>2 DEF MifareTypes
    <2> QED BY <1>2, <2>1 DEF Args
  <1> QED BY <1>1, <1>2

\* What a command does, lost or not.
Exchanged(ok, mc, b, p) ==
    /\ link' \in Link /\ mc_faults' \in Nat /\ (mc_faults' = 0 => mc_faults = 0)
    /\ link'.selected => link.selected
    /\ \/ card' = card
       \/ mc = "WRITE" /\ Permits(mc, b, p) /\ card' = [card EXCEPT ![present].blocks[b] = p]
    /\ ok => Permits(mc, b, p) /\ Performs(mc, b, p) /\ mc_faults' = mc_faults
    /\ mc_faults' = 0 => ok = Permits(mc, b, p)

LEMMA CommandExchanged ==
    ASSUME MifareTypes, NEW ok \in BOOLEAN, NEW mc \in {"AUTH", "READ", "WRITE"}, NEW b \in Int, NEW p, mifare_cmd(ok, mc, b, p)
    PROVE  Exchanged(ok, mc, b, p)
  <1>0. link \in Link /\ mc_faults \in Nat /\ arg.key \in {"A", "B"}
    BY ArgFacts DEF MifareTypes
  <1>1. ASSUME Performs(mc, b, p)
        PROVE  link' \in Link /\ link'.selected = link.selected
    BY <1>0, <1>1, TrailerInt DEF Performs, Link
  <1>2. CASE ok = Permits(mc, b, p) /\ (IF ok THEN Performs(mc, b, p) ELSE link' = Away /\ UNCHANGED card) /\ UNCHANGED mc_faults
    <2>1. CASE ok
      BY <1>0, <1>1, <1>2, <2>1 DEF Exchanged, Performs
    <2>2. CASE ~ok
      BY <1>0, <1>2, <2>2, AwayFacts DEF Exchanged
    <2> QED BY <2>1, <2>2
  <1>3. CASE /\ ~ok /\ mc_faults' = mc_faults + 1
             /\ \/ Permits(mc, b, p) /\ Performs(mc, b, p)
                \/ link' \in {link, Away} /\ UNCHANGED card
    <2>0. mc_faults' \in Nat /\ mc_faults' # 0
      BY <1>0, <1>3
    <2>1. CASE Permits(mc, b, p) /\ Performs(mc, b, p)
      BY <1>0, <1>1, <1>3, <2>0, <2>1 DEF Exchanged, Performs
    <2>2. CASE link' \in {link, Away} /\ UNCHANGED card
      BY <1>0, <1>3, <2>0, <2>2, AwayFacts DEF Exchanged
    <2> QED BY <1>3, <2>1, <2>2
  <1> QED BY <1>2, <1>3 DEF mifare_cmd

LEMMA ExchangedCards ==
    ASSUME MifareTypes, Placed, NEW ok, NEW mc, NEW b, NEW p, Exchanged(ok, mc, b, p), mc = "WRITE" => p \in Block
    PROVE  /\ CardsOK(card')
           /\ card' = card \/ (mc = "WRITE" /\ link.selected /\ present \in DOMAIN Deck /\ b \in DOMAIN card[present].blocks
                               /\ Wrote(card', card, present, b, p))
  <1>1. CardsOK(card) /\ present \in DOMAIN Deck \cup {0}
    BY DEF MifareTypes
  <1>2. CASE mc = "WRITE" /\ Permits(mc, b, p) /\ card' = [card EXCEPT ![present].blocks[b] = p]
    <2>1. link.selected /\ b \in DOMAIN card[present].blocks
      BY <1>2 DEF Permits
    <2>2. present \in DOMAIN Deck
      BY <2>1, <1>1 DEF Placed
    <2>3. CardsOK([card EXCEPT ![present].blocks[b] = p]) /\ Wrote([card EXCEPT ![present].blocks[b] = p], card, present, b, p)
      BY <1>1, <1>2, <2>1, <2>2, WriteFacts
    <2> QED BY <1>2, <2>1, <2>2, <2>3
  <1> QED BY <1>1, <1>2 DEF Exchanged

-----------------------------------------------------------------------------
(* The invariant, part by part                                             *)

LEMMA BlankFacts == Zero \in Block /\ Blank \in Dump /\ \A b \in 0..LastBlock["4K"] : Blank[b] = Zero
  BY DEF Zero, Block, Blank, Dump

LEMMA CountedFacts ==
    ASSUME NEW n \in Nat, NEW missed
    PROVE  Counted(n, missed) \in Nat
  <1>1. Small \in Nat /\ Big \in Nat
    BY MifareAssumption
  <1> QED BY <1>1 DEF Counted

LEMMA DiskFacts ==
    ASSUME MifareTypes
    PROVE  disk.last \in Nat /\ (disk.tool \in {"classic", "ultralight"} => disk.blocks \in Dump)
  BY DEF MifareTypes, NoFile

LEMMA PlacesFacts ==
    /\ "idle" \in Places /\ "select" \in Places /\ "end" \in Places /\ "unlock" \in Places /\ "loop" \in Places
    /\ "auth" \in Places /\ "block" \in Places /\ "read" \in Places /\ "saved" \in Places /\ "written" \in Places
  BY DEF Places, Selections

LEMMA TypesKept ==
    ASSUME MifareTypes, Placed, ReadSoFar, MifareNext
    PROVE  MifareTypes'
  <1> USE PlacesFacts
  <1>1. ASSUME NEW c \in DOMAIN Deck \cup {0}, swap(c) PROVE MifareTypes'
    BY <1>1, AwayFacts DEF MifareTypes, swap, toolVars
  <1>2. ASSUME NEW a \in Args, start(a) PROVE MifareTypes'
    <2>1. a.tool \in {"classic", "ultralight"} /\ a.act \in {"read", "write"}
      BY DEF Args
    <2>2. mtDump' \in Dump
      BY <1>2, <2>1, DiskFacts, BlankFacts DEF start
    <2>3. mtKeys' \in Dump
      BY <1>2, BlankFacts, MifareAssumption DEF start
    <2> QED BY <1>2, <2>2, <2>3 DEF MifareTypes, start
  <1>3. CASE first_select
    <2>1. CASE present = 0 \/ (arg.tool = "ultralight" /\ ~Ultralight)
      BY <1>3, <2>1 DEF MifareTypes, first_select
    <2>2. CASE ~(present = 0 \/ (arg.tool = "ultralight" /\ ~Ultralight))
      <3>1. present \in DOMAIN Deck /\ card[present].kind \in {"Mini", "1K", "4K", "UL"}
        BY <2>2, CardFacts, DeckFacts DEF MifareTypes
      <3>2. uiBlocks' \in 0..LastBlock["4K"]
        <4>1. uiBlocks' = LastBlock[IF card[present].kind = "UL" /\ arg.tool = "classic" THEN "1K" ELSE card[present].kind]
          BY <1>3, <2>2 DEF first_select
        <4>2. uiBlocks' \in {LastBlock["Mini"], LastBlock["1K"], LastBlock["4K"], LastBlock["UL"]}
          BY <3>1, <4>1
        <4> QED BY <4>2, SizeFacts
      <3>3. iBlock' \in Int
        BY <1>3, <2>2, <3>2, ArgFacts, SizeFacts DEF first_select
      <3>4. link' \in Link
        BY <1>3, <2>2, WokenFacts DEF first_select
      <3>5. nt' = present /\ mc_pc' \in {"unlock", "loop"} /\ mc_pc = "select"
        BY <1>3, <2>2 DEF first_select
      <3> QED BY <1>3, <3>1, <3>2, <3>3, <3>4, <3>5 DEF MifareTypes, first_select
    <2> QED BY <2>1, <2>2
  <1>4. CASE unlock_card
    <2>1. link' \in Link
      BY <1>4, AwayFacts DEF unlock_card, MifareTypes, Link
    <2> QED BY <1>4, <2>1 DEF MifareTypes, unlock_card, toolVars
  <1>5. CASE save_dump
    <2>0. mc_pc = "read"
      BY <1>5 DEF save_dump
    <2>1. disk' = NoFile \/ disk' \in [tool : {"classic", "ultralight"}, blocks : Dump, last : Nat]
      <3>1. uiBlocks \in Nat
        BY SizeFacts DEF MifareTypes
      <3> QED BY <1>5, <3>1, ArgFacts DEF MifareTypes, save_dump
    <2>2. mc_faults' \in Nat
      BY <1>5 DEF MifareTypes, save_dump
    <2> QED BY <1>5, <2>0, <2>1, <2>2 DEF MifareTypes, save_dump, toolVars
  <1>6. CASE close_tool
    <2>1. uiBlocks' \in 0..LastBlock["4K"]
      BY <1>6, SizeFacts DEF close_tool
    <2>2. link' \in Link /\ mtDump' \in Dump /\ mtKeys' \in Dump
      BY <1>6, AwayFacts, BlankFacts DEF close_tool
    <2>3. mc_pc' = "idle" /\ arg' = NoArg /\ iBlock' = 0 /\ ~bFailure' /\ bFailure' \in BOOLEAN /\ counter' = 0 /\ key_index' = 1 /\ nt' = 0
      BY <1>6 DEF close_tool
    <2>4. UNCHANGED <<card, present, disk, mc_faults>>
      BY <1>6 DEF close_tool
    <2> QED BY <2>1, <2>2, <2>3, <2>4 DEF MifareTypes
  <1>7. CASE next_sector
    <2>1. link' \in Link
      BY <1>7, AwayFacts, WokenFacts DEF next_sector, MifareTypes
    <2>2. nt' \in DOMAIN Deck \cup {0}
      BY <1>7 DEF next_sector, MifareTypes
    <2>3. counter' \in Nat
      BY <1>7, CountedFacts DEF next_sector, MifareTypes
    <2>4. bFailure' \in BOOLEAN
      BY <1>7, Zenon DEF next_sector
    <2>5. mc_pc = "loop" /\ mc_pc' \in {"end", "block", "auth"}
      BY <1>7 DEF next_sector
    <2> QED BY <1>7, <2>1, <2>2, <2>3, <2>4, <2>5 DEF MifareTypes, next_sector
  <1>8. CASE authenticate
    <2> DEFINE key == IF arg.keyfile THEN mtKeys[get_trailer_block(iBlock)][KeyAt[arg.key]] ELSE Keys[key_index]
    <2>0. mc_pc = "auth" /\ mc_pc' \in {"block", "auth", "end"}
      BY <1>8 DEF authenticate
    <2>1. CardsOK(card') /\ link' \in Link /\ mc_faults' \in Nat
      <3>1. ASSUME NEW ok \in BOOLEAN, mifare_cmd(ok, "AUTH", iBlock, key)
            PROVE  CardsOK(card') /\ link' \in Link /\ mc_faults' \in Nat
        <4>1. Exchanged(ok, "AUTH", iBlock, key)
          BY <3>1, CommandExchanged DEF MifareTypes
        <4> QED BY <4>1, ExchangedCards DEF Exchanged
      <3>2. CASE UNCHANGED card /\ link' \in {IF present = nt THEN Woken(nt) ELSE Away, Away} /\ (UNCHANGED mc_faults \/ mc_faults' = mc_faults + 1)
        BY <3>2, WokenFacts, AwayFacts DEF MifareTypes
      <3> QED BY <1>8, <3>1, <3>2 DEF authenticate
    <2>2. mtKeys' \in Dump
      <3>1. CASE mtKeys' = [mtKeys EXCEPT ![iBlock][KeyAt[arg.key]] = key] /\ ~arg.keyfile
        <4>1. key \in Nat
          <5>1. key_index \in 1..Len(Keys) /\ Keys \in Seq(Nat) /\ key = Keys[key_index]
            BY <2>0, <3>1, MifareAssumption DEF Placed
          <5> HIDE DEF key
          <5> QED BY <5>1
        <4>2. iBlock \in 0..LastBlock["4K"] /\ mtKeys[iBlock] \in Block /\ KeyAt[arg.key] \in 1..3
          <5>1. iBlock \in 0..LastBlock["4K"]
            BY <2>0, SizeFacts DEF MifareTypes, Placed
          <5>2. KeyAt[arg.key] \in 1..3
            BY ArgFacts DEF KeyAt
          <5> QED BY <5>1, <5>2 DEF MifareTypes, Dump
        <4> HIDE DEF key
        <4>3. [mtKeys[iBlock] EXCEPT ![KeyAt[arg.key]] = key] \in Block
          BY <4>1, <4>2 DEF Block
        <4>4. mtKeys' = [mtKeys EXCEPT ![iBlock] = [mtKeys[iBlock] EXCEPT ![KeyAt[arg.key]] = key]]
          BY <3>1
        <4> QED BY <4>2, <4>3, <4>4 DEF Dump, MifareTypes
      <3>2. CASE mtKeys' = mtKeys
        BY <3>2 DEF MifareTypes
      <3> QED BY <1>8, <3>1, <3>2 DEF authenticate
    <2>3. key_index' \in Nat
      <3>1. key_index' = key_index \/ key_index' = key_index + 1
        BY <1>8 DEF authenticate
      <3> QED BY <3>1 DEF MifareTypes
    <2> QED BY <1>8, <2>0, <2>1, <2>2, <2>3 DEF MifareTypes, authenticate
  <1>9. CASE read_block
    <2>0. mc_pc \in {"loop", "block"} /\ mc_pc' \in {"end", "read", "loop"}
      BY <1>9 DEF read_block, Inside
    <2>1. PICK ok \in BOOLEAN : /\ mifare_cmd(ok, "READ", iBlock, Zero)
                                /\ bFailure' = ReadFailed(ok)
                                /\ mtDump' = IF ~ok THEN mtDump
                                             ELSE [mtDump EXCEPT ![iBlock] =
                                                LET got == card[present].blocks[iBlock] IN
                                                  IF is_trailer_block(iBlock) /\ ~arg.unlock
                                                  THEN <<mtKeys[iBlock][1], got[2], mtKeys[iBlock][3]>> ELSE got]
      BY <1>9 DEF read_block
    <2>2. Exchanged(ok, "READ", iBlock, Zero)
      BY <2>1, CommandExchanged DEF MifareTypes
    <2>3. CardsOK(card') /\ link' \in Link /\ mc_faults' \in Nat
      BY <2>2, ExchangedCards DEF Exchanged
    <2>4. mtDump' \in Dump
      <3>1. CASE ok
        <4>1. link.selected /\ iBlock \in DOMAIN card[present].blocks
          BY <2>2, <3>1 DEF Exchanged, Permits
        <4>2. present \in DOMAIN Deck
          BY <4>1 DEF Placed, MifareTypes
        <4>3. card[present].blocks[iBlock] \in Block
          <5>1. card[present].blocks \in [0..LastBlock[Deck[present].kind] -> Block]
            BY <4>2, CardFacts DEF MifareTypes
          <5> QED BY <4>1, <5>1
        <4>4. iBlock \in 0..LastBlock["4K"] /\ mtKeys[iBlock] \in Block
          BY <2>0, SizeFacts DEF MifareTypes, Placed, Dump
        <4>5. <<mtKeys[iBlock][1], card[present].blocks[iBlock][2], mtKeys[iBlock][3]>> \in Block
          BY <4>3, <4>4 DEF Block
        <4> QED BY <2>1, <3>1, <4>3, <4>4, <4>5 DEF Dump, MifareTypes
      <3>2. CASE ~ok
        BY <2>1, <3>2 DEF MifareTypes
      <3> QED BY <3>1, <3>2
    <2>5. bFailure' \in BOOLEAN
      BY <2>1, Zenon DEF ReadFailed
    <2>6. counter' \in Nat
      BY <1>9, CountedFacts DEF read_block, MifareTypes
    <2>7. iBlock' \in Int
      BY <1>9 DEF read_block, MifareTypes
    <2> QED BY <1>9, <2>0, <2>3, <2>4, <2>5, <2>6, <2>7 DEF MifareTypes, read_block
  <1>10. CASE write_block
    <2>0. mc_pc \in {"loop", "block"} /\ mc_pc' \in {"end", "written", "loop"}
      BY <1>10 DEF write_block, Inside
    <2>1. CardsOK(card') /\ link' \in Link /\ mc_faults' \in Nat /\ bFailure' \in BOOLEAN
      <3>1. CASE UNCHANGED <<card, link, bFailure, mc_faults>>
        BY <3>1 DEF MifareTypes
      <3>2. ASSUME NEW ok \in BOOLEAN, mifare_cmd(ok, "WRITE", iBlock, mtDump[iBlock]), bFailure' = (bFailure \/ ~ok)
            PROVE  CardsOK(card') /\ link' \in Link /\ mc_faults' \in Nat /\ bFailure' \in BOOLEAN
        <4>1. iBlock \in 0..LastBlock["4K"] /\ mtDump[iBlock] \in Block
          BY <2>0, SizeFacts DEF MifareTypes, Placed, Dump
        <4>2. Exchanged(ok, "WRITE", iBlock, mtDump[iBlock])
          BY <3>2, CommandExchanged DEF MifareTypes
        <4>3. bFailure' \in BOOLEAN
          BY <3>2, Zenon
        <4> QED BY <4>1, <4>2, <4>3, ExchangedCards DEF Exchanged
      <3> QED BY <1>10, <3>1, <3>2 DEF write_block
    <2>6. counter' \in Nat
      BY <1>10, CountedFacts DEF write_block, MifareTypes
    <2>7. iBlock' \in Int
      BY <1>10 DEF write_block, MifareTypes
    <2> QED BY <1>10, <2>0, <2>1, <2>6, <2>7 DEF MifareTypes, write_block
  <1>11. CASE read_pages
    <2>0. mc_pc = "loop" /\ mc_pc' \in {"end", "read", "loop"} /\ Reading /\ ~Classic
      BY <1>11 DEF read_pages
    <2>1. PICK ok \in BOOLEAN : /\ mifare_cmd(ok, "READ", iBlock, Zero)
                                /\ bFailure' = ~ok
                                /\ IF ok THEN /\ mtDump' = [b \in DOMAIN mtDump |-> IF b \in iBlock..iBlock + 3 THEN card[present].blocks[b] ELSE mtDump[b]]
                                              /\ counter' = counter + 4
                                   ELSE UNCHANGED <<mtDump, counter>>
      BY <1>11 DEF read_pages
    <2>2. Exchanged(ok, "READ", iBlock, Zero)
      BY <2>1, CommandExchanged DEF MifareTypes
    <2>3. CardsOK(card') /\ link' \in Link /\ mc_faults' \in Nat
      BY <2>2, ExchangedCards DEF Exchanged
    <2>4. mtDump' \in Dump
      <3>1. CASE ok
        <4>1. link.selected /\ iBlock \in DOMAIN card[present].blocks
          BY <2>2, <3>1 DEF Exchanged, Permits
        <4>2. present = nt /\ present \in DOMAIN Deck
          BY <4>1 DEF Placed, MifareTypes
        <4>3. card[present].blocks \in [0..LastBlock["UL"] -> Block] /\ uiBlocks = LastBlock["UL"]
          BY <2>0, <4>2, CardFacts DEF MifareTypes, ReadSoFar, Placed, Selections
        <4>4. iBlock + 3 <= LastBlock["UL"] /\ iBlock \in Nat
          <5>1. iBlock \in Nat /\ iBlock % 4 = 0 /\ iBlock <= LastBlock["UL"]
            BY <2>0, <4>3, SizeFacts DEF Placed, ReadSoFar, Selections
          <5> QED BY <5>1, SizeFacts
        <4>5. \A b \in 0..LastBlock["4K"] : b \in iBlock..iBlock + 3 => card[present].blocks[b] \in Block
          BY <4>3, <4>4, SizeFacts
        <4> QED BY <2>1, <3>1, <4>5 DEF Dump, MifareTypes
      <3>2. CASE ~ok
        BY <2>1, <3>2 DEF MifareTypes
      <3> QED BY <3>1, <3>2
    <2>5. bFailure' \in BOOLEAN
      BY <2>1, Zenon
    <2>6. counter' \in Nat
      BY <2>1 DEF MifareTypes
    <2>7. iBlock' \in Int
      BY <1>11 DEF read_pages, MifareTypes
    <2> QED BY <1>11, <2>0, <2>3, <2>4, <2>5, <2>6, <2>7 DEF MifareTypes, read_pages
  <1>12. CASE write_page
    <2>0. mc_pc = "loop" /\ mc_pc' \in {"end", "written", "loop"}
      BY <1>12 DEF write_page
    <2>1. CardsOK(card') /\ link' \in Link /\ mc_faults' \in Nat /\ bFailure' \in BOOLEAN /\ nt' \in DOMAIN Deck \cup {0} /\ counter' \in Nat
      <3>1. CASE UNCHANGED <<card, link, nt, bFailure, counter, mc_faults>>
        BY <3>1 DEF MifareTypes
      <3>2. ASSUME NEW ok \in BOOLEAN, mifare_cmd(ok, "WRITE", iBlock, mtDump[iBlock]), bFailure' = ~ok,
                   counter' = (IF ok THEN counter + 1 ELSE counter), UNCHANGED nt
            PROVE  CardsOK(card') /\ link' \in Link /\ mc_faults' \in Nat /\ bFailure' \in BOOLEAN /\ nt' \in DOMAIN Deck \cup {0} /\ counter' \in Nat
        <4>1. iBlock \in 0..LastBlock["4K"] /\ mtDump[iBlock] \in Block
          BY <2>0, SizeFacts DEF MifareTypes, Placed, Dump
        <4>2. Exchanged(ok, "WRITE", iBlock, mtDump[iBlock])
          BY <3>2, CommandExchanged DEF MifareTypes
        <4>3. bFailure' \in BOOLEAN
          BY <3>2, Zenon
        <4>4. counter' \in Nat /\ nt' \in DOMAIN Deck \cup {0}
          BY <3>2 DEF MifareTypes
        <4>5. CardsOK(card') /\ link' \in Link /\ mc_faults' \in Nat
          BY <4>1, <4>2, ExchangedCards DEF Exchanged
        <4> QED BY <4>3, <4>4, <4>5
      <3>3. CASE /\ IF present = 0 THEN link' = Away /\ UNCHANGED nt ELSE link' = Woken(present) /\ nt' = present
                 /\ bFailure' = (present = 0) /\ UNCHANGED <<card, counter, mc_faults>>
        <4>1. bFailure' \in BOOLEAN
          BY <3>3, Zenon
        <4>2. link' \in Link /\ nt' \in DOMAIN Deck \cup {0}
          BY <3>3, AwayFacts, WokenFacts DEF MifareTypes
        <4> QED BY <3>3, <4>1, <4>2 DEF MifareTypes
      <3> QED BY <1>12, <3>1, <3>2, <3>3 DEF write_page
    <2>2. iBlock' \in Int
      BY <1>12 DEF write_page, MifareTypes
    <2> QED BY <1>12, <2>0, <2>1, <2>2 DEF MifareTypes, write_page
  <1> QED BY <1>1, <1>2, <1>3, <1>4, <1>5, <1>6, <1>7, <1>8, <1>9, <1>10, <1>11, <1>12 DEF MifareNext

\* A command, for the link.
LEMMA StaysSelected ==
    ASSUME MifareTypes, NEW ok \in BOOLEAN, NEW mc \in {"AUTH", "READ", "WRITE"}, NEW p, mifare_cmd(ok, mc, iBlock, p)
    PROVE  link'.selected => link.selected
  <1>1. Exchanged(ok, mc, iBlock, p)
    BY CommandExchanged DEF MifareTypes
  <1> QED BY <1>1 DEF Exchanged

LEMMA PlacedKept ==
    ASSUME MifareTypes, Placed, MifareNext
    PROVE  Placed'
  <1> USE DEF Selections, Classic, Reading
  <1>1. ASSUME NEW c \in DOMAIN Deck \cup {0}, swap(c) PROVE Placed'
    BY <1>1, AwayFacts DEF Placed, Boundary, swap, toolVars
  <1>2. ASSUME NEW a \in Args, start(a) PROVE Placed'
    BY <1>2 DEF Placed, start
  <1>3. CASE first_select
    <2>1. CASE present = 0 \/ (arg.tool = "ultralight" /\ ~Ultralight)
      BY <1>3, <2>1 DEF Placed, first_select
    <2>2. CASE ~(present = 0 \/ (arg.tool = "ultralight" /\ ~Ultralight))
      <3>1. present \in DOMAIN Deck /\ card[present].kind \in {"Mini", "1K", "4K", "UL"} /\ present # 0
        BY <2>2, CardFacts, DeckFacts DEF MifareTypes
      <3>2. /\ mc_pc = "select" /\ nt' = present /\ present' = present /\ arg' = arg /\ mc_pc' = IF arg.unlock THEN "unlock" ELSE "loop"
            /\ uiBlocks' = LastBlock[IF card[present].kind = "UL" /\ arg.tool = "classic" THEN "1K" ELSE card[present].kind]
            /\ iBlock' = CASE arg.act = "write" -> IF arg.tool = "classic" THEN 0 ELSE 2
                           [] arg.act = "read" -> IF arg.tool = "classic" THEN uiBlocks' ELSE 0
            /\ counter' = counter /\ bFailure' = bFailure
        BY <1>3, <2>2 DEF first_select
      <3>3. arg.tool \in {"classic", "ultralight"} /\ arg.act \in {"read", "write"} /\ (arg.tool = "ultralight" => ~arg.unlock)
        BY <3>2, ArgFacts
      <3>4. CASE arg.tool = "classic"
        <4>1. uiBlocks' \in {LastBlock["Mini"], LastBlock["1K"], LastBlock["4K"]}
          BY <3>1, <3>2, <3>4
        <4>2. is_trailer_block(uiBlocks') /\ uiBlocks' \in Nat /\ iBlock' \in 0..uiBlocks' /\ iBlock' = IF arg.act = "read" THEN uiBlocks' ELSE 0
          BY <4>1, <3>2, <3>3, <3>4, SizeFacts
        <4> QED BY <3>1, <3>2, <3>3, <3>4, <4>2 DEF Placed
      <3>5. CASE arg.tool = "ultralight"
        <4>1. uiBlocks' = LastBlock["UL"]
          BY <2>2, <3>1, <3>2, <3>5 DEF Ultralight
        <4>2. iBlock' \in 0..uiBlocks'
          BY <4>1, <3>2, <3>3, <3>5, SizeFacts
        <4> QED BY <3>1, <3>2, <3>3, <3>5, <4>1, <4>2 DEF Placed
      <3> QED BY <3>3, <3>4, <3>5
    <2> QED BY <2>1, <2>2
  <1>4. CASE unlock_card
    <2>1. link'.selected => link.selected
      BY <1>4, AwayFacts DEF unlock_card, MifareTypes, Link
    <2>2. mc_pc' = "loop" => iBlock \in 0..uiBlocks
      BY <1>4 DEF unlock_card, Placed, MifareTypes
    <2> QED BY <1>4, <2>1, <2>2 DEF Placed, unlock_card, toolVars
  <1>5. CASE save_dump
    BY <1>5 DEF Placed, save_dump, toolVars
  <1>6. CASE close_tool
    BY <1>6, AwayFacts DEF Placed, close_tool
  <1>7. CASE next_sector
    <2>1. link'.selected => present = nt' /\ nt' # 0
      BY <1>7, AwayFacts DEF next_sector, Placed
    <2>2. nt' # 0
      BY <1>7 DEF next_sector, Placed
    <2>3. 1 \in 1..Len(Keys)
      BY MifareAssumption
    <2> QED BY <1>7, <2>1, <2>2, <2>3 DEF Placed, next_sector, Boundary
  <1>8. CASE authenticate
    <2> DEFINE key == IF arg.keyfile THEN mtKeys[get_trailer_block(iBlock)][KeyAt[arg.key]] ELSE Keys[key_index]
    <2>0. /\ mc_pc = "auth" /\ mc_pc' \in {"block", "auth", "end"}
          /\ UNCHANGED <<present, arg, iBlock, bFailure, counter, nt, uiBlocks>>
      BY <1>8 DEF authenticate
    <2>1. link'.selected => present = nt /\ nt # 0
      <3>1. ASSUME NEW ok \in BOOLEAN, mifare_cmd(ok, "AUTH", iBlock, key)
            PROVE  link'.selected => link.selected
        BY <3>1, StaysSelected
      <3>2. CASE link' = (IF present = nt THEN Woken(nt) ELSE Away)
        BY <2>0, <3>2, AwayFacts DEF Placed
      <3> QED BY <1>8, <3>1, <3>2 DEF authenticate, Placed
    <2>2. mc_pc' = "auth" => key_index' \in 1..Len(Keys)
      <3>1. mc_pc' = "auth" => key_index' = key_index + 1 /\ key_index # Len(Keys)
        BY <1>8 DEF authenticate
      <3>2. key_index \in 1..Len(Keys) /\ Len(Keys) \in Nat
        BY <2>0, MifareAssumption DEF Placed
      <3> QED BY <3>1, <3>2
    <2> QED BY <2>0, <2>1, <2>2 DEF Placed, Boundary
  <1>9. CASE read_block
    <2>0. /\ mc_pc \in {"loop", "block"} /\ mc_pc' \in {"end", "read", "loop"} /\ Reading /\ Classic
          /\ UNCHANGED <<present, arg, nt, uiBlocks>> /\ iBlock' = iBlock - 1
      BY <1>9 DEF read_block, Inside
    <2>1. link'.selected => link.selected
      BY <1>9, StaysSelected DEF read_block
    <2>2. mc_pc' = "loop" => iBlock' \in 0..uiBlocks
      <3>1. mc_pc' = "loop" => iBlock # 0
        BY <1>9 DEF read_block
      <3> QED BY <2>0, <3>1 DEF Placed, MifareTypes
    <2> QED BY <2>0, <2>1, <2>2 DEF Placed
  <1>10. CASE write_block
    <2>0. /\ mc_pc \in {"loop", "block"} /\ mc_pc' \in {"end", "written", "loop"} /\ ~Reading /\ Classic
          /\ UNCHANGED <<present, arg, nt, uiBlocks>> /\ iBlock' = iBlock + 1
      BY <1>10 DEF write_block, Inside
    <2>1. link'.selected => link.selected
      BY <1>10, StaysSelected DEF write_block
    <2>2. mc_pc' = "loop" => iBlock' \in 0..uiBlocks
      <3>0. is_trailer_block(uiBlocks)
        BY <2>0 DEF Placed
      <3>1. mc_pc' = "loop" => iBlock # uiBlocks
        BY <1>10, <3>0 DEF write_block
      <3> QED BY <2>0, <3>1 DEF Placed, MifareTypes
    <2> QED BY <2>0, <2>1, <2>2 DEF Placed
  <1>11. CASE read_pages
    <2>0. /\ mc_pc = "loop" /\ mc_pc' \in {"end", "read", "loop"} /\ Reading /\ ~Classic
          /\ UNCHANGED <<present, arg, nt, uiBlocks>> /\ iBlock' = iBlock + 4
      BY <1>11 DEF read_pages
    <2>1. link'.selected => link.selected
      BY <1>11, StaysSelected DEF read_pages
    <2>2. mc_pc' = "loop" => iBlock' \in 0..uiBlocks
      <3>1. mc_pc' = "loop" => ~(iBlock + 4 > uiBlocks)
        BY <1>11 DEF read_pages
      <3> QED BY <2>0, <3>1 DEF Placed, MifareTypes
    <2> QED BY <2>0, <2>1, <2>2 DEF Placed
  <1>12. CASE write_page
    <2>0. /\ mc_pc = "loop" /\ mc_pc' \in {"end", "written", "loop"} /\ ~Reading /\ ~Classic
          /\ UNCHANGED <<present, arg, uiBlocks>> /\ iBlock' \in {iBlock, iBlock + 1}
      BY <1>12 DEF write_page
    <2>1. link'.selected => present = nt' /\ nt' # 0
      <3>1. CASE UNCHANGED <<link, nt>>
        BY <3>1 DEF Placed
      <3>2. ASSUME NEW ok \in BOOLEAN, mifare_cmd(ok, "WRITE", iBlock, mtDump[iBlock]), UNCHANGED nt
            PROVE  link'.selected => present = nt' /\ nt' # 0
        BY <3>2, StaysSelected DEF Placed
      <3>3. CASE IF present = 0 THEN link' = Away /\ UNCHANGED nt ELSE link' = Woken(present) /\ nt' = present
        BY <3>3, AwayFacts
      <3> QED BY <1>12, <3>1, <3>2, <3>3 DEF write_page
    <2>2. nt' # 0
      BY <1>12 DEF write_page, Placed
    <2>3. mc_pc' = "loop" => iBlock' \in 0..uiBlocks
      <3>1. uiBlocks >= 4 /\ iBlock \in 0..uiBlocks
        BY <2>0, SizeFacts DEF Placed, MifareTypes
      <3>2. mc_pc' = "loop" => iBlock' = iBlock \/ iBlock # uiBlocks
        <4>1. CASE (iBlock = 2 /\ ~arg.lock) \/ (iBlock = 3 /\ ~arg.otp)
          BY <3>1, <4>1
        <4>2. CASE ~((iBlock = 2 /\ ~arg.lock) \/ (iBlock = 3 /\ ~arg.otp)) /\ bFailure
          <5>1. (mc_pc' = "loop" => present # 0) /\ (bFailure' = (present = 0)) /\ iBlock' = IF bFailure /\ ~bFailure' THEN iBlock ELSE iBlock + 1
            BY <1>12, <4>2 DEF write_page
          <5> QED BY <4>2, <5>1
        <4>3. CASE ~((iBlock = 2 /\ ~arg.lock) \/ (iBlock = 3 /\ ~arg.otp)) /\ ~bFailure
          BY <1>12, <4>3 DEF write_page
        <4> QED BY <4>1, <4>2, <4>3
      <3> QED BY <2>0, <3>1, <3>2 DEF MifareTypes
    <2> QED BY <2>0, <2>1, <2>2, <2>3 DEF Placed
  <1> QED BY <1>1, <1>2, <1>3, <1>4, <1>5, <1>6, <1>7, <1>8, <1>9, <1>10, <1>11, <1>12 DEF MifareNext

LEMMA SameLater ==
    ASSUME NEW a, NEW n \in Nat, NEW m \in Nat, n <= m, NEW d, NEW c, NEW trailer, Same(a, n, d, c, trailer)
    PROVE  Same(a, m, d, c, trailer)
  BY DEF Same

\* Without a fault the trailer that begins a sector can be read.
LEMMA ReadPermitted ==
    ASSUME MifareTypes, Placed, ReadSoFar, Faultless, mc_faults = 0, mc_pc = "block", Reading, Classic
    PROVE  Permits("READ", iBlock, Zero)
  <1>1. iBlock \in 0..uiBlocks /\ is_trailer_block(iBlock) /\ nt \in DOMAIN Deck /\ present = nt /\ uiBlocks \in 0..LastBlock["4K"] /\ LastBlock["4K"] \in Nat
    BY SizeFacts DEF Placed, Boundary, Faultless, Selections, MifareTypes
  <1>2. get_trailer_block(iBlock) = iBlock
    BY <1>1, TrailerOfTrailer
  <1>3. link.selected /\ Deck[nt].kind # "UL"
    <2>1. CASE arg.unlock
      <3>1. link.selected /\ Deck[nt].magic
        BY <2>1 DEF Faultless
      <3> QED BY <3>1, <1>1, DeckFacts
    <2>2. CASE ~arg.unlock
      BY <2>2 DEF Faultless
    <2> QED BY <2>1, <2>2
  <1>4. card[present].kind # "UL" /\ DOMAIN card[present].blocks = 0..uiBlocks
    BY <1>1, <1>3, CardFacts DEF MifareTypes, ReadSoFar, Selections
  <1>5. CASE arg.unlock
    <2>1. link.free
      BY <1>5 DEF Faultless
    <2> QED BY <1>1, <1>2, <1>3, <1>4, <2>1 DEF Permits, Ultralight
  <1>6. CASE ~arg.unlock
    <2>1. link.auth = iBlock
      BY <1>6 DEF Faultless
    <2>2. card[present].blocks[iBlock][2] # 0
      BY <1>1, <1>6 DEF Faultless
    <2> QED BY <1>1, <1>2, <1>3, <1>4, <2>1, <2>2 DEF Permits, Ultralight
  <1> QED BY <1>5, <1>6

LEMMA ReadKept ==
    ASSUME MifareTypes, Placed, ReadSoFar, Faultless, MifareNext, MifareTypes'
    PROVE  ReadSoFar'
  <1> USE DEF Selections, Classic, Reading
  <1>f. mc_faults \in Nat /\ mc_faults' \in Nat
    BY DEF MifareTypes
  <1>1. ASSUME NEW c \in DOMAIN Deck \cup {0}, swap(c) PROVE ReadSoFar'
    BY <1>1, <1>f, SameLater DEF ReadSoFar, swap, toolVars
  <1>2. ASSUME NEW a \in Args, start(a) PROVE ReadSoFar'
    BY <1>2 DEF ReadSoFar, start
  <1>3. CASE first_select
    <2>1. CASE present = 0 \/ (arg.tool = "ultralight" /\ ~Ultralight)
      BY <1>3, <2>1 DEF ReadSoFar, first_select
    <2>2. CASE ~(present = 0 \/ (arg.tool = "ultralight" /\ ~Ultralight))
      <3>1. present \in DOMAIN Deck /\ card[present].kind = Deck[present].kind /\ card[present].kind \in {"Mini", "1K", "4K", "UL"} /\ present # 0
        BY <2>2, CardFacts, DeckFacts DEF MifareTypes
      <3>2. /\ mc_pc = "select" /\ nt' = present /\ arg' = arg /\ mc_pc' = IF arg.unlock THEN "unlock" ELSE "loop"
            /\ uiBlocks' = LastBlock[IF card[present].kind = "UL" /\ arg.tool = "classic" THEN "1K" ELSE card[present].kind]
            /\ arg.act = "read" => iBlock' = IF arg.tool = "classic" THEN uiBlocks' ELSE 0
            /\ bFailure' = bFailure /\ mtDump' = mtDump
        BY <1>3, <2>2 DEF first_select
      <3>3. arg.tool \in {"classic", "ultralight"} /\ ~bFailure
        BY <3>2, ArgFacts DEF Placed
      <3> SUFFICES ASSUME arg.act = "read" PROVE ReadSoFar'
        BY <3>2 DEF ReadSoFar
      <3>4. uiBlocks' \in 0..LastBlock["4K"] /\ LastBlock["4K"] \in Nat
        BY SizeFacts DEF MifareTypes
      <3>5. \A b \in 0..uiBlocks' : mtDump'[b] = Zero
        BY <3>2, <3>4, BlankFacts DEF ReadSoFar
      <3>6. CASE arg.tool = "classic"
        <4>1. iBlock' = uiBlocks' /\ iBlock' \in -1..uiBlocks'
          <5>1. iBlock' = uiBlocks'
            BY <3>2, <3>6
          <5> QED BY <5>1, <3>4
        <4>2. \A b \in iBlock' + 1 .. uiBlocks' : FALSE
          <5>1. \A u \in Nat : \A b \in u + 1 .. u : FALSE
            OBVIOUS
          <5>2. uiBlocks' \in Nat
            BY <3>4
          <5> QED BY <4>1, <5>1, <5>2
        <4>3. Deck[nt'].kind # "UL" => uiBlocks' = LastBlock[Deck[nt'].kind]
          BY <3>1, <3>2
        <4> QED BY <3>2, <3>3, <3>5, <3>6, <4>1, <4>2, <4>3 DEF ReadSoFar
      <3>7. CASE arg.tool = "ultralight"
        <4>1. Deck[nt'].kind = "UL"
          BY <2>2, <3>1, <3>2, <3>7 DEF Ultralight
        <4>2. iBlock' = 0 /\ 0 % 4 = 0
          BY <3>2, <3>7
        <4>3. mc_pc' = "loop"
          BY <3>2, <3>7, ArgFacts
        <4>4. \A b \in 0..uiBlocks' : ~(b < iBlock')
          BY <3>4, <4>2
        <4> QED BY <3>2, <3>3, <3>7, <4>1, <4>2, <4>3, <4>4 DEF ReadSoFar
      <3> QED BY <3>3, <3>6, <3>7
    <2> QED BY <2>1, <2>2
  <1>4. CASE unlock_card
    BY <1>4 DEF ReadSoFar, unlock_card, toolVars
  <1>5. CASE save_dump
    <2>1. CASE disk' = [tool |-> arg.tool, blocks |-> mtDump, last |-> uiBlocks] /\ mc_pc' = "saved" /\ UNCHANGED mc_faults
      <3>1. disk'.blocks = mtDump
        BY <2>1
      <3> QED BY <1>5, <2>1, <3>1 DEF ReadSoFar, save_dump, toolVars
    <2>2. CASE mc_pc' = "end"
      BY <2>2 DEF ReadSoFar
    <2> QED BY <1>5, <2>1, <2>2 DEF save_dump
  <1>6. CASE close_tool
    BY <1>6 DEF ReadSoFar, close_tool
  <1>7. CASE next_sector
    <2> SUFFICES ASSUME Reading PROVE ReadSoFar'
      BY <1>7 DEF ReadSoFar, next_sector
    <2>1. ~bFailure
      BY <1>7 DEF ReadSoFar, next_sector
    <2>2. nt' = nt /\ ~bFailure' /\ mc_pc' = IF arg.unlock THEN "block" ELSE "auth"
      BY <1>7, <2>1 DEF next_sector
    <2> QED BY <1>7, <2>2 DEF ReadSoFar, next_sector
  <1>8. CASE authenticate
    <2> DEFINE key == IF arg.keyfile THEN mtKeys[get_trailer_block(iBlock)][KeyAt[arg.key]] ELSE Keys[key_index]
    <2>0. /\ mc_pc = "auth" /\ mc_pc' \in {"block", "auth", "end"}
          /\ UNCHANGED <<arg, iBlock, bFailure, nt, uiBlocks, mtDump>>
      BY <1>8 DEF authenticate
    <2> SUFFICES ASSUME Reading PROVE ReadSoFar'
      BY <2>0 DEF ReadSoFar
    <2>1. card' = card /\ mc_faults <= mc_faults'
      <3>1. ASSUME NEW ok \in BOOLEAN, mifare_cmd(ok, "AUTH", iBlock, key)
            PROVE  card' = card /\ mc_faults <= mc_faults'
        BY <3>1, <1>f DEF mifare_cmd, Performs
      <3>2. CASE card' = card /\ (mc_faults' = mc_faults \/ mc_faults' = mc_faults + 1)
        BY <1>f, <3>2
      <3>3. \/ \E ok \in BOOLEAN : mifare_cmd(ok, "AUTH", iBlock, key)
            \/ card' = card /\ (mc_faults' = mc_faults \/ mc_faults' = mc_faults + 1)
        BY <1>8 DEF authenticate
      <3> QED BY <3>1, <3>2, <3>3
    <2>2. mc_pc' = "block" => mtKeys'[iBlock][KeyAt[arg.key]] = card[nt].blocks[iBlock][KeyAt[arg.key]]
      <3> SUFFICES ASSUME mc_pc' = "block" PROVE mtKeys'[iBlock][KeyAt[arg.key]] = card[nt].blocks[iBlock][KeyAt[arg.key]]
        OBVIOUS
      <3>0. iBlock \in Nat /\ is_trailer_block(iBlock) /\ iBlock \in 0..LastBlock["4K"]
        BY <2>0, SizeFacts DEF Placed, Boundary, MifareTypes
      <3>t. get_trailer_block(iBlock) = iBlock
        BY <3>0, TrailerOfTrailer
      <3>1. Permits("AUTH", iBlock, key)
        BY <1>8 DEF authenticate, mifare_cmd
      <3>2. link.selected /\ ~Ultralight /\ key = card[present].blocks[iBlock][KeyAt[arg.key]]
        BY <3>1, <3>t DEF Permits
      <3>3. present = nt
        BY <3>2 DEF Placed
      <3>4. mtKeys'[iBlock][KeyAt[arg.key]] = key
        <4>1. CASE arg.keyfile
          BY <1>8, <3>t, <4>1 DEF authenticate
        <4>2. CASE ~arg.keyfile
          <5>1. mtKeys' = [mtKeys EXCEPT ![iBlock][KeyAt[arg.key]] = key]
            BY <1>8, <4>2 DEF authenticate
          <5>2. mtKeys[iBlock] \in [1..3 -> Nat] /\ KeyAt[arg.key] \in 1..3
            <6>1. KeyAt[arg.key] \in 1..3
              BY ArgFacts DEF KeyAt
            <6> QED BY <3>0, <6>1 DEF MifareTypes, Dump, Block
          <5> HIDE DEF key
          <5>3. mtKeys'[iBlock] = [mtKeys[iBlock] EXCEPT ![KeyAt[arg.key]] = key]
            BY <5>1, <3>0 DEF MifareTypes, Dump
          <5> QED BY <5>2, <5>3
        <4> QED BY <4>1, <4>2, ArgFacts
      <3> QED BY <3>2, <3>3, <3>4
    <2> QED BY <1>f, <2>0, <2>1, <2>2, SameLater DEF ReadSoFar
  <1>9. CASE read_block
    <2>0. /\ mc_pc \in {"loop", "block"} /\ mc_pc' \in {"end", "read", "loop"} /\ Reading /\ Classic
          /\ UNCHANGED <<arg, nt, uiBlocks>> /\ iBlock' = iBlock - 1
          /\ mc_pc = "loop" => ~is_trailer_block(iBlock)
      BY <1>9 DEF read_block, Inside, Boundary
    <2>1. PICK ok \in BOOLEAN : /\ mifare_cmd(ok, "READ", iBlock, Zero)
                                /\ bFailure' = ReadFailed(ok)
                                /\ mtDump' = IF ~ok THEN mtDump
                                             ELSE [mtDump EXCEPT ![iBlock] =
                                                LET got == card[present].blocks[iBlock] IN
                                                  IF is_trailer_block(iBlock) /\ ~arg.unlock
                                                  THEN <<mtKeys[iBlock][1], got[2], mtKeys[iBlock][3]>> ELSE got]
                                /\ mc_pc' = IF bFailure' THEN "end" ELSE IF iBlock = 0 THEN "read" ELSE "loop"
      BY <1>9 DEF read_block
    <2>2. Exchanged(ok, "READ", iBlock, Zero)
      BY <2>1, CommandExchanged DEF MifareTypes
    <2>3. card' = card /\ mc_faults <= mc_faults'
      BY <1>f, <2>1 DEF mifare_cmd, Performs
    <2>4. CASE ReadFailed(ok)
      BY <2>0, <2>1, <2>4 DEF ReadSoFar
    <2>5. CASE ~ReadFailed(ok)
      <3>0. ~bFailure' /\ (mc_pc' = IF iBlock = 0 THEN "read" ELSE "loop") /\ (ok \/ is_trailer_block(iBlock))
        BY <2>1, <2>5 DEF ReadFailed
      <3>1. iBlock \in 0..uiBlocks /\ uiBlocks \in Nat /\ uiBlocks \in 0..LastBlock["4K"] /\ nt \in DOMAIN Deck /\ LastBlock["4K"] \in Nat
        BY <2>0, SizeFacts DEF Placed, MifareTypes
      <3>2. /\ \A b \in 0..uiBlocks : b # iBlock => mtDump'[b] = mtDump[b]
            /\ ok => mtDump'[iBlock] = LET got == card[present].blocks[iBlock] IN
                                          IF is_trailer_block(iBlock) /\ ~arg.unlock
                                          THEN <<mtKeys[iBlock][1], got[2], mtKeys[iBlock][3]>> ELSE got
            /\ ~ok => mtDump' = mtDump
        BY <2>1, <3>1 DEF MifareTypes, Dump
      <3>3. Same(arg, mc_faults', mtDump'[iBlock], card[nt].blocks[iBlock], is_trailer_block(iBlock))
        <4>1. CASE ok
          <5>1. link.selected /\ present = nt
            BY <2>2, <4>1 DEF Exchanged, Permits, Placed
          <5>2. CASE is_trailer_block(iBlock) /\ ~arg.unlock
            <6>1. mc_pc = "block"
              BY <2>0, <5>2
            <6>2. mtKeys[iBlock][KeyAt[arg.key]] = card[nt].blocks[iBlock][KeyAt[arg.key]]
              BY <2>0, <5>2, <6>1 DEF ReadSoFar
            <6> DEFINE d == <<mtKeys[iBlock][1], card[nt].blocks[iBlock][2], mtKeys[iBlock][3]>>
            <6>3. mtDump'[iBlock] = d
              BY <3>2, <4>1, <5>1, <5>2
            <6>4. KeyAt[arg.key] \in {1, 3}
              BY ArgFacts DEF KeyAt
            <6>5. d[2] = card[nt].blocks[iBlock][2] /\ d[KeyAt[arg.key]] = mtKeys[iBlock][KeyAt[arg.key]]
              BY <6>4
            <6> HIDE DEF d
            <6> QED BY <5>2, <6>2, <6>3, <6>5 DEF Same
          <5>3. CASE ~(is_trailer_block(iBlock) /\ ~arg.unlock)
            BY <3>2, <4>1, <5>1, <5>3 DEF Same
          <5> QED BY <5>2, <5>3
        <4>2. CASE ~ok
          <5>1. is_trailer_block(iBlock) /\ mc_pc = "block"
            BY <2>0, <3>0, <4>2
          <5>2. mtDump'[iBlock] = Zero
            BY <2>0, <3>1, <3>2, <4>2 DEF ReadSoFar
          <5>3. mc_faults' # 0
            <6> SUFFICES ASSUME mc_faults' = 0 PROVE FALSE
              OBVIOUS
            <6>1. mc_faults = 0 /\ ~Permits("READ", iBlock, Zero)
              BY <2>2, <4>2 DEF Exchanged
            <6> QED BY <6>1, <5>1, <2>0, ReadPermitted
          <5> QED BY <1>f, <5>1, <5>2, <5>3 DEF Same
        <4> QED BY <4>1, <4>2
      <3>4. \A b \in iBlock' + 1 .. uiBlocks : Same(arg, mc_faults', mtDump'[b], card[nt].blocks[b], is_trailer_block(b))
        <4> SUFFICES ASSUME NEW b \in iBlock' + 1 .. uiBlocks
                     PROVE  Same(arg, mc_faults', mtDump'[b], card[nt].blocks[b], is_trailer_block(b))
          OBVIOUS
        <4>1. CASE b = iBlock
          BY <3>3, <4>1
        <4>2. CASE b # iBlock
          <5>1. b \in iBlock + 1 .. uiBlocks /\ b \in 0..uiBlocks
            BY <2>0, <3>1, <4>2
          <5>2. Same(arg, mc_faults, mtDump[b], card[nt].blocks[b], is_trailer_block(b))
            BY <2>0, <5>1 DEF ReadSoFar
          <5>3. mtDump'[b] = mtDump[b]
            BY <3>2, <4>2, <5>1
          <5> QED BY <1>f, <2>3, <5>2, <5>3, SameLater
        <4> QED BY <4>1, <4>2
      <3>5. \A b \in 0..iBlock' : mtDump'[b] = Zero
        <4>1. \A b \in 0..iBlock' : b \in 0..iBlock /\ b # iBlock /\ b \in 0..uiBlocks
          BY <2>0, <3>1
        <4> QED BY <2>0, <3>2, <4>1 DEF ReadSoFar
      <3>6. iBlock' \in -1..uiBlocks /\ (mc_pc' \in {"read", "saved"} => iBlock' = -1)
        BY <2>0, <3>0, <3>1
      <3>7. Deck[nt].kind # "UL" => uiBlocks = LastBlock[Deck[nt].kind]
        BY <2>0 DEF ReadSoFar
      <3> QED BY <2>0, <2>3, <3>0, <3>4, <3>5, <3>6, <3>7 DEF ReadSoFar
    <2> QED BY <2>4, <2>5
  <1>10. CASE write_block
    BY <1>10 DEF write_block, ReadSoFar
  <1>11. CASE read_pages
    <2>0. /\ mc_pc = "loop" /\ mc_pc' \in {"end", "read", "loop"} /\ Reading /\ ~Classic
          /\ UNCHANGED <<arg, nt, uiBlocks>> /\ iBlock' = iBlock + 4
      BY <1>11 DEF read_pages
    <2>1. PICK ok \in BOOLEAN : /\ mifare_cmd(ok, "READ", iBlock, Zero)
                                /\ bFailure' = ~ok
                                /\ ok => mtDump' = [b \in DOMAIN mtDump |-> IF b \in iBlock..iBlock + 3 THEN card[present].blocks[b] ELSE mtDump[b]]
                                /\ mc_pc' = IF ~ok THEN "end" ELSE IF iBlock + 4 > uiBlocks THEN "read" ELSE "loop"
      BY <1>11 DEF read_pages
    <2>2. CASE ~ok
      BY <2>0, <2>1, <2>2 DEF ReadSoFar
    <2>3. CASE ok
      <3>1. card' = card
        BY <2>1 DEF mifare_cmd, Performs
      <3>2. Permits("READ", iBlock, Zero)
        BY <2>1, <2>3 DEF mifare_cmd
      <3>3. present = nt
        BY <3>2 DEF Permits, Placed
      <3>4. iBlock \in Nat /\ iBlock % 4 = 0 /\ uiBlocks \in 0..LastBlock["4K"] /\ LastBlock["4K"] \in Nat /\ DOMAIN mtDump = 0..LastBlock["4K"]
        BY <2>0, SizeFacts DEF ReadSoFar, MifareTypes, Dump
      <3>5. \A b \in 0..uiBlocks : b < iBlock' => mtDump'[b] = card[nt].blocks[b]
        <4> SUFFICES ASSUME NEW b \in 0..uiBlocks, b < iBlock' PROVE mtDump'[b] = card[nt].blocks[b]
          OBVIOUS
        <4>1. b \in DOMAIN mtDump /\ b \in Nat
          BY <3>4
        <4>2. CASE b < iBlock
          <5>1. mtDump[b] = card[nt].blocks[b] /\ b \notin iBlock..iBlock + 3
            BY <2>0, <4>1, <4>2, <3>4 DEF ReadSoFar
          <5> QED BY <2>1, <2>3, <4>1, <5>1
        <4>3. CASE ~(b < iBlock)
          <5>1. b \in iBlock..iBlock + 3
            BY <2>0, <3>4, <4>1, <4>3
          <5> QED BY <2>1, <2>3, <3>3, <4>1, <5>1
        <4> QED BY <4>2, <4>3
      <3>6. iBlock' \in Nat /\ iBlock' % 4 = 0
        BY <2>0, <3>4
      <3>7. mc_pc' # "saved" /\ (mc_pc' = "read" => iBlock' > uiBlocks) /\ mc_pc' # "block" /\ ~bFailure'
        BY <2>0, <2>1, <2>3
      <3>8. Deck[nt].kind = "UL"
        BY <2>0 DEF ReadSoFar
      <3> QED BY <2>0, <3>1, <3>5, <3>6, <3>7, <3>8 DEF ReadSoFar
    <2> QED BY <2>2, <2>3
  <1>12. CASE write_page
    BY <1>12 DEF write_page, ReadSoFar
  <1> QED BY <1>1, <1>2, <1>3, <1>4, <1>5, <1>6, <1>7, <1>8, <1>9, <1>10, <1>11, <1>12 DEF MifareNext

\* A step that is not a fault keeps the trailers valid.
LEMMA ValidKept ==
    ASSUME MifareTypes, Placed, Faultless, DumpsValid, mc_faults = 0, ~stretched, mc_pc = "loop" \/ mc_pc = "block",
           arg.act = "write", iBlock \in 0..uiBlocks,
           NEW ok, Exchanged(ok, "WRITE", iBlock, mtDump[iBlock])
    PROVE  \A c \in DOMAIN Deck : Deck[c].kind # "UL" => Valid(card'[c].blocks)
  <1>0. mtDump[iBlock] \in Block /\ arg.tool \in {"classic", "ultralight"}
    <2>1. iBlock \in 0..LastBlock["4K"]
      BY SizeFacts DEF MifareTypes
    <2> QED BY <2>1, ArgFacts DEF MifareTypes, Dump
  <1>1. \A c \in DOMAIN Deck : Deck[c].kind # "UL" => Valid(card[c].blocks)
    BY DEF Faultless
  <1>2. CASE card' = card
    BY <1>1, <1>2
  <1>3. CASE present \in DOMAIN Deck /\ iBlock \in DOMAIN card[present].blocks /\ Wrote(card', card, present, iBlock, mtDump[iBlock])
    <2> SUFFICES ASSUME NEW c \in DOMAIN Deck, Deck[c].kind # "UL", NEW b \in DOMAIN card'[c].blocks, is_trailer_block(b)
                 PROVE  card'[c].blocks[b][2] # 0
      BY DEF Valid
    <2>1. /\ c \in DOMAIN card /\ b \in DOMAIN card[c].blocks
          /\ card'[c].blocks[b] = IF c = present /\ b = iBlock THEN mtDump[iBlock] ELSE card[c].blocks[b]
      BY <1>3, CardFacts DEF Wrote, MifareTypes
    <2>2. CASE c = present /\ b = iBlock
      <3>1. arg.tool = "classic"
        BY <1>0, <2>2 DEF Faultless, Selections, Classic
      <3>2. b \in 0..disk.last
        <4>1. uiBlocks <= disk.last
          BY <3>1 DEF DumpsValid, Selections
        <4>2. uiBlocks \in Nat /\ disk.last \in Nat
          BY SizeFacts, DiskFacts DEF MifareTypes
        <4> QED BY <2>2, <4>1, <4>2
      <3>3. mtDump[b][2] # 0
        BY <2>2, <3>1, <3>2 DEF DumpsValid, Writable
      <3> QED BY <2>1, <2>2, <3>3
    <2>3. CASE ~(c = present /\ b = iBlock)
      BY <1>1, <2>1, <2>3 DEF Valid
    <2> QED BY <2>2, <2>3
  <1> QED BY <1>0, <1>2, <1>3, ExchangedCards

LEMMA FaultlessKept ==
    ASSUME MifareTypes, Placed, ReadSoFar, Faultless, DumpsValid, MifareNext, MifareTypes'
    PROVE  Faultless'
  <1> USE DEF Selections, Classic, Reading
  <1> SUFFICES ASSUME mc_faults' = 0 PROVE Faultless'
    BY DEF Faultless
  <1>f. mc_faults \in Nat
    BY DEF MifareTypes
  <1>1. ASSUME NEW c \in DOMAIN Deck \cup {0}, swap(c) PROVE Faultless'
    <2>1. mc_pc = "idle" /\ UNCHANGED <<card, mc_pc, stretched, mc_faults>>
      BY <1>1, <1>f DEF swap
    <2> QED BY <2>1 DEF Faultless
  <1>2. ASSUME NEW a \in Args, start(a) PROVE Faultless'
    BY <1>2 DEF Faultless, start
  <1>3. CASE first_select
    <2>1. CASE present = 0 \/ (arg.tool = "ultralight" /\ ~Ultralight)
      BY <1>3, <2>1 DEF Faultless, first_select
    <2>2. CASE ~(present = 0 \/ (arg.tool = "ultralight" /\ ~Ultralight))
      <3>1. present \in DOMAIN Deck /\ card[present].kind = Deck[present].kind
        BY <2>2, CardFacts DEF MifareTypes
      <3>2. /\ mc_pc = "select" /\ nt' = present /\ UNCHANGED <<arg, present, card, mc_faults>> /\ mc_pc' = IF arg.unlock THEN "unlock" ELSE "loop"
            /\ stretched' = (stretched \/ (arg.tool = "classic" /\ arg.act = "write" /\ uiBlocks' > disk.last))
            /\ arg.act = "read" /\ arg.tool = "classic" => iBlock' = uiBlocks'
        BY <1>3, <2>2 DEF first_select
      <3>3. arg.tool \in {"classic", "ultralight"}
        BY <3>2, ArgFacts
      <3>4. ~Classic => Deck[present].kind = "UL"
        BY <2>2, <3>1, <3>3 DEF Ultralight
      <3>5. ~stretched' => ~stretched
        BY <3>2, Zenon
      <3>6. ~(uiBlocks' < uiBlocks')
        BY SizeFacts DEF MifareTypes
      <3> QED BY <3>2, <3>4, <3>5, <3>6 DEF Faultless
    <2> QED BY <2>1, <2>2
  <1>4. CASE unlock_card
    <2>0. mc_pc = "unlock" /\ mc_pc' \in {"loop", "end"} /\ UNCHANGED <<arg, present, nt, card, iBlock, uiBlocks, stretched, mc_faults>>
      BY <1>4 DEF unlock_card, toolVars
    <2>1. mc_pc' = "loop" => link.selected /\ Deck[present].magic /\ link' = [link EXCEPT !.free = TRUE]
      BY <1>4 DEF unlock_card, Unlockable
    <2>2. mc_pc' = "loop" => link'.selected /\ link'.free
      BY <2>1 DEF MifareTypes, Link
    <2>3. iBlock = uiBlocks \/ ~Reading
      BY <2>0 DEF Placed
    <2>4. ~(uiBlocks < uiBlocks)
      BY SizeFacts DEF MifareTypes
    <2> QED BY <2>0, <2>1, <2>2, <2>3, <2>4 DEF Faultless
  <1>5. CASE save_dump
    BY <1>5, <1>f DEF Faultless, save_dump, toolVars
  <1>6. CASE close_tool
    BY <1>6 DEF Faultless, close_tool
  <1>7. CASE next_sector
    <2>0. /\ mc_pc = "loop" /\ mc_pc' \in {"end", "block", "auth"} /\ UNCHANGED <<arg, present, card, stretched, mc_faults>> /\ nt' \in {nt, present}
          /\ mc_pc' = "block" => arg.unlock
          /\ ~bFailure => nt' = nt /\ link' = link
      BY <1>7 DEF next_sector
    <2>1. Reading => ~bFailure
      BY <2>0 DEF ReadSoFar
    <2> QED BY <2>0, <2>1 DEF Faultless
  <1>8. CASE authenticate
    <2> DEFINE key == IF arg.keyfile THEN mtKeys[get_trailer_block(iBlock)][KeyAt[arg.key]] ELSE Keys[key_index]
    <2>0. /\ mc_pc = "auth" /\ mc_pc' \in {"block", "auth", "end"}
          /\ UNCHANGED <<present, arg, iBlock, bFailure, nt, uiBlocks, stretched>>
      BY <1>8 DEF authenticate
    <2>1. card' = card /\ mc_faults = 0
      <3>1. ASSUME NEW ok \in BOOLEAN, mifare_cmd(ok, "AUTH", iBlock, key)
            PROVE  card' = card /\ mc_faults = 0
        BY <3>1, <1>f DEF mifare_cmd, Performs
      <3>2. CASE card' = card /\ (mc_faults' = mc_faults \/ mc_faults' = mc_faults + 1)
        BY <1>f, <3>2
      <3>3. \/ \E ok \in BOOLEAN : mifare_cmd(ok, "AUTH", iBlock, key)
            \/ card' = card /\ (mc_faults' = mc_faults \/ mc_faults' = mc_faults + 1)
        BY <1>8 DEF authenticate
      <3> QED BY <3>1, <3>2, <3>3
    <2>2. mc_pc' = "block" /\ Reading =>
            link'.selected /\ link'.auth = iBlock /\ Deck[nt].kind # "UL" /\ card[nt].blocks[iBlock][2] # 0
      <3> SUFFICES ASSUME mc_pc' = "block", Reading
                   PROVE  link'.selected /\ link'.auth = iBlock /\ Deck[nt].kind # "UL" /\ card[nt].blocks[iBlock][2] # 0
        OBVIOUS
      <3>0. iBlock \in Nat /\ is_trailer_block(iBlock)
        BY <2>0, SizeFacts DEF Placed, Boundary, MifareTypes
      <3>t. get_trailer_block(iBlock) = iBlock
        BY <3>0, TrailerOfTrailer
      <3>1. Permits("AUTH", iBlock, key) /\ Performs("AUTH", iBlock, key)
        BY <1>8 DEF authenticate, mifare_cmd
      <3>2. link.selected /\ ~Ultralight
        BY <3>1 DEF Permits
      <3>3. present = nt /\ nt \in DOMAIN Deck
        BY <3>2 DEF Placed, MifareTypes
      <3>4. Deck[nt].kind # "UL"
        BY <3>2, <3>3, CardFacts DEF Ultralight, MifareTypes
      <3>5. link' = [link EXCEPT !.auth = iBlock, !.key = arg.key]
        BY <3>1, <3>t DEF Performs
      <3>6. link'.selected /\ link'.auth = iBlock
        BY <3>2, <3>5 DEF MifareTypes, Link
      <3>7. card[nt].blocks[iBlock][2] # 0
        BY <3>1, <3>2, <3>3, <3>t DEF Permits
      <3> QED BY <3>4, <3>6, <3>7
    <2>3. ~arg.unlock
      BY <2>0 DEF Placed
    <2> QED BY <2>0, <2>1, <2>2, <2>3 DEF Faultless
  <1>9. CASE read_block
    <2>0. /\ mc_pc \in {"loop", "block"} /\ mc_pc' \in {"end", "read", "loop"} /\ Reading /\ Classic
          /\ UNCHANGED <<present, arg, nt, stretched>>
          /\ mc_pc = "loop" => ~is_trailer_block(iBlock)
      BY <1>9 DEF read_block, Inside, Boundary
    <2>1. PICK ok \in BOOLEAN : /\ mifare_cmd(ok, "READ", iBlock, Zero)
                                /\ bFailure' = ReadFailed(ok)
                                /\ mc_pc' = IF bFailure' THEN "end" ELSE IF iBlock = 0 THEN "read" ELSE "loop"
      BY <1>9 DEF read_block
    <2>2. Exchanged(ok, "READ", iBlock, Zero)
      BY <2>1, CommandExchanged DEF MifareTypes
    <2>3. card' = card /\ mc_faults = 0
      BY <2>2 DEF Exchanged
    <2>4. ok => link' = link
      BY <2>2 DEF Exchanged, Performs
    <2>5. mc_pc' = "loop" => ok
      <3> SUFFICES ASSUME mc_pc' = "loop", ~ok PROVE FALSE
        OBVIOUS
      <3>1. is_trailer_block(iBlock)
        BY <2>1 DEF ReadFailed
      <3>2. mc_pc = "block" /\ ~Permits("READ", iBlock, Zero)
        BY <2>0, <2>2, <3>1 DEF Exchanged
      <3> QED BY <2>0, <2>3, <3>2, ReadPermitted
    <2>6. Deck[nt].kind # "UL"
      <3>1. CASE mc_pc = "loop"
        <4>1. iBlock \in 0..uiBlocks /\ is_trailer_block(uiBlocks) /\ uiBlocks \in Nat
          BY <2>0, <3>1, SizeFacts DEF Placed, MifareTypes
        <4>2. iBlock # uiBlocks
          BY <2>0, <3>1, <4>1
        <4>3. iBlock < uiBlocks
          BY <4>1, <4>2
        <4> QED BY <2>0, <2>3, <3>1, <4>3 DEF Faultless
      <3>2. CASE mc_pc = "block" /\ arg.unlock
        <4>1. Deck[nt].magic
          BY <2>0, <2>3, <3>2 DEF Faultless
        <4>2. nt \in DOMAIN Deck
          BY <3>2 DEF Placed, MifareTypes
        <4> QED BY <4>1, <4>2, DeckFacts
      <3>3. CASE mc_pc = "block" /\ ~arg.unlock
        BY <2>0, <2>3, <3>3 DEF Faultless
      <3> QED BY <2>0, <3>1, <3>2, <3>3
    <2> QED BY <2>0, <2>3, <2>4, <2>5, <2>6 DEF Faultless
  <1>10. CASE write_block
    <2>0. /\ mc_pc \in {"loop", "block"} /\ mc_pc' \in {"end", "written", "loop"} /\ ~Reading /\ Classic
          /\ UNCHANGED <<present, arg, nt, stretched>>
      BY <1>10 DEF write_block, Inside
    <2>1. CASE UNCHANGED <<card, mc_faults>>
      BY <2>0, <2>1 DEF Faultless
    <2>2. ASSUME NEW ok \in BOOLEAN, mifare_cmd(ok, "WRITE", iBlock, mtDump[iBlock]) PROVE Faultless'
      <3>1. Exchanged(ok, "WRITE", iBlock, mtDump[iBlock])
        BY <2>2, CommandExchanged DEF MifareTypes
      <3>2. mc_faults = 0
        BY <3>1 DEF Exchanged
      <3>3. arg.act = "write" /\ iBlock \in 0..uiBlocks
        BY <2>0, ArgFacts DEF Placed
      <3>4. ~stretched => \A c \in DOMAIN Deck : Deck[c].kind # "UL" => Valid(card'[c].blocks)
        BY <2>0, <3>1, <3>2, <3>3, ValidKept
      <3> QED BY <2>0, <3>2, <3>4 DEF Faultless
    <2> QED BY <1>10, <2>1, <2>2 DEF write_block
  <1>11. CASE read_pages
    <2>0. /\ mc_pc = "loop" /\ mc_pc' \in {"end", "read", "loop"} /\ Reading /\ ~Classic
          /\ UNCHANGED <<present, arg, nt, stretched>>
      BY <1>11 DEF read_pages
    <2>1. PICK ok \in BOOLEAN : mifare_cmd(ok, "READ", iBlock, Zero)
      BY <1>11 DEF read_pages
    <2>2. Exchanged(ok, "READ", iBlock, Zero)
      BY <2>1, CommandExchanged DEF MifareTypes
    <2>3. card' = card /\ mc_faults = 0
      BY <2>2 DEF Exchanged
    <2> QED BY <2>0, <2>3 DEF Faultless
  <1>12. CASE write_page
    <2>0. /\ mc_pc = "loop" /\ mc_pc' \in {"end", "written", "loop"} /\ ~Reading /\ ~Classic
          /\ UNCHANGED <<present, arg, stretched>> /\ nt' \in {nt, present}
      BY <1>12 DEF write_page
    <2>1. CASE UNCHANGED <<card, mc_faults>>
      BY <2>0, <2>1 DEF Faultless
    <2>2. ASSUME NEW ok \in BOOLEAN, mifare_cmd(ok, "WRITE", iBlock, mtDump[iBlock]) PROVE Faultless'
      <3>1. Exchanged(ok, "WRITE", iBlock, mtDump[iBlock])
        BY <2>2, CommandExchanged DEF MifareTypes
      <3>2. mc_faults = 0
        BY <3>1 DEF Exchanged
      <3>3. arg.act = "write" /\ iBlock \in 0..uiBlocks
        BY <2>0, ArgFacts DEF Placed
      <3>4. ~stretched => \A c \in DOMAIN Deck : Deck[c].kind # "UL" => Valid(card'[c].blocks)
        BY <2>0, <3>1, <3>2, <3>3, ValidKept
      <3> QED BY <2>0, <3>2, <3>4 DEF Faultless
    <2> QED BY <1>12, <2>1, <2>2 DEF write_page
  <1> QED BY <1>1, <1>2, <1>3, <1>4, <1>5, <1>6, <1>7, <1>8, <1>9, <1>10, <1>11, <1>12 DEF MifareNext

LEMMA AmongFacts ==
    ASSUME NEW K, NEW F \in Nat
    PROVE  IsFiniteSet({b \in 0..F - 1 : b \in K}) /\ Among(K, F) \in Nat
  <1>1. IsFiniteSet(0..F - 1)
    BY FS_Interval
  <1>2. IsFiniteSet({b \in 0..F - 1 : b \in K})
    BY <1>1, FS_Subset
  <1> QED BY <1>2, FS_CardinalityType DEF Among

LEMMA AmongGrows ==
    ASSUME NEW K, NEW L, NEW F \in Nat, NEW E \in Nat, F <= E, \A b \in 0..F - 1 : b \in K => b \in L
    PROVE  Among(K, F) <= Among(L, E)
  <1>1. {b \in 0..F - 1 : b \in K} \subseteq {b \in 0..E - 1 : b \in L}
    OBVIOUS
  <1> QED BY <1>1, AmongFacts, FS_Subset DEF Among

\* Blocks F to E - 1 are all there.
LEMMA AmongAdds ==
    ASSUME NEW K, NEW F \in Nat, NEW E \in Nat, F <= E, F..E - 1 \subseteq K
    PROVE  Among(K, E) = Among(K, F) + (E - F)
  <1> DEFINE A == {b \in 0..F - 1 : b \in K}
             B == F..E - 1
  <1>1. {b \in 0..E - 1 : b \in K} = A \cup B /\ A \cap B = {}
    OBVIOUS
  <1>2. IsFiniteSet(A) /\ Cardinality(A) = Among(K, F) /\ Among(K, F) \in Nat
    BY AmongFacts DEF Among
  <1>3. IsFiniteSet(B) /\ Cardinality(B) = E - F
    <2>1. F \in Int /\ E - 1 \in Int
      OBVIOUS
    <2>2. IsFiniteSet(F..E - 1) /\ Cardinality(F..E - 1) = IF F > E - 1 THEN 0 ELSE (E - 1) - F + 1
      BY <2>1, FS_Interval
    <2> QED BY <2>2
  <1> HIDE DEF A, B
  <1>4. Cardinality(A \cup B) = Cardinality(A) + Cardinality(B)
    <2>1. Cardinality(A \cap B) = 0
      BY <1>1, FS_EmptySet
    <2>2. Cardinality(A \cup B) = Cardinality(A) + Cardinality(B) - Cardinality(A \cap B)
      BY <1>2, <1>3, FS_Union
    <2> QED BY <1>2, <1>3, <2>1, <2>2
  <1> QED BY <1>1, <1>2, <1>3, <1>4 DEF Among

\* A sector is counted with its size or less, as the counter never is ahead of it.
LEMMA CountSector ==
    ASSUME NEW F \in Nat, Start(F), NEW n \in Nat, n <= F, NEW missed \in BOOLEAN, NEW K, n <= Among(K, F),
           ~missed => F..F + Sector(F) - 1 \subseteq K
    PROVE  /\ Counted(n, missed) <= F + Sector(F)
           /\ Counted(n, missed) <= Among(K, F + Sector(F))
           /\ Counted(n, missed) = F + Sector(F) => ~missed /\ n = F
  <1> DEFINE E == F + Sector(F)
             s == IF n < Threshold THEN Small ELSE Big
  <1>1. Sector(F) \in Nat /\ Sector(F) > 0 /\ E \in Nat /\ F <= E
    BY SectorSize
  <1>2. s \in Nat /\ s <= Sector(F)
    BY MifareAssumption DEF Sector
  <1>3. Among(K, F) \in Nat /\ Among(K, E) \in Nat
    BY <1>1, AmongFacts
  <1>4. CASE missed
    <2>1. Counted(n, missed) = n
      BY <1>4 DEF Counted
    <2>2. Among(K, F) <= Among(K, E)
      BY <1>1, AmongGrows
    <2> HIDE DEF E
    <2>3. n <= Among(K, E) /\ n <= E /\ n # E
      BY <1>1, <1>3, <2>2 DEF E
    <2> QED BY <1>4, <2>1, <2>3 DEF E
  <1>5. CASE ~missed
    <2>1. Counted(n, missed) = n + s
      BY <1>5 DEF Counted
    <2>2. Among(K, E) = Among(K, F) + (E - F)
      BY <1>1, <1>5, AmongAdds
    <2>3. E - F = Sector(F)
      BY <1>1
    <2> HIDE DEF E, s
    <2>4. n + s <= E /\ n + s <= Among(K, E) /\ (n + s = E => n = F)
      BY <1>1, <1>2, <1>3, <2>2, <2>3
    <2> QED BY <1>5, <2>1, <2>4 DEF E
  <1> QED BY <1>4, <1>5

\* What was written stays written.
LEMMA OntoGrows ==
    ASSUME MifareTypes, Placed, NEW ok, Exchanged(ok, "WRITE", iBlock, mtDump[iBlock]), mtDump' = mtDump, arg' = arg,
           iBlock \in 0..uiBlocks, present' = present
    PROVE  /\ \A b \in Nat : OnCard(b) \subseteq OnCard(b)'
           /\ Done \subseteq Done' /\ (nt' = nt => Onto \subseteq Onto')
           /\ ok => present = nt /\ \A b \in Nat : b = iBlock => present \in OnCard(b)'
  <1>0. mtDump[iBlock] \in Block
    <2>1. iBlock \in 0..LastBlock["4K"]
      BY SizeFacts DEF MifareTypes
    <2> QED BY <2>1 DEF MifareTypes, Dump
  <1>1. \/ card' = card
        \/ present \in DOMAIN Deck /\ iBlock \in DOMAIN card[present].blocks /\ Wrote(card', card, present, iBlock, mtDump[iBlock])
    BY <1>0, ExchangedCards
  <1>2. \A b \in Nat : OnCard(b) \subseteq OnCard(b)'
    <2>1. CASE card' = card
      BY <2>1 DEF OnCard
    <2>2. CASE Wrote(card', card, present, iBlock, mtDump[iBlock])
      BY <2>2 DEF OnCard, Wrote
    <2> QED BY <1>1, <2>1, <2>2
  <1>3. Untold' = Untold
    BY DEF Untold, Classic
  <1>4. ok => present = nt /\ \A b \in Nat : b = iBlock => present \in OnCard(b)'
    <2> SUFFICES ASSUME ok PROVE present = nt /\ \A b \in Nat : b = iBlock => present \in OnCard(b)'
      OBVIOUS
    <2>1. link.selected /\ iBlock \in DOMAIN card[present].blocks /\ card' = [card EXCEPT ![present].blocks[iBlock] = mtDump[iBlock]]
      BY DEF Exchanged, Permits, Performs
    <2>2. present = nt /\ present \in DOMAIN Deck /\ CardsOK(card)
      BY <2>1 DEF Placed, MifareTypes
    <2>3. Wrote(card', card, present, iBlock, mtDump[iBlock])
      BY <1>0, <2>1, <2>2, WriteFacts
    <2>4. present \in DOMAIN card' /\ iBlock \in DOMAIN card'[present].blocks /\ card'[present].blocks[iBlock] = mtDump[iBlock]
      BY <2>1, <2>2, <2>3, CardFacts DEF Wrote
    <2> QED BY <2>2, <2>4 DEF OnCard
  <1>5. Done \subseteq Done'
    BY <1>2, <1>3 DEF Done
  <1>6. nt' = nt => Onto \subseteq Onto'
    BY <1>2, <1>3 DEF Onto
  <1> QED BY <1>2, <1>4, <1>5, <1>6

LEMMA OntoDone == Onto \subseteq Done
  BY DEF Onto, Done

\* What a saved dump has is on the card, so its trailers are valid when nothing failed.
LEMMA SavedValid ==
    ASSUME MifareTypes, Placed, ReadSoFar, Faultless, mc_faults = 0, ~stretched, mc_pc = "read", Reading, Classic
    PROVE  \A b \in 0..uiBlocks : is_trailer_block(b) => mtDump[b][2] # 0
  <1> SUFFICES ASSUME NEW b \in 0..uiBlocks, is_trailer_block(b)
               PROVE  mtDump[b][2] # 0
    OBVIOUS
  <1>1. nt = present /\ nt \in DOMAIN Deck /\ uiBlocks \in Nat
    BY SizeFacts DEF Faultless, Selections, MifareTypes, Placed
  <1>2. iBlock = -1
    BY <1>1 DEF ReadSoFar, Selections
  <1>3. Deck[nt].kind # "UL"
    BY <1>1, <1>2 DEF Faultless
  <1>4. uiBlocks = LastBlock[Deck[nt].kind]
    BY <1>3 DEF ReadSoFar, Selections
  <1>5. b \in iBlock + 1 .. uiBlocks
    BY <1>2
  <1>6. Same(arg, 0, mtDump[b], card[nt].blocks[b], TRUE)
    BY <1>5 DEF ReadSoFar, Selections
  <1>7. card[nt].blocks[b][2] # 0
    <2>1. b \in DOMAIN card[nt].blocks
      BY <1>1, <1>4, CardFacts DEF MifareTypes
    <2> QED BY <1>1, <1>3, <2>1 DEF Faultless, Valid
  <1> QED BY <1>6, <1>7 DEF Same

LEMMA DumpsKept ==
    ASSUME MifareTypes, Placed, ReadSoFar, Faultless, DumpsValid, MifareNext, MifareTypes'
    PROVE  DumpsValid'
  <1> USE DEF Selections, Classic, Reading
  <1>f. mc_faults \in Nat
    BY DEF MifareTypes
  <1>k. ASSUME UNCHANGED <<disk, uiBlocks, stretched, arg>>, mc_faults' = 0 => mc_faults = 0, arg.act = "write" => mtDump' = mtDump,
               mc_pc' \in Selections => mc_pc \in Selections
        PROVE  DumpsValid'
    BY <1>k DEF DumpsValid, Writable
  <1>c. ASSUME NEW ok \in BOOLEAN, NEW mc \in {"AUTH", "READ", "WRITE"}, NEW p, mifare_cmd(ok, mc, iBlock, p)
        PROVE  mc_faults' = 0 => mc_faults = 0
    BY <1>c, <1>f DEF mifare_cmd
  <1>1. ASSUME NEW c \in DOMAIN Deck \cup {0}, swap(c) PROVE DumpsValid'
    <2>1. mc_faults' = 0 => mc_faults = 0
      BY <1>1, <1>f DEF swap
    <2> QED BY <1>1, <1>k, <2>1 DEF swap, toolVars
  <1>2. ASSUME NEW a \in Args, start(a) PROVE DumpsValid'
    <2>1. a.act = "write" => mtDump' = disk.blocks /\ disk.tool = a.tool
      BY <1>2 DEF start
    <2>2. arg' = a /\ mc_pc' = "select" /\ UNCHANGED <<disk, stretched, mc_faults>>
      BY <1>2 DEF start
    <2> QED BY <2>1, <2>2 DEF DumpsValid, Writable
  <1>3. CASE first_select
    <2>0. UNCHANGED <<arg, mtDump, disk, mc_faults>>
      BY <1>3 DEF first_select
    <2>1. CASE mc_pc' = "end" /\ stretched' = stretched
      BY <2>0, <2>1 DEF DumpsValid, Writable
    <2>2. CASE stretched' = (stretched \/ (arg.tool = "classic" /\ arg.act = "write" /\ uiBlocks' > disk.last))
      <3>1. ~stretched' => ~stretched /\ ~(arg.tool = "classic" /\ arg.act = "write" /\ uiBlocks' > disk.last)
        BY <2>2, Zenon
      <3>2. uiBlocks' \in Nat /\ disk.last \in Nat
        BY SizeFacts, DiskFacts DEF MifareTypes
      <3>3. ~(uiBlocks' > disk.last) => uiBlocks' <= disk.last
        BY <3>2
      <3> QED BY <2>0, <3>1, <3>3 DEF DumpsValid, Writable
    <2> QED BY <1>3, <2>1, <2>2 DEF first_select
  <1>4. CASE unlock_card
    BY <1>4, <1>k DEF unlock_card, toolVars
  <1>5. CASE save_dump
    <2>0. mc_pc = "read" /\ UNCHANGED <<arg, mtDump, uiBlocks, stretched>> /\ arg.act = "read"
      BY <1>5 DEF save_dump, toolVars, Placed
    <2>1. CASE disk' = NoFile
      <3>1. disk'.tool # "classic"
        BY <2>1 DEF NoFile
      <3> QED BY <2>0, <3>1 DEF DumpsValid
    <2>2. CASE disk' = [tool |-> arg.tool, blocks |-> mtDump, last |-> uiBlocks] /\ UNCHANGED mc_faults
      <3>1. disk'.tool = arg.tool /\ disk'.blocks = mtDump /\ disk'.last = uiBlocks
        BY <2>2
      <3>2. arg.tool = "classic" /\ mc_faults = 0 /\ ~stretched => \A b \in 0..uiBlocks : is_trailer_block(b) => mtDump[b][2] # 0
        BY <2>0, SavedValid
      <3> QED BY <2>0, <2>2, <3>1, <3>2 DEF DumpsValid, Writable
    <2> QED BY <1>5, <2>1, <2>2 DEF save_dump
  <1>6. CASE close_tool
    <2>1. arg'.act # "write"
      BY <1>6 DEF close_tool, NoArg
    <2>2. UNCHANGED <<disk, stretched, mc_faults>>
      BY <1>6 DEF close_tool
    <2> QED BY <2>1, <2>2 DEF DumpsValid, Writable
  <1>7. CASE next_sector
    BY <1>7, <1>k DEF next_sector
  <1>8. CASE authenticate
    <2> DEFINE key == IF arg.keyfile THEN mtKeys[get_trailer_block(iBlock)][KeyAt[arg.key]] ELSE Keys[key_index]
    <2>0. \/ \E ok \in BOOLEAN : mifare_cmd(ok, "AUTH", iBlock, key)
          \/ mc_faults' = mc_faults \/ mc_faults' = mc_faults + 1
      BY <1>8 DEF authenticate
    <2> HIDE DEF key
    <2>1. mc_faults' = 0 => mc_faults = 0
      BY <2>0, <1>f, <1>c
    <2> QED BY <1>8, <1>k, <2>1 DEF authenticate
  <1>9. CASE read_block
    <2>1. (mc_faults' = 0 => mc_faults = 0) /\ arg.act = "read"
      BY <1>9, <1>c DEF read_block
    <2>2. UNCHANGED <<disk, uiBlocks, stretched, arg>> /\ mc_pc \in Selections
      BY <1>9 DEF read_block, Inside
    <2> QED BY <1>k, <2>1, <2>2
  <1>10. CASE write_block
    <2>1. mc_faults' = 0 => mc_faults = 0
      BY <1>10, <1>c DEF write_block
    <2>2. UNCHANGED <<disk, uiBlocks, stretched, arg, mtDump>> /\ mc_pc \in Selections
      BY <1>10 DEF write_block, Inside
    <2> QED BY <1>k, <2>1, <2>2
  <1>11. CASE read_pages
    <2>1. (mc_faults' = 0 => mc_faults = 0) /\ arg.act = "read"
      BY <1>11, <1>c DEF read_pages
    <2>2. UNCHANGED <<disk, uiBlocks, stretched, arg>> /\ mc_pc \in Selections
      BY <1>11 DEF read_pages
    <2> QED BY <1>k, <2>1, <2>2
  <1>12. CASE write_page
    <2>1. mc_faults' = 0 => mc_faults = 0
      BY <1>12, <1>c DEF write_page
    <2>2. UNCHANGED <<disk, uiBlocks, stretched, arg, mtDump>> /\ mc_pc \in Selections
      BY <1>12 DEF write_page
    <2> QED BY <1>k, <2>1, <2>2
  <1> QED BY <1>1, <1>2, <1>3, <1>4, <1>5, <1>6, <1>7, <1>8, <1>9, <1>10, <1>11, <1>12 DEF MifareNext

LEMMA AmongLonger ==
    ASSUME NEW K, NEW F \in Nat
    PROVE  Among(K, F) <= Among(K, F + 1) /\ Among(K, F) \in Nat /\ Among(K, F + 1) \in Nat
  <1>1. F + 1 \in Nat /\ F <= F + 1
    OBVIOUS
  <1>2. Among(K, F) <= Among(K, F + 1)
    BY <1>1, AmongGrows
  <1> QED BY <1>1, <1>2, AmongFacts

LEMMA AmongMore ==
    ASSUME NEW K, NEW L, K \subseteq L, NEW F \in Nat
    PROVE  Among(K, F) <= Among(L, F) /\ Among(K, F) \in Nat /\ Among(L, F) \in Nat
  <1>1. \A b \in 0..F - 1 : b \in K => b \in L
    OBVIOUS
  <1>2. Among(K, F) <= Among(L, F)
    BY <1>1, AmongGrows
  <1> QED BY <1>2, AmongFacts

\* Steps that leave the cards and the dump alone leave what is written.
LEMMA DoneSame ==
    ASSUME UNCHANGED <<card, mtDump, arg>>
    PROVE  Done' = Done /\ (nt' = nt => Onto' = Onto)
  <1>1. Untold' = Untold
    BY DEF Untold, Classic
  <1>2. \A b \in Nat : OnCard(b)' = OnCard(b)
    BY DEF OnCard
  <1> QED BY <1>1, <1>2 DEF Done, Onto

\* The block that is written lies in the sector that is not counted yet.
LEMMA InSector ==
    ASSUME MifareTypes, Placed, Inside, Classic, ~Reading, NEW F \in 0..uiBlocks, Sectors(F)
    PROVE  F \in Nat /\ iBlock \in 0..uiBlocks /\ uiBlocks \in Nat /\ F <= iBlock /\ iBlock < F + Sector(F)
  <1>1. iBlock \in 0..uiBlocks /\ uiBlocks \in Nat /\ F \in Nat
    BY SizeFacts DEF Inside, Placed, MifareTypes
  <1>2. Sector(F) \in Nat /\ Sector(F) > 0
    BY <1>1, SectorSize
  <1>3. CASE mc_pc = "block"
    BY <1>1, <1>2, <1>3 DEF Sectors
  <1>4. CASE mc_pc = "loop"
    <2>1. ~is_first_block(iBlock)
      BY <1>4 DEF Inside, Boundary
    <2>2. iBlock # 0
      <3>1. Sector(0) \in Nat \ {0}
        BY SectorSize
      <3>2. 0 % Sector(0) = 0
        BY <3>1
      <3> QED BY <2>1, <3>2 DEF is_first_block
    <2>3. F < iBlock /\ Start(F) /\ iBlock \in F..F + Sector(F)
      BY <1>1, <1>4, <2>2 DEF Sectors
    <2>4. iBlock \in Nat /\ iBlock <= F + Sector(F)
      BY <1>1, <1>2, <2>3
    <2>5. iBlock # F + Sector(F)
      BY <1>1, <2>1, <2>3, <2>4, SectorFirst
    <2> QED BY <1>1, <1>2, <2>3, <2>4, <2>5
  <1> QED BY <1>3, <1>4 DEF Inside

\* A block that write_block does not fail on is on the card afterwards, or was not to be written.
LEMMA BlockOnto ==
    ASSUME MifareTypes, Placed, write_block
    PROVE  /\ Done \subseteq Done' /\ Onto \subseteq Onto'
           /\ mc_pc' # "end" /\ ~bFailure' => ~bFailure /\ iBlock \in Onto'
  <1> DEFINE skip == ~is_trailer_block(iBlock) /\ (bFailure \/ (iBlock = 0 /\ ~arg.unlock))
             wrong == iBlock = 0 /\ arg.unlock /\ mtDump[0][1] = BadBcc
  <1>1. Inside /\ Classic /\ UNCHANGED <<present, arg, nt, uiBlocks, mtDump>>
    BY DEF write_block
  <1>2. iBlock \in 0..uiBlocks /\ iBlock \in Nat /\ iBlock \in Int
    BY <1>1, SizeFacts DEF Inside, Placed, MifareTypes
  <1>3. CASE skip \/ wrong
    <2>1. UNCHANGED <<card, bFailure>> /\ mc_pc' = IF wrong THEN "end" ELSE "loop"
      BY <1>3 DEF write_block
    <2>2. Done' = Done /\ Onto' = Onto
      BY <1>1, <2>1, DoneSame
    <2>3. ASSUME mc_pc' # "end", ~bFailure' PROVE ~bFailure /\ iBlock \in Onto'
      <3>1. ~bFailure /\ iBlock = 0 /\ ~arg.unlock
        BY <1>3, <2>1, <2>3
      <3>2. iBlock \in Untold
        BY <1>1, <3>1 DEF Untold
      <3> QED BY <1>2, <2>2, <3>1, <3>2 DEF Onto
    <2> QED BY <2>2, <2>3
  <1>4. CASE ~(skip \/ wrong)
    <2>1. PICK ok \in BOOLEAN : mifare_cmd(ok, "WRITE", iBlock, mtDump[iBlock]) /\ bFailure' = (bFailure \/ ~ok)
      BY <1>4 DEF write_block
    <2>2. Exchanged(ok, "WRITE", iBlock, mtDump[iBlock])
      BY <1>2, <2>1, CommandExchanged
    <2>3. /\ Done \subseteq Done' /\ Onto \subseteq Onto'
          /\ ok => present = nt /\ \A b \in Nat : b = iBlock => present \in OnCard(b)'
      BY <1>1, <1>2, <2>2, OntoGrows
    <2>4. ~bFailure' => ok /\ ~bFailure
      BY <2>1
    <2>5. ok => iBlock \in Onto'
      <3> SUFFICES ASSUME ok PROVE iBlock \in Onto'
        OBVIOUS
      <3>1. \A b \in Nat : b = iBlock => nt' \in OnCard(b)'
        BY <1>1, <2>3
      <3>2. \A b \in Nat : b = iBlock => b \in Onto'
        BY <3>1 DEF Onto
      <3> QED BY <1>2, <3>2
    <2> QED BY <2>3, <2>4, <2>5
  <1> QED BY <1>3, <1>4

\* What the tool prints, from what is on the cards.
LEMMA CountedWritten ==
    ASSUME MifareTypes, MifareTypes', mc_pc' = "written", uiBlocks' = uiBlocks, counter' <= Among(Done', uiBlocks + 1),
           nt' \in DOMAIN Deck, counter' = uiBlocks + 1 => 0..uiBlocks \subseteq Onto'
    PROVE  WrittenSoFar' /\ WrittenIsCounted'
  <1>1. uiBlocks \in Nat /\ 0..(uiBlocks + 1) - 1 = 0..uiBlocks
    BY SizeFacts DEF MifareTypes
  <1>2. {b \in 0..uiBlocks : b \in Done'} = {b \in 0..uiBlocks : OnCard(b)' # {} \/ b \in Untold'}
    <2> SUFFICES ASSUME NEW b \in 0..uiBlocks PROVE b \in Done' <=> OnCard(b)' # {} \/ b \in Untold'
      OBVIOUS
    <2>1. b \in Nat
      BY <1>1
    <2> QED BY <2>1 DEF Done
  <1>3. Among(Done', uiBlocks + 1) = Cardinality({b \in 0..uiBlocks : OnCard(b)' # {} \/ b \in Untold'})
    BY <1>1, <1>2 DEF Among
  <1>4. counter' <= Cardinality({b \in Blocks : OnCard(b) # {} \/ b \in Untold})'
    BY <1>3 DEF Blocks
  <1>5. counter' = uiBlocks' + 1 => nt' \in {c \in DOMAIN card : \A b \in Blocks \ Untold : c \in OnCard(b)}'
    <2> SUFFICES ASSUME counter' = uiBlocks' + 1, NEW b \in 0..uiBlocks, b \notin Untold' PROVE nt' \in OnCard(b)'
      <3>1. DOMAIN card' = DOMAIN Deck
        BY CardFacts DEF MifareTypes
      <3> QED BY <3>1 DEF Blocks
    <2>1. b \in Onto' /\ b \in Nat
      BY <1>1
    <2> QED BY <2>1 DEF Onto
  <1> QED BY <1>4, <1>5 DEF WrittenSoFar, WrittenIsCounted

LEMMA WriteBlockKept ==
    ASSUME MifareTypes, MifareTypes', Placed, WrittenSoFar, write_block
    PROVE  WrittenSoFar' /\ WrittenIsCounted'
  <1> USE DEF Selections
  <1>1. /\ Inside /\ Classic /\ ~Reading /\ UNCHANGED <<present, arg, nt, uiBlocks, mtDump>> /\ iBlock' = iBlock + 1
        /\ mc_pc' \in {"loop", "written", "end"}
        /\ counter' = IF iBlock = uiBlocks THEN Counted(counter, bFailure') ELSE counter
    BY DEF write_block
  <1>2. mc_pc \in {"loop", "auth", "block"}
    BY <1>1 DEF Inside
  <1>3. PICK F \in 0..uiBlocks : Sectors(F)
    BY <1>1, <1>2 DEF WrittenSoFar
  <1>4. F \in Nat /\ iBlock \in 0..uiBlocks /\ uiBlocks \in Nat /\ F <= iBlock /\ iBlock < F + Sector(F)
    BY <1>1, <1>3, InSector
  <1>5. Sector(F) \in Nat /\ counter \in Nat /\ bFailure \in BOOLEAN /\ Start(F)
    BY <1>3, <1>4, SectorSize DEF MifareTypes, Sectors
  <1>6. /\ Done \subseteq Done' /\ Onto \subseteq Onto'
        /\ mc_pc' # "end" /\ ~bFailure' => ~bFailure /\ iBlock \in Onto'
    BY BlockOnto
  <1>7. counter <= F /\ counter <= Among(Done', F) /\ (counter = F => 0..F - 1 \subseteq Onto')
    <2>1. counter <= F /\ counter <= Among(Done, F) /\ (counter = F => 0..F - 1 \subseteq Onto)
      BY <1>3 DEF Sectors
    <2>2. Among(Done, F) <= Among(Done', F) /\ Among(Done, F) \in Nat /\ Among(Done', F) \in Nat
      BY <1>4, <1>6, AmongMore
    <2> QED BY <1>5, <1>6, <2>1, <2>2
  <1>8. mc_pc' # "end" /\ ~bFailure' => F..iBlock \subseteq Onto'
    <2>1. ~bFailure => F..iBlock - 1 \subseteq Onto
      BY <1>3 DEF Sectors
    <2>2. F..iBlock = (F..iBlock - 1) \cup {iBlock}
      BY <1>4
    <2> QED BY <1>6, <2>1, <2>2
  <1>9. is_trailer_block(uiBlocks)
    BY <1>1, <1>2 DEF Placed
  <1>10. mc_pc' = "loop" => iBlock # uiBlocks
    BY <1>9 DEF write_block
  <1>11. mc_pc' = "written" => iBlock = uiBlocks
    BY DEF write_block
  <1>12. CASE mc_pc' = "loop"
    <2>1. counter' = counter /\ iBlock' \in F..F + Sector(F) /\ F < iBlock' /\ iBlock' - 1 = iBlock
      BY <1>1, <1>4, <1>5, <1>10, <1>12
    <2>2. Sectors(F)'
      <3>1. counter' <= Among(Done', F) /\ counter' <= F /\ (counter' = F => 0..F - 1 \subseteq Onto')
        BY <1>7, <2>1
      <3>2. ~bFailure' => F..iBlock' - 1 \subseteq Onto'
        BY <1>8, <1>12, <2>1
      <3> QED BY <1>5, <1>12, <2>1, <3>1, <3>2 DEF Sectors
    <2>3. F \in 0..uiBlocks'
      BY <1>1
    <2> QED BY <1>1, <1>12, <2>2, <2>3 DEF WrittenSoFar, WrittenIsCounted, Classic
  <1>13. CASE mc_pc' = "written"
    <2>1. iBlock = uiBlocks /\ counter' = Counted(counter, bFailure')
      BY <1>1, <1>11, <1>13
    <2>2. F + Sector(F) = uiBlocks + 1 /\ F + Sector(F) - 1 = iBlock
      BY <1>4, <1>5, <1>9, <2>1, SectorTrailer
    <2>3. bFailure' \in BOOLEAN
      BY DEF MifareTypes
    <2>4. Onto' \subseteq Done'
      BY DEF Onto, Done
    <2>5. ~bFailure' => F..F + Sector(F) - 1 \subseteq Done'
      BY <1>8, <1>13, <2>2, <2>4
    <2>6. /\ Counted(counter, bFailure') <= Among(Done', F + Sector(F))
          /\ Counted(counter, bFailure') = F + Sector(F) => ~bFailure' /\ counter = F
      BY <1>4, <1>5, <1>7, <2>3, <2>5, CountSector
    <2>7. counter' <= Among(Done', uiBlocks + 1)
      BY <2>1, <2>2, <2>6
    <2>8. counter' = uiBlocks + 1 => 0..uiBlocks \subseteq Onto'
      <3> SUFFICES ASSUME counter' = uiBlocks + 1 PROVE 0..uiBlocks \subseteq Onto'
        OBVIOUS
      <3>1. ~bFailure' /\ counter = F
        BY <2>1, <2>2, <2>6
      <3>2. 0..F - 1 \subseteq Onto' /\ F..uiBlocks \subseteq Onto'
        BY <1>7, <1>8, <1>13, <2>1, <3>1
      <3>3. 0..uiBlocks = (0..F - 1) \cup (F..uiBlocks)
        BY <1>4
      <3> QED BY <3>2, <3>3
    <2>9. nt' \in DOMAIN Deck
      BY <1>1, <1>2 DEF Placed, MifareTypes
    <2> QED BY <1>1, <1>13, <2>7, <2>8, <2>9, CountedWritten
  <1>14. CASE mc_pc' = "end"
    BY <1>14 DEF WrittenSoFar, WrittenIsCounted
  <1> QED BY <1>1, <1>12, <1>13, <1>14

\* write_card begins with nothing counted.
LEMMA WriteBegins ==
    ASSUME MifareTypes', mc_pc' = "loop", iBlock' = 0, counter' = 0, Classic'
    PROVE  WrittenSoFar' /\ WrittenIsCounted'
  <1>1. uiBlocks' \in Nat /\ 0 \in 0..uiBlocks'
    BY SizeFacts DEF MifareTypes
  <1>2. Sector(0) \in Nat \ {0} /\ Start(0)
    BY SectorSize DEF Start
  <1>3. Among(Done', 0) \in Nat
    BY AmongFacts
  <1>4. 0..0 - 1 = {} /\ 0 \in 0..0 + Sector(0)
    BY <1>2
  <1>5. Sectors(0)'
    BY <1>2, <1>3, <1>4 DEF Sectors
  <1> QED BY <1>1, <1>5 DEF WrittenSoFar, WrittenIsCounted

\* The sector that ends is counted, and the next one begins with a card selected.
LEMMA NextSectorKept ==
    ASSUME MifareTypes, MifareTypes', Placed, WrittenSoFar, next_sector
    PROVE  WrittenSoFar' /\ WrittenIsCounted'
  <1>1. /\ mc_pc = "loop" /\ Classic /\ Boundary /\ mc_pc' \in {"block", "auth", "end"}
        /\ UNCHANGED <<card, arg, mtDump, iBlock, uiBlocks>>
        /\ ~bFailure => nt' = nt
        /\ counter' = IF iBlock = (IF Reading THEN uiBlocks ELSE 0) THEN counter ELSE Counted(counter, bFailure)
    BY DEF next_sector
  <1>2. Classic' = Classic /\ Reading' = Reading
    BY <1>1 DEF Classic, Reading
  <1> SUFFICES ASSUME ~Reading, mc_pc' \in {"block", "auth"} PROVE \E F \in 0..uiBlocks' : Sectors(F)'
    BY <1>1, <1>2 DEF WrittenSoFar, WrittenIsCounted
  <1>3. is_first_block(iBlock) /\ iBlock \in 0..uiBlocks /\ uiBlocks \in Nat /\ bFailure \in BOOLEAN /\ counter \in Nat
    BY <1>1, SizeFacts DEF Boundary, Placed, MifareTypes
  <1>4. Done' = Done /\ (~bFailure => Onto' = Onto)
    BY <1>1, DoneSame
  <1>5. PICK F \in 0..uiBlocks : Sectors(F)
    BY <1>1 DEF WrittenSoFar
  <1>6. /\ F \in Nat /\ Start(F) /\ Sector(F) \in Nat /\ iBlock \in F..F + Sector(F)
        /\ counter <= F /\ counter <= Among(Done, F) /\ (counter = F => 0..F - 1 \subseteq Onto)
        /\ ~bFailure => F..iBlock - 1 \subseteq Onto
    BY <1>3, <1>5, SectorSize DEF Sectors
  <1>7. \A E \in Nat : E = iBlock /\ Start(E) /\ counter' <= E /\ counter' <= Among(Done, E) /\ (counter' = E => 0..E - 1 \subseteq Onto')
                       => \E G \in 0..uiBlocks' : Sectors(G)'
    <2> SUFFICES ASSUME NEW E \in Nat, E = iBlock, Start(E), counter' <= E, counter' <= Among(Done, E), counter' = E => 0..E - 1 \subseteq Onto'
                 PROVE  E \in 0..uiBlocks' /\ Sectors(E)'
      OBVIOUS
    <2>1. E \in 0..uiBlocks' /\ iBlock' = E
      BY <1>1, <1>3
    <2>2. Sector(E) \in Nat /\ E \in E..E + Sector(E) /\ E..E - 1 = {}
      BY SectorSize
    <2>3. counter' <= Among(Done', E)
      BY <1>4
    <2> QED BY <2>1, <2>2, <2>3 DEF Sectors
  <1>8. CASE iBlock = 0
    <2>1. F = 0 /\ counter' = counter
      BY <1>1, <1>6, <1>8
    <2>2. 0..0 - 1 = {}
      OBVIOUS
    <2> QED BY <1>6, <1>7, <1>8, <2>1, <2>2
  <1>9. CASE iBlock # 0
    <2>1. F < iBlock /\ iBlock \in Nat
      BY <1>1, <1>3, <1>5, <1>9 DEF Sectors
    <2>2. iBlock = F + Sector(F)
      BY <1>3, <1>6, <2>1, SectorFirst
    <2>3. Start(F + Sector(F)) /\ F + Sector(F) \in Nat /\ F + Sector(F) - 1 = iBlock - 1
      BY <1>6, <2>2, SectorNext
    <2>4. counter' = Counted(counter, bFailure)
      BY <1>1, <1>9
    <2>5. ~bFailure => F..F + Sector(F) - 1 \subseteq Done
      BY <1>6, <2>3, OntoDone
    <2>6. /\ counter' <= F + Sector(F) /\ counter' <= Among(Done, F + Sector(F))
          /\ counter' = F + Sector(F) => ~bFailure /\ counter = F
      BY <1>3, <1>6, <2>4, <2>5, CountSector
    <2>7. counter' = F + Sector(F) => 0..F + Sector(F) - 1 \subseteq Onto'
      <3> SUFFICES ASSUME counter' = F + Sector(F) PROVE 0..F + Sector(F) - 1 \subseteq Onto'
        OBVIOUS
      <3>1. 0..F - 1 \subseteq Onto' /\ F..F + Sector(F) - 1 \subseteq Onto'
        BY <1>4, <1>6, <2>3, <2>6
      <3>2. 0..F + Sector(F) - 1 = (0..F - 1) \cup (F..F + Sector(F) - 1)
        BY <1>6
      <3> QED BY <3>1, <3>2
    <2> QED BY <1>7, <2>2, <2>3, <2>6, <2>7
  <1> QED BY <1>8, <1>9

LEMMA AuthenticateKept ==
    ASSUME MifareTypes, MifareTypes', Placed, WrittenSoFar, authenticate
    PROVE  WrittenSoFar' /\ WrittenIsCounted'
  <1> DEFINE key == IF arg.keyfile THEN mtKeys[get_trailer_block(iBlock)][KeyAt[arg.key]] ELSE Keys[key_index]
  <1>1. /\ mc_pc = "auth" /\ mc_pc' \in {"block", "auth", "end"}
        /\ UNCHANGED <<arg, iBlock, bFailure, counter, nt, uiBlocks, mtDump>>
    BY DEF authenticate
  <1>2. card' = card
    <2>1. ASSUME NEW ok \in BOOLEAN, mifare_cmd(ok, "AUTH", iBlock, key) PROVE card' = card
      BY <2>1 DEF mifare_cmd, Performs
    <2>2. card' = card \/ \E ok \in BOOLEAN : mifare_cmd(ok, "AUTH", iBlock, key)
      BY DEF authenticate
    <2> QED BY <2>1, <2>2
  <1>3. Done' = Done /\ Onto' = Onto /\ Classic' = Classic /\ Reading' = Reading
    BY <1>1, <1>2, DoneSame DEF Classic, Reading
  <1>4. ASSUME Classic, ~Reading, mc_pc' \in {"block", "auth"} PROVE \E F \in 0..uiBlocks' : Sectors(F)'
    <2>1. PICK F \in 0..uiBlocks : Sectors(F)
      BY <1>1, <1>4 DEF WrittenSoFar
    <2>2. Sectors(F)'
      BY <1>1, <1>3, <1>4, <2>1 DEF Sectors
    <2> QED BY <1>1, <2>2
  <1> QED BY <1>1, <1>3, <1>4 DEF WrittenSoFar, WrittenIsCounted

\* nfc-mfultralight counts the pages it wrote, and never the first two.
LEMMA WritePageKept ==
    ASSUME MifareTypes, MifareTypes', Placed, Placed', WrittenSoFar, write_page
    PROVE  WrittenSoFar' /\ WrittenIsCounted'
  <1> DEFINE skip == (iBlock = 2 /\ ~arg.lock) \/ (iBlock = 3 /\ ~arg.otp)
  <1>1. /\ mc_pc = "loop" /\ ~Classic /\ ~Reading /\ mc_pc' \in {"loop", "written", "end"}
        /\ UNCHANGED <<present, arg, uiBlocks, mtDump>>
        /\ iBlock' = IF bFailure /\ ~bFailure' THEN iBlock ELSE iBlock + 1
    BY DEF write_page
  <1>2. ~Classic' /\ Reading' = Reading
    BY <1>1 DEF Classic, Reading
  <1>3. /\ iBlock \in 2..uiBlocks /\ iBlock \in Nat /\ uiBlocks \in Nat /\ counter \in Nat
        /\ counter <= iBlock - 2 /\ counter <= Among(Done, iBlock)
    BY <1>1, SizeFacts DEF WrittenSoFar, MifareTypes
  <1>4. mc_pc' = "loop" => iBlock' \in 0..uiBlocks
    BY <1>1 DEF Placed
  <1>5. ASSUME NEW E \in Nat, iBlock' = E, 2 <= E, mc_pc' # "written", counter' <= E - 2, counter' <= Among(Done', E)
        PROVE  WrittenSoFar' /\ WrittenIsCounted'
    <2>1. mc_pc' = "loop" => iBlock' \in 2..uiBlocks'
      BY <1>1, <1>3, <1>4, <1>5
    <2> QED BY <1>1, <1>2, <1>5, <2>1 DEF WrittenSoFar, WrittenIsCounted
  <1>6. CASE skip \/ bFailure
    <2>1. UNCHANGED <<card, counter>> /\ mc_pc' # "written" /\ iBlock' \in {iBlock, iBlock + 1}
      BY <1>6 DEF write_page
    <2>2. Done' = Done
      BY <1>1, <2>1, DoneSame
    <2>3. Among(Done, iBlock) <= Among(Done, iBlock + 1) /\ Among(Done, iBlock) \in Nat /\ Among(Done, iBlock + 1) \in Nat
      BY <1>3, AmongLonger
    <2>4. ASSUME NEW E \in {iBlock, iBlock + 1}, iBlock' = E PROVE WrittenSoFar' /\ WrittenIsCounted'
      <3>1. E \in Nat /\ 2 <= E /\ counter' <= E - 2 /\ counter' <= Among(Done', E)
        BY <1>3, <2>1, <2>2, <2>3, <2>4
      <3> QED BY <1>5, <2>1, <2>4, <3>1
    <2> QED BY <2>1, <2>4
  <1>7. CASE ~(skip \/ bFailure)
    <2>1. PICK ok \in BOOLEAN : /\ mifare_cmd(ok, "WRITE", iBlock, mtDump[iBlock])
                                /\ counter' = IF ok THEN counter + 1 ELSE counter
                                /\ mc_pc' = (IF iBlock = uiBlocks THEN "written" ELSE "loop") /\ nt' = nt
      BY <1>7 DEF write_page
    <2>2. Exchanged(ok, "WRITE", iBlock, mtDump[iBlock])
      BY <1>3, <2>1, CommandExchanged
    <2>3. iBlock \in 0..uiBlocks
      BY <1>3
    <2>4. Done \subseteq Done' /\ (ok => present = nt /\ \A b \in Nat : b = iBlock => present \in OnCard(b)')
      BY <1>1, <2>2, <2>3, OntoGrows
    <2>5. ok => iBlock \in Done'
      <3>1. ok => \A b \in Nat : b = iBlock => b \in Done'
        BY <2>4 DEF Done
      <3> QED BY <1>3, <3>1
    <2>6. Among(Done, iBlock) <= Among(Done', iBlock) /\ Among(Done, iBlock) \in Nat /\ Among(Done', iBlock) \in Nat
      BY <1>3, <2>4, AmongMore
    <2>7. counter' \in Nat /\ counter' <= (iBlock + 1) - 2 /\ counter' <= Among(Done', iBlock + 1)
      <3>1. Among(Done', iBlock) <= Among(Done', iBlock + 1) /\ Among(Done', iBlock + 1) \in Nat
        BY <1>3, AmongLonger
      <3>2. CASE ok
        <4>1. iBlock..(iBlock + 1) - 1 = {iBlock}
          BY <1>3
        <4>2. Among(Done', iBlock + 1) = Among(Done', iBlock) + ((iBlock + 1) - iBlock)
          BY <1>3, <2>5, <3>2, <4>1, AmongAdds
        <4> QED BY <1>3, <2>1, <2>6, <3>2, <4>2
      <3>3. CASE ~ok
        BY <1>3, <2>1, <2>6, <3>1, <3>3
      <3> QED BY <3>2, <3>3
    <2>8. iBlock' = iBlock + 1 /\ iBlock + 1 \in Nat
      BY <1>1, <1>3, <1>7
    <2>9. CASE iBlock # uiBlocks
      BY <1>3, <1>5, <2>1, <2>7, <2>8, <2>9
    <2>10. CASE iBlock = uiBlocks
      <3>1. mc_pc' = "written" /\ nt' \in DOMAIN Deck
        BY <1>1, <2>1, <2>10 DEF Placed, Selections, MifareTypes
      <3>2. counter' # uiBlocks + 1
        BY <1>3, <2>7, <2>10
      <3>3. counter' <= Among(Done', uiBlocks + 1)
        BY <2>7, <2>10
      <3> QED BY <1>1, <3>1, <3>2, <3>3, CountedWritten
    <2> QED BY <2>9, <2>10
  <1> QED BY <1>6, <1>7

LEMMA WrittenKept ==
    ASSUME MifareTypes, MifareTypes', Placed, Placed', WrittenSoFar, WrittenIsCounted, MifareNext
    PROVE  WrittenSoFar' /\ WrittenIsCounted'
  <1>q. ASSUME mc_pc' \in {"idle", "select", "unlock", "read", "saved", "end"} \/ (Reading' /\ mc_pc' # "written")
        PROVE  WrittenSoFar' /\ WrittenIsCounted'
    BY <1>q DEF WrittenSoFar, WrittenIsCounted
  <1>1. ASSUME NEW c \in DOMAIN Deck \cup {0}, swap(c) PROVE WrittenSoFar' /\ WrittenIsCounted'
    <2>1. UNCHANGED <<card, mc_pc, arg, iBlock, bFailure, counter, nt, uiBlocks, mtDump>>
      BY <1>1 DEF swap, toolVars
    <2>2. Done' = Done /\ Onto' = Onto
      BY <2>1, DoneSame
    <2>3. \A F \in Nat : Sectors(F) => Sectors(F)'
      BY <2>1, <2>2 DEF Sectors
    <2>4. uiBlocks \in Nat
      BY SizeFacts DEF MifareTypes
    <2>5. WrittenSoFar'
      BY <2>1, <2>2, <2>3, <2>4 DEF WrittenSoFar, Classic, Reading
    <2>6. WrittenIsCounted'
      BY <2>1 DEF WrittenIsCounted, OnCard, Untold, Classic, Blocks
    <2> QED BY <2>5, <2>6
  <1>2. ASSUME NEW a \in Args, start(a) PROVE WrittenSoFar' /\ WrittenIsCounted'
    BY <1>2, <1>q DEF start
  <1>3. CASE first_select
    <2>1. /\ mc_pc = "select" /\ UNCHANGED <<arg, counter, bFailure>> /\ mc_pc' \in {"end", "unlock", "loop"}
          /\ mc_pc' = "loop" => iBlock' = CASE arg.act = "write" -> IF arg.tool = "classic" THEN 0 ELSE 2
                                            [] arg.act = "read" -> IF arg.tool = "classic" THEN uiBlocks' ELSE 0
      BY <1>3 DEF first_select
    <2>2. counter = 0 /\ arg.act \in {"read", "write"}
      BY <2>1, ArgFacts DEF Placed
    <2>3. CASE arg.act = "read" \/ mc_pc' # "loop"
      BY <1>q, <2>1, <2>3 DEF Reading
    <2>4. CASE arg.act = "write" /\ mc_pc' = "loop" /\ arg.tool = "classic"
      <3>1. iBlock' = 0 /\ counter' = 0 /\ Classic'
        BY <2>1, <2>2, <2>4 DEF Classic
      <3> QED BY <2>4, <3>1, WriteBegins
    <2>5. CASE arg.act = "write" /\ mc_pc' = "loop" /\ arg.tool # "classic"
      <3>1. iBlock' = 2 /\ counter' = 0 /\ ~Classic'
        BY <2>1, <2>2, <2>5 DEF Classic
      <3>2. uiBlocks' = LastBlock["UL"]
        BY <2>5, <3>1 DEF Placed, Selections
      <3>3. 2 \in 2..uiBlocks'
        BY <3>2, SizeFacts
      <3>4. Among(Done', 2) \in Nat
        BY AmongFacts
      <3>5. Among(Done', iBlock') = Among(Done', 2)
        BY <3>1
      <3> QED BY <2>5, <3>1, <3>3, <3>4, <3>5 DEF WrittenSoFar, WrittenIsCounted
    <2> QED BY <2>2, <2>3, <2>4, <2>5
  <1>4. CASE unlock_card
    <2>1. mc_pc = "unlock" /\ mc_pc' \in {"loop", "end"} /\ UNCHANGED <<arg, iBlock, counter>>
      BY <1>4 DEF unlock_card, toolVars
    <2>2. Classic' /\ counter' = 0 /\ (~Reading' => iBlock' = 0)
      BY <2>1 DEF Placed, Classic, Reading
    <2> QED BY <1>q, <2>1, <2>2, WriteBegins
  <1>5. CASE save_dump
    BY <1>5, <1>q DEF save_dump
  <1>6. CASE close_tool
    BY <1>6, <1>q DEF close_tool
  <1>7. CASE next_sector
    BY <1>7, NextSectorKept
  <1>8. CASE authenticate
    BY <1>8, AuthenticateKept
  <1>9. CASE read_block
    <2>1. Reading' /\ mc_pc' # "written"
      BY <1>9 DEF read_block, Reading
    <2> QED BY <1>q, <2>1
  <1>10. CASE write_block
    BY <1>10, WriteBlockKept
  <1>11. CASE read_pages
    <2>1. Reading' /\ mc_pc' # "written"
      BY <1>11 DEF read_pages, Reading
    <2> QED BY <1>q, <2>1
  <1>12. CASE write_page
    BY <1>12, WritePageKept
  <1> QED BY <1>1, <1>2, <1>3, <1>4, <1>5, <1>6, <1>7, <1>8, <1>9, <1>10, <1>11, <1>12 DEF MifareNext

LEMMA MifareBegins ==
    ASSUME MifareInit
    PROVE  MifareInv
  <1> USE DEF Selections
  <1>0. mc_pc = "idle" /\ card = Deck /\ present \in DOMAIN Deck /\ link = Away /\ arg = NoArg
    BY DEF MifareInit
  <1>f. \A f \in Files : f \in [tool : {"classic", "ultralight"}, blocks : Dump, last : {LastBlock["4K"]}] /\ (f.tool = "classic" => Valid(f.blocks))
    BY FilesAssumption
  <1>d. disk \in Files \/ disk = NoFile
    BY DEF MifareInit
  <1>1. MifareTypes
    <2>1. CardsOK(card)
      <3>1. Deck = [c \in DOMAIN Deck |-> Deck[c]]
        BY MifareAssumption
      <3> QED BY <1>0, <3>1, DeckFacts DEF CardsOK
    <2>2. Blank \in Dump
      BY BlankFacts
    <2>3. disk = NoFile \/ disk \in [tool : {"classic", "ultralight"}, blocks : Dump, last : Nat]
      BY <1>f, <1>d, SizeFacts
    <2>4. /\ iBlock \in Int /\ bFailure \in BOOLEAN /\ counter \in Nat /\ key_index \in Nat /\ nt = 0
          /\ uiBlocks \in 0..LastBlock["4K"] /\ mtDump = Blank /\ mtKeys = Blank /\ mc_faults \in Nat
      <3>1. iBlock = 0 /\ bFailure = FALSE /\ counter = 0 /\ key_index = 1 /\ nt = 0 /\ uiBlocks = 0 /\ mc_faults = 0
        BY DEF MifareInit
      <3>2. mtDump = Blank /\ mtKeys = Blank
        BY DEF MifareInit
      <3>3. 0 \in 0..LastBlock["4K"]
        BY SizeFacts
      <3>4. iBlock \in Int /\ counter \in Nat /\ key_index \in Nat /\ mc_faults \in Nat
        BY <3>1
      <3>6. bFailure \in BOOLEAN
        BY <3>1, Zenon
      <3>5. uiBlocks \in 0..LastBlock["4K"]
        BY <3>1, <3>3
      <3> QED BY <3>1, <3>2, <3>4, <3>5, <3>6
    <2> QED BY <1>0, <2>1, <2>2, <2>3, <2>4, AwayFacts DEF MifareTypes, Places
  <1>2. Placed
    <2>1. counter = 0 /\ ~bFailure
      BY DEF MifareInit
    <2> QED BY <1>0, <2>1, AwayFacts DEF Placed
  <1>3. ReadSoFar /\ WrittenSoFar /\ WrittenIsCounted
    BY <1>0 DEF ReadSoFar, WrittenSoFar, WrittenIsCounted
  <1>4. Faultless
    BY <1>0, DeckFacts DEF Faultless
  <1>5. DumpsValid
    <2>1. ASSUME disk.tool = "classic" PROVE Writable(disk)
      <3>1. disk \in Files
        BY <1>d, <2>1 DEF NoFile
      <3>2. Valid(disk.blocks) /\ disk.blocks \in Dump /\ disk.last = LastBlock["4K"]
        BY <1>f, <2>1, <3>1
      <3> QED BY <3>2 DEF Writable, Valid, Dump
    <2>2. arg.act # "write"
      BY <1>0 DEF NoArg
    <2> QED BY <1>0, <2>1, <2>2 DEF DumpsValid
  <1> QED BY <1>1, <1>2, <1>3, <1>4, <1>5 DEF MifareInv

LEMMA MifareSteps ==
    ASSUME MifareInv, [MifareNext]_mifare_vars
    PROVE  MifareInv'
  <1> USE DEF MifareInv
  <1>1. CASE MifareNext
    <2>1. MifareTypes'
      BY <1>1, TypesKept
    <2>2. Placed'
      BY <1>1, PlacedKept
    <2>3. ReadSoFar'
      BY <1>1, <2>1, ReadKept
    <2>4. Faultless'
      BY <1>1, <2>1, <2>2, FaultlessKept
    <2>5. DumpsValid'
      BY <1>1, <2>1, DumpsKept
    <2>6. WrittenSoFar' /\ WrittenIsCounted'
      BY <1>1, <2>1, <2>2, WrittenKept
    <2> QED BY <2>1, <2>2, <2>3, <2>4, <2>5, <2>6
  <1>2. CASE UNCHANGED mifare_vars
    <2> USE <1>2 DEF mifare_vars, toolVars
    <2>1. MifareTypes' /\ Placed'
      BY DEF MifareTypes, Placed, Classic, Reading, Boundary
    <2>2. ReadSoFar' /\ Faultless' /\ DumpsValid'
      BY DEF ReadSoFar, Faultless, DumpsValid, Writable, Classic, Reading, Selections
    <2>3. Done' = Done /\ Onto' = Onto
      BY DoneSame
    <2>4. \A F \in Nat : Sectors(F) => Sectors(F)'
      BY <2>3 DEF Sectors
    <2>5. uiBlocks \in Nat
      BY SizeFacts DEF MifareTypes
    <2>6. WrittenSoFar'
      BY <2>3, <2>4, <2>5 DEF WrittenSoFar, Classic, Reading
    <2>7. WrittenIsCounted'
      BY DEF WrittenIsCounted, OnCard, Untold, Classic, Blocks
    <2> QED BY <2>1, <2>2, <2>6, <2>7
  <1> QED BY <1>1, <1>2

\* MifareInv is an invariant of the two tools, for any cards, files and keys.
THEOREM MifareInductive == MifareSpec => []MifareInv
  BY MifareBegins, MifareSteps, PTL DEF MifareSpec

\* SavedIsCard: a dump read_card lets be saved is the card it was read from, and
\* unless something failed, a card was changed in the middle of a run, or a dump of a
\* smaller card was written to a larger one, no dump that is written closes a sector
\* for ever.
THEOREM SavedIsCardHolds == MifareSpec => []SavedIsCard
  <1>1. MifareInv => SavedIsCard
    <2> SUFFICES ASSUME MifareInv PROVE SavedIsCard
      OBVIOUS
    <2>0. MifareTypes /\ ReadSoFar /\ Faultless /\ Placed /\ DOMAIN card = DOMAIN Deck /\ \A c \in DOMAIN Deck : card[c].kind = Deck[c].kind
      BY CardFacts DEF MifareInv, MifareTypes
    <2>1. ASSUME NEW c \in DOMAIN card, card[c].kind # "UL", mc_faults = 0, ~stretched, NEW b \in DOMAIN card[c].blocks, is_trailer_block(b)
          PROVE  card[c].blocks[b][2] # 0
      BY <2>0, <2>1 DEF Faultless, Valid
    <2>2. ASSUME mc_pc = "saved", NEW b \in Blocks
          PROVE  Same(arg, mc_faults, disk.blocks[b], card[nt].blocks[b], Classic /\ is_trailer_block(b))
      <3>1. Reading /\ mc_pc \in Selections /\ b \in 0..uiBlocks /\ uiBlocks \in Nat
        BY <2>0, <2>2, SizeFacts DEF Placed, Selections, Blocks, MifareTypes
      <3>2. disk.blocks = mtDump
        BY <2>0, <2>2, <3>1 DEF ReadSoFar
      <3>3. CASE Classic
        <4>1. iBlock = -1
          BY <2>0, <2>2, <3>1, <3>3 DEF ReadSoFar
        <4>2. b \in iBlock + 1 .. uiBlocks
          BY <3>1, <4>1
        <4>3. Same(arg, mc_faults, mtDump[b], card[nt].blocks[b], is_trailer_block(b))
          BY <2>0, <3>1, <3>3, <4>2 DEF ReadSoFar
        <4> QED BY <3>2, <3>3, <4>3 DEF Same
      <3>4. CASE ~Classic
        <4>1. iBlock > uiBlocks /\ iBlock \in Nat
          BY <2>0, <2>2, <3>1, <3>4 DEF ReadSoFar
        <4>2. b < iBlock
          BY <3>1, <4>1
        <4>3. mtDump[b] = card[nt].blocks[b]
          BY <2>0, <3>1, <3>4, <4>2 DEF ReadSoFar
        <4> QED BY <3>2, <4>3 DEF Same
      <3> QED BY <3>3, <3>4
    <2> QED BY <2>1, <2>2 DEF SavedIsCard, Same
  <1> QED BY <1>1, MifareInductive, PTL

\* WrittenIsCounted: what write_card says it wrote is on a card, and when it says
\* it wrote everything, on the one that is selected.
THEOREM WrittenIsCountedHolds == MifareSpec => []WrittenIsCounted
  <1>1. MifareInv => WrittenIsCounted
    BY DEF MifareInv
  <1> QED BY <1>1, MifareInductive, PTL
=============================================================================
