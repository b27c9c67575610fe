------------------------------- MODULE Session -------------------------------
(***************************************************************************)
(* The session of an application with one PN53x device: the calls of       *)
(* nfc.c as chips/pn53x.c carries them out, and the state they leave       *)
(* behind in struct pn53x_data (operating_mode, current_target, sam_mode)  *)
(* and in the chip (RF field, selected target, emulation).                 *)
(*                                                                         *)
(* Calls are sequential, so each is one action; every command in it may    *)
(* fail, before or after the chip has acted.  The application follows the  *)
(* documented protocol: it exchanges data as initiator or as target only   *)
(* after the matching init call has returned success.                      *)
(***************************************************************************)
CONSTANTS Tag,     \* targets, real or emulated
          RawTag,  \* those of the ISO14443-B' family, selected by hand
          Type     \* chip types

NoTag == "no tag"

ASSUME SessionAssumption ==
    /\ RawTag \subseteq Tag /\ NoTag \notin Tag
    /\ Type # {} /\ Type \subseteq {"PN531", "PN532", "PN533"}

VARIABLES type,      \* the chip: set when the device is opened
          operating_mode, current_target, sam_mode, power_mode, bEasyFraming,  \* host
          chip,      \* RF field, selected target, emulated target, SAM mode
          role,      \* the role the application was told it has
          result,    \* the last call and how it ended
          crashed,   \* the process has ended: a null pointer, or abort()
          failed,    \* history: a command has failed
          timedOut,  \* history: nfc_target_init has timed out
          released,  \* history: a target was reported released
          byHand,    \* history: the field was switched on outside initiator mode
          drowsy,    \* history: a secure element was initialised out of low VBat
          unnamed,   \* history: the target selected last was not recorded
          chained    \* history: the status byte of an exchange had NAD or MI set

hostVars == <<type, operating_mode, current_target, sam_mode, power_mode, bEasyFraming>>
history == <<failed, timedOut, released, byHand, drowsy, unnamed, chained>>
vars == <<hostVars, chip, role, result, crashed, history>>

Mode == {"INITIATOR", "TARGET", "IDLE"}
Chip == [rf : BOOLEAN, selected : Tag \cup {NoTag}, emulated : Tag \cup {NoTag},
         sam : {"NORMAL", "WIRED_CARD"}]

\* A call, how it ended, the target it was about, and the one the chip then had.
Call == {"open", "idle", "initiator_init", "init_secure_element", "activate_field",
         "easy_framing", "select", "poll", "select_dep", "poll_dep", "deselect",
         "is_present", "transceive", "target_init", "target_exchange"}
Result == [op : Call, out : {"ok", "none", "released", "error"},
           tag : Tag \cup {NoTag}, had : Tag \cup {NoTag}]

TypeOK ==
    /\ type \in Type
    /\ operating_mode \in Mode
    /\ current_target \in Tag \cup {NoTag}
    /\ sam_mode \in {"NORMAL", "WIRED_CARD"}
    /\ power_mode \in {"NORMAL", "LOWVBAT"}
    /\ bEasyFraming \in BOOLEAN
    /\ chip \in Chip
    /\ role \in {"none", "initiator", "target"}
    /\ result \in Result
    /\ crashed \in BOOLEAN
    /\ failed \in BOOLEAN /\ timedOut \in BOOLEAN /\ released \in BOOLEAN /\ byHand \in BOOLEAN
    /\ drowsy \in BOOLEAN /\ unnamed \in BOOLEAN /\ chained \in BOOLEAN

\* pn53x_data_new and pn53x_reset_settings, over a chip at rest.  Opening the
\* device has already woken it up.
Init ==
    /\ type \in Type
    /\ operating_mode = "INITIATOR"
    /\ current_target = NoTag
    /\ sam_mode = "NORMAL"
    /\ power_mode = "NORMAL"
    /\ bEasyFraming = TRUE
    /\ chip = [rf |-> FALSE, selected |-> NoTag, emulated |-> NoTag, sam |-> "NORMAL"]
    /\ role = "none"
    /\ result = [op |-> "open", out |-> "ok", tag |-> NoTag, had |-> NoTag]
    /\ crashed = FALSE
    /\ failed = FALSE /\ timedOut = FALSE /\ released = FALSE /\ byHand = FALSE /\ drowsy = FALSE
    /\ unnamed = FALSE /\ chained = FALSE

\* A call returns, in a program that has not crashed.
Returns(op, out, t) ==
    /\ ~crashed
    /\ result' = [op |-> op, out |-> out, tag |-> t, had |-> chip.selected]

\* A command of the call fails: the host gives up, and the chip is left in one
\* of the states cs.
Breaks(op, t, cs) ==
    /\ Returns(op, "error", t)
    /\ chip' \in cs
    /\ failed' = TRUE
    /\ UNCHANGED <<timedOut, released, byHand, drowsy, unnamed, chained>>

Dark(c) == [c EXCEPT !.rf = FALSE, !.selected = NoTag]
Lit(c) == [c EXCEPT !.rf = TRUE]
Deselected(c) == [c EXCEPT !.selected = NoTag]
Quiet(c) == [c EXCEPT !.emulated = NoTag]
Selected(c, t) == [c EXCEPT !.rf = TRUE, !.selected = t]
SAM(c, m) == [c EXCEPT !.sam = m]

\* The first command after low VBat is preceded by pn532_uart_send's own
\* SAMConfiguration, which takes the SAM, and sam_mode, to normal mode.
Awake(c) == IF power_mode = "LOWVBAT" THEN SAM(c, "NORMAL") ELSE c
AwakeSam == IF power_mode = "LOWVBAT" THEN "NORMAL" ELSE sam_mode

\* The call sends a command, so the device is woken up, or at least taken to be.
Wakes == power_mode' = "NORMAL" /\ sam_mode' = AwakeSam
FailsToWake == power_mode' = "NORMAL" /\ sam_mode' \in {sam_mode, AwakeSam}

-----------------------------------------------------------------------------
(* pn53x_idle                                                              *)

\* What each mode undoes in the chip before the device is idle.
Idled(m) == CASE m = "INITIATOR" -> Quiet(Dark(chip))
              [] m = "TARGET" -> Quiet(chip)
              [] m = "IDLE" -> chip

\* A PN532 is then powered down.  Low VBat goes with IDLE mode, so the commands
\* above never wake it up.
IdledPower(m) == IF m # "IDLE" /\ type = "PN532" THEN "LOWVBAT" ELSE power_mode

\* Where a failing command of pn53x_idle may leave the chip.
HalfIdled(m) == CASE m = "INITIATOR" -> {chip, Deselected(chip), Dark(chip), Idled(m)}
                  [] m = "TARGET" -> {chip, Quiet(chip), Idled(m)}
                  [] m = "IDLE" -> {}

\* mutant: leaving target mode forgets to stop the emulation
idle_MutTarget ==
    \/ /\ chip' = IF operating_mode = "TARGET" THEN chip ELSE Idled(operating_mode)
       /\ current_target' = NoTag
       /\ operating_mode' = "IDLE"
       /\ role' = "none"
       /\ Returns("idle", "ok", NoTag)
       /\ power_mode' = IdledPower(operating_mode)
       /\ UNCHANGED <<type, history, crashed, sam_mode, bEasyFraming>>
    \/ /\ Breaks("idle", NoTag, HalfIdled(operating_mode))
       /\ UNCHANGED <<hostVars, role, crashed>>

idle ==
    \/ /\ chip' = Idled(operating_mode)
       /\ current_target' = NoTag
       /\ operating_mode' = "IDLE"
       /\ role' = "none"
       /\ Returns("idle", "ok", NoTag)
       /\ power_mode' = IdledPower(operating_mode)
       /\ UNCHANGED <<type, history, crashed, sam_mode, bEasyFraming>>
    \/ /\ Breaks("idle", NoTag, HalfIdled(operating_mode))
       /\ UNCHANGED <<hostVars, role, crashed>>

\* nfc_close ignores how nfc_idle ends and frees the host state; nfc_open then
\* starts a new one over the chip as it was left.
reopen ==
    /\ \E c \in {Idled(operating_mode)} \cup HalfIdled(operating_mode) :
         /\ chip' = IF type = "PN532" THEN SAM(c, "NORMAL") ELSE c
         /\ failed' = (failed \/ c # Idled(operating_mode))
    /\ operating_mode' = "INITIATOR"
    /\ current_target' = NoTag
    /\ sam_mode' = "NORMAL"
    /\ power_mode' = "NORMAL"
    /\ bEasyFraming' = TRUE
    /\ role' = "none"
    /\ drowsy' = FALSE
    /\ Returns("open", "ok", NoTag)
    /\ UNCHANGED <<type, crashed, timedOut, released, byHand, unnamed, chained>>

-----------------------------------------------------------------------------
(* nfc_initiator_init                                                      *)

\* mutant: the SAM mode is only noted, the command is not sent
initiator_init_MutNoSam ==
    LET lit == Lit(Dark(Awake(chip))) IN
    /\ \/ /\ chip' = lit
          /\ operating_mode' = "INITIATOR"
          /\ sam_mode' = "NORMAL" /\ power_mode' = "NORMAL"
          /\ bEasyFraming' = TRUE
          /\ role' = "initiator"
          /\ Returns("initiator_init", "ok", NoTag)
          /\ UNCHANGED history
       \/ /\ Breaks("initiator_init", NoTag, {chip, Dark(Awake(chip)), lit})
          /\ FailsToWake
          /\ role' = "none"
          /\ UNCHANGED <<operating_mode, bEasyFraming>>
    /\ UNCHANGED <<type, current_target, crashed>>

\* The field is dropped and switched on, then pn53x_initiator_init takes the
\* SAM back to normal mode if the host believes it elsewhere.
initiator_init ==
    LET lit == Lit(Dark(Awake(chip))) IN
    /\ power_mode' = "NORMAL"
    /\ \/ /\ chip' = IF AwakeSam = "NORMAL" THEN lit ELSE SAM(lit, "NORMAL")
          /\ operating_mode' = "INITIATOR"
          /\ sam_mode' = "NORMAL"
          /\ bEasyFraming' = TRUE
          /\ role' = "initiator"
          /\ Returns("initiator_init", "ok", NoTag)
          /\ UNCHANGED history
       \/ /\ Breaks("initiator_init", NoTag, {chip, Awake(chip), Dark(Awake(chip)), lit})
          /\ sam_mode' \in {sam_mode, AwakeSam}
          /\ role' = "none"
          /\ UNCHANGED <<operating_mode, bEasyFraming>>
       \/ /\ AwakeSam # "NORMAL"     \* pn532_SAMConfiguration sets it, then fails
          /\ sam_mode' = "NORMAL"
          /\ bEasyFraming' = TRUE
          /\ role' = "none"
          /\ Breaks("initiator_init", NoTag, {lit, SAM(lit, "NORMAL")})
          /\ UNCHANGED operating_mode
    /\ UNCHANGED <<type, current_target, crashed>>

\* pn532_SAMConfiguration notes the mode before it sends the command; out of
\* low VBat the wake-up inside the send overwrites it with normal mode.
init_secure_element ==
    /\ \/ /\ type = "PN532"
          /\ sam_mode' = IF power_mode = "LOWVBAT" THEN "NORMAL" ELSE "WIRED_CARD"
          /\ power_mode' = "NORMAL"
          /\ drowsy' = (drowsy \/ power_mode = "LOWVBAT")
          /\ \/ /\ chip' = SAM(chip, "WIRED_CARD")
                /\ Returns("init_secure_element", "ok", NoTag)
                /\ UNCHANGED failed
             \/ /\ chip' \in {chip, Awake(chip), SAM(chip, "WIRED_CARD")}
                /\ Returns("init_secure_element", "error", NoTag)
                /\ failed' = TRUE
          /\ UNCHANGED <<timedOut, released, byHand, unnamed, chained>>
       \/ /\ type # "PN532"
          /\ Returns("init_secure_element", "error", NoTag)
          /\ UNCHANGED <<chip, sam_mode, power_mode, history>>
    /\ UNCHANGED <<type, operating_mode, current_target, bEasyFraming, role, crashed>>

\* nfc_device_set_property_bool
activate_field(b) ==
    LET after == IF b THEN Lit(Awake(chip)) ELSE Dark(Awake(chip)) IN
    /\ \/ /\ chip' = after
          /\ Wakes
          /\ Returns("activate_field", "ok", NoTag)
          /\ byHand' = (byHand \/ (b /\ operating_mode # "INITIATOR"))
          /\ UNCHANGED <<failed, timedOut, released, drowsy, unnamed, chained>>
       \/ Breaks("activate_field", NoTag, {chip, Awake(chip), after}) /\ FailsToWake
    /\ UNCHANGED <<type, operating_mode, current_target, bEasyFraming, role, crashed>>

easy_framing(b) ==
    /\ bEasyFraming' = b
    /\ Returns("easy_framing", "ok", NoTag)
    /\ UNCHANGED <<type, operating_mode, current_target, sam_mode, power_mode, chip, role, crashed, history>>

-----------------------------------------------------------------------------
(* Selecting a target                                                      *)

\* The other histories, when unnamed changes
Sound == UNCHANGED <<failed, timedOut, released, byHand, drowsy, chained>>

\* pn53x_initiator_select_passive_target_ext with InListPassiveTarget.  The old
\* current_target is kept when nothing answers, and when the caller gave no
\* nfc_target to fill (pnt is NULL).
SelectNative(op, t, pnt) ==
    /\ t \notin RawTag
    /\ \/ /\ chip' = Selected(chip, t)
          /\ current_target' = IF pnt THEN t ELSE current_target
          /\ unnamed' = ~pnt
          /\ Returns(op, "ok", t)
          /\ Sound
       \/ /\ chip' = Deselected(Lit(chip))
          /\ Returns(op, "none", t)
          /\ UNCHANGED <<current_target, history>>
       \/ /\ Breaks(op, t, {chip, Deselected(Lit(chip)), Selected(chip, t)})
          /\ UNCHANGED current_target
    /\ UNCHANGED bEasyFraming

\* The same for the ISO14443-B' family: raw frames, of which the chip keeps no
\* target, and no current_target.  The first byte the target sent is returned
\* as the count of targets, so even 0.
SelectRaw(op, t) ==
    /\ t \in RawTag
    /\ bEasyFraming' = FALSE
    /\ \/ /\ \E out \in {"ok", "none"} : Returns(op, out, t)
          /\ UNCHANGED <<chip, history>>
       \/ Breaks(op, t, {chip})
    /\ UNCHANGED current_target

select_passive_target(t) ==
    /\ role = "initiator"
    /\ (\E pnt \in BOOLEAN : SelectNative("select", t, pnt)) \/ SelectRaw("select", t)
    /\ UNCHANGED <<type, operating_mode, sam_mode, power_mode, role, crashed>>

\* pn53x_initiator_poll_target: InAutoPoll on a PN532, which returns before
\* pn53x_current_target_new; a loop of selections, up to 255 rounds, elsewhere.
poll_target(t) ==
    /\ role = "initiator"
    /\ \/ /\ type = "PN532" /\ t \in RawTag       \* not a type of InAutoPoll
          /\ Returns("poll", "error", t)
          /\ UNCHANGED <<chip, current_target, bEasyFraming, history>>
       \/ /\ type = "PN532" /\ t \notin RawTag
          /\ \/ chip' = Selected(chip, t) /\ Returns("poll", "ok", t) /\ unnamed' = TRUE /\ Sound
             \/ chip' = Deselected(Lit(chip)) /\ Returns("poll", "error", t) /\ UNCHANGED history
             \/ Breaks("poll", t, {chip, Selected(chip, t)})
          /\ UNCHANGED <<current_target, bEasyFraming>>
       \/ /\ type # "PN532"
          /\ \/ SelectNative("poll", t, TRUE)
             \/ SelectRaw("poll", t)
             \/ /\ chip' \in IF t \in RawTag THEN {chip}      \* each round timed out
                                          ELSE {Deselected(Lit(chip)), Selected(chip, t)}
                /\ failed' = TRUE
                /\ bEasyFraming' = (bEasyFraming /\ t \notin RawTag)
                /\ Returns("poll", "none", t)
                /\ UNCHANGED <<current_target, timedOut, released, byHand, drowsy, unnamed, chained>>
    /\ UNCHANGED <<type, operating_mode, sam_mode, power_mode, role, crashed>>

\* mutant: the target found is not recorded
select_dep_target_MutKeepOld(t) ==
    /\ role = "initiator" /\ t \notin RawTag
    /\ \/ /\ chip' = Selected(chip, t)
          /\ Returns("select_dep", "ok", t)
          /\ unnamed' = FALSE /\ UNCHANGED current_target /\ Sound
       \/ /\ Breaks("select_dep", t, {chip, Selected(chip, t)})
          /\ UNCHANGED current_target
    /\ UNCHANGED <<type, operating_mode, sam_mode, power_mode, bEasyFraming, role, crashed>>

\* pn53x_initiator_select_dep_target; t is also what the caller's nfc_target
\* held before: it becomes current_target even when no target is found.
select_dep_target(t) ==
    /\ role = "initiator" /\ t \notin RawTag
    /\ \/ /\ chip' = Selected(chip, t)
          /\ current_target' = t /\ unnamed' = FALSE
          /\ Returns("select_dep", "ok", t)
          /\ Sound
       \/ /\ chip' = Deselected(Lit(chip))
          /\ current_target' = t
          /\ Returns("select_dep", "none", t)
          /\ UNCHANGED history
       \/ /\ Breaks("select_dep", t, {chip, Deselected(Lit(chip)), Selected(chip, t)})
          /\ current_target' = NoTag
    /\ UNCHANGED <<type, operating_mode, sam_mode, power_mode, bEasyFraming, role, crashed>>

\* nfc_initiator_poll_dep_target repeats the above until its time is over; a
\* time-out of one round is not an error of the call.
poll_dep_target(t) ==
    \/ select_dep_target(t)
    \/ /\ role = "initiator" /\ t \notin RawTag
       /\ chip' \in {Deselected(Lit(chip)), Selected(chip, t)}
       /\ current_target' = NoTag
       /\ Returns("poll_dep", "none", t)
       /\ failed' = TRUE
       /\ UNCHANGED <<type, operating_mode, sam_mode, power_mode, bEasyFraming, role, crashed>>
       /\ UNCHANGED <<timedOut, released, byHand, drowsy, unnamed, chained>>

deselect_target ==
    /\ role = "initiator"
    /\ current_target' = NoTag
    /\ \/ /\ chip' = Deselected(chip)
          /\ Returns("deselect", "ok", NoTag)
          /\ UNCHANGED history
       \/ Breaks("deselect", NoTag, {chip, Deselected(chip)})
    /\ UNCHANGED <<type, operating_mode, sam_mode, power_mode, bEasyFraming, role, crashed>>

\* The target is taken away from the reader.
tag_leaves ==
    /\ chip.selected # NoTag
    /\ chip' = Deselected(chip)
    /\ UNCHANGED <<hostVars, role, result, crashed, history>>

\* pn53x_initiator_target_is_present: the Diagnose command asks the chip about
\* the target it has, whichever it is.
target_is_present(t) ==
    /\ role = "initiator"
    /\ \/ /\ current_target # t
          /\ Returns("is_present", "released", t)
          /\ UNCHANGED <<chip, current_target, history>>
       \/ /\ current_target = t
          /\ chip.selected # NoTag
          /\ Returns("is_present", "ok", t)
          /\ UNCHANGED <<chip, current_target, history>>
       \/ /\ current_target = t
          /\ chip.selected = NoTag
          /\ current_target' \in {t, NoTag}
          /\ Returns("is_present", IF current_target' = t THEN "error" ELSE "released", t)
          /\ UNCHANGED <<chip, history>>
       \/ /\ current_target = t
          /\ Breaks("is_present", t, {chip})
          /\ UNCHANGED current_target
    /\ UNCHANGED <<type, operating_mode, sam_mode, power_mode, bEasyFraming, role, crashed>>

-----------------------------------------------------------------------------
(* Exchanging data                                                         *)

\* The tail of pn53x_transceive: data, an error status, a refused MIFARE
\* authentication (reported like a release), or the status that the target was
\* released, which frees current_target.  A NAD or a chained frame (MI) of the
\* other side ends the process: abort().
Exchange(op) ==
    \/ /\ ~crashed /\ crashed' = TRUE /\ chained' = TRUE
       /\ chip' = Awake(chip)
       /\ Wakes
       /\ UNCHANGED <<current_target, result, failed, timedOut, released, byHand, drowsy, unnamed>>
    \/ /\ \E out \in {"ok", "error", "released"} : Returns(op, out, NoTag)
       /\ chip' = Awake(chip)
       /\ Wakes
       /\ UNCHANGED <<current_target, crashed, history>>
    \/ /\ chip' = Quiet(Deselected(Awake(chip)))
       /\ Wakes
       /\ current_target' = NoTag
       /\ released' = TRUE
       /\ Returns(op, "released", NoTag)
       /\ UNCHANGED <<crashed, failed, timedOut, byHand, drowsy, unnamed, chained>>
    \/ /\ Breaks(op, NoTag, {chip, Awake(chip)})
       /\ FailsToWake
       /\ UNCHANGED <<current_target, crashed>>

transceive_bytes ==
    /\ role = "initiator"
    /\ Exchange("transceive")
    /\ UNCHANGED <<type, operating_mode, bEasyFraming, role>>

\* pn53x_target_receive_bytes and pn53x_target_send_bytes: with easy framing
\* the command depends on the modulation of current_target.
target_exchange ==
    /\ role = "target"
    /\ ~crashed
    /\ \/ /\ bEasyFraming /\ current_target = NoTag
          /\ crashed' = TRUE
          /\ UNCHANGED <<chip, current_target, sam_mode, power_mode, result, history>>
       \/ /\ ~(bEasyFraming /\ current_target = NoTag)
          /\ Exchange("target_exchange")
    /\ UNCHANGED <<type, operating_mode, bEasyFraming, role>>

-----------------------------------------------------------------------------
(* nfc_target_init                                                         *)

\* The chip once nfc_target_init has dropped the field.
Ready == Dark(Awake(chip))

\* Setting up or switching the field off fails: the mode is still the old one.
target_init_early(t) ==
    /\ Breaks("target_init", t, {chip, Awake(chip), Ready})
    /\ FailsToWake
    /\ role' = "none"
    /\ bEasyFraming' \in {bEasyFraming, TRUE}
    /\ UNCHANGED <<type, operating_mode, current_target, crashed>>

\* The target cannot be emulated, or TgInitAsTarget fails or is aborted: the
\* device is left in target mode, perhaps visible to readers.
target_init_fail(t) ==
    /\ operating_mode' = "TARGET"
    /\ bEasyFraming' = TRUE
    /\ role' = "none"
    /\ Wakes
    /\ \/ /\ chip' = Ready
          /\ Returns("target_init", "error", t)
          /\ UNCHANGED history
       \/ t \notin RawTag /\ Breaks("target_init", t, {Ready, [Ready EXCEPT !.emulated = t]})
    /\ UNCHANGED <<type, current_target, crashed>>

\* mutant: the activated target is not recorded
target_init_ok_MutNoCurrent(t) ==
    /\ t \notin RawTag
    /\ operating_mode' = "TARGET"
    /\ bEasyFraming' = TRUE
    /\ chip' = [Ready EXCEPT !.emulated = t]
    /\ role' = "target"
    /\ Wakes
    /\ Returns("target_init", "ok", t)
    /\ UNCHANGED <<type, current_target, crashed, history>>

\* A reader has activated the target.
target_init_ok(t) ==
    /\ t \notin RawTag
    /\ operating_mode' = "TARGET"
    /\ bEasyFraming' = TRUE
    /\ chip' = [Ready EXCEPT !.emulated = t]
    /\ current_target' = t
    /\ role' = "target"
    /\ Wakes
    /\ Returns("target_init", "ok", t)
    /\ UNCHANGED <<type, crashed, history>>

\* No reader came in time: pn53x_idle is called, and its result is returned.
target_init_timeout(t) ==
    /\ t \notin RawTag
    /\ bEasyFraming' = TRUE
    /\ \/ /\ chip' = Quiet(Ready)
          /\ operating_mode' = "IDLE"
          /\ current_target' = NoTag
          /\ role' = "target"
          /\ timedOut' = TRUE
          /\ power_mode' = IF type = "PN532" THEN "LOWVBAT" ELSE "NORMAL"
          /\ sam_mode' = AwakeSam
          /\ Returns("target_init", "ok", t)
          /\ UNCHANGED <<failed, released, byHand, drowsy, unnamed, chained>>
       \/ /\ operating_mode' = "TARGET"
          /\ role' = "none"
          /\ Wakes
          /\ Breaks("target_init", t, {Quiet(Ready), [Ready EXCEPT !.emulated = t]})
          /\ UNCHANGED current_target
    /\ UNCHANGED <<type, crashed>>

-----------------------------------------------------------------------------
Next ==
    \/ idle \/ reopen \/ initiator_init \/ init_secure_element
    \/ \E b \in BOOLEAN : activate_field(b) \/ easy_framing(b)
    \/ \E t \in Tag : \/ select_passive_target(t)
                      \/ poll_target(t)
                      \/ select_dep_target(t)
                      \/ poll_dep_target(t)
                      \/ target_is_present(t)
                      \/ target_init_early(t)
                      \/ target_init_fail(t)
                      \/ target_init_ok(t)
                      \/ target_init_timeout(t)
    \/ deselect_target \/ tag_leaves \/ transceive_bytes \/ target_exchange

Spec == Init /\ [][Next]_vars

-----------------------------------------------------------------------------
(* Properties                                                              *)

Returned(op) == result.op = op /\ result.out = "ok"

\* Once nfc_idle has succeeded the device is at rest, after any sequence of
\* calls in which no command failed: no field, no selected target, nothing
\* emulated, and nothing of the old session in the host.
IdleAtRest ==
    /\ TypeOK
    /\ Returned("idle") /\ ~failed /\ ~byHand =>
        /\ ~chip.rf /\ chip.selected = NoTag /\ chip.emulated = NoTag
        /\ current_target = NoTag /\ operating_mode = "IDLE"

\* nfc_initiator_target_is_present answers for the target it was asked about:
\* "present" only if the chip has that target, "released" only if it has not.
PresenceRight ==
    result.op = "is_present" =>
        /\ result.out = "ok" => result.had = result.tag
        /\ result.out = "released" => result.had # result.tag

\* The answer of nfc_initiator_target_is_present is right as long as no command
\* fails and the last selection recorded its target: neither InAutoPoll nor a
\* selection without an nfc_target does.
PresenceWhenListed == ~failed /\ ~unnamed => PresenceRight

\* The process does not end in an exchange, as initiator or as target after
\* nfc_target_init returned success, unless that call had timed out, the reader
\* has released the target, or the other side sent a NAD or a chained frame.
CrashOnlyOrphaned == crashed => timedOut \/ released \/ chained

\* The SAM mode that the host keeps is the chip's, through any sequence of calls
\* in which no command fails and the secure element is not initialised out of
\* low VBat.
SamUnlessFailed == ~failed /\ ~drowsy => chip.sam = sam_mode
=============================================================================
