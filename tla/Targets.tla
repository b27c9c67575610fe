------------------------------- MODULE Targets -------------------------------
(***************************************************************************)
(* Finding targets and becoming one: what the chip answers to              *)
(* InListPassiveTarget, InAutoPoll and TgInitAsTarget, how chips/pn53x.c   *)
(* decodes it, and the loops of nfc.c around it.  Sending, time-outs and   *)
(* modes are in other modules: an exchange here succeeds or fails.         *)
(*                                                                         *)
(* An nfc_target is memory: a function on cells, that a decoder overwrites *)
(* in part.  The listing compares it whole with the ones found before.     *)
(***************************************************************************)
EXTENDS Integers, Sequences, FiniteSets

CONSTANTS Card,        \* [nmt, n: bytes of UID, opt: bytes of the optional part, seed: first byte]
          Odd,         \* those of Card that are not quite what they answer to
          Firmware,    \* answers to GetFirmwareVersion
          Tags,        \* types of chips that pass cascade tags on
          Sizes,       \* sizes of the array given to nfc_initiator_list_passive_targets
          RxLen,       \* size of the buffer given to nfc_target_init
          SizeMod,     \* values of a size_t
          AtsSize,     \* size of the memory for the optional part
          BufSize,     \* sizeof(abtTargetsData)
          MaxFaults    \* bound: failing exchanges

RawType == {"ISO14443BI", "ISO14443B2SR", "ISO14443B2CT"}
ModType == RawType \cup {"ISO14443A", "ISO14443B", "FELICA", "JEWEL", "DEP"}
UidSizes(t) == IF t = "ISO14443A" THEN {4, 7, 10} ELSE IF t \in {"ISO14443B2SR", "FELICA"} THEN {8} ELSE {4}

ASSUME TargetsAssumption ==
    /\ \A f \in Firmware : Len(f) = 2 \/ (Len(f) = 4 /\ f[1] \in {50, 51})
    /\ Sizes \subseteq Nat \ {0}
    /\ RxLen \in Nat /\ SizeMod \in Nat /\ RxLen + 3 < SizeMod
    /\ AtsSize \in Nat /\ BufSize \in Nat /\ AtsSize + 8 <= BufSize /\ MaxFaults \in Nat
    /\ Odd \subseteq Card
    /\ \A c \in Card : c.nmt \in ModType /\ c.n \in UidSizes(c.nmt) /\ c.opt \in 0..AtsSize /\ c.seed \in Nat
    /\ \A c, d \in Card : c.nmt = d.nmt /\ c.n = d.n /\ c.seed = d.seed => c = d      \* UIDs differ

Rate == {0, 106, 212, 424, 847}                 \* 0: NBR_UNDEFINED
Modulation == [nmt : ModType, nbr : Rate]
Undefined == <<"UNDEFINED", 0>>
CT == 136                                       \* the cascade tag, 0x88

VARIABLES chip, support,   \* type of the chip; whether its firmware does ISO14443-B
          field,           \* the cards there
          halted,          \* those that were deselected
          op, nm,          \* the call under way and the modulation it is for
          init,            \* the UID it asks for, cascaded, or <<>>
          size, ant,       \* the nfc_targets the caller has room for (0: pnt is NULL); its array
          nt,              \* the nfc_target that is filled
          res,             \* result: a number, or an error below 0
          found,           \* history: the card that answered last
          got,             \* history: bytes the chip gave, bytes written to the caller; it timed out
          faults, again    \* failing exchanges; history: a halted card answered

target_vars == <<chip, support, field, halted, op, nm, init, size, ant, nt, res, found, got, faults, again>>

None == [nmt |-> "none", n |-> 0, opt |-> 0, seed |-> 0]
EIO == -1
ENOTIMPL == -8
EDEVNOTSUPP == -3
EINVARG == -2
EOVFLOW == -5
ETIMEOUT == -6
ECHIP == -90

-----------------------------------------------------------------------------
(* Tables of chips and modulations                                         *)

\* pn53x_decode_firmware_version: the version of the IC, but two bytes from the
\* PN531, and Sony's ROM; the last byte has a bit for ISO14443-B.
chip_type(f) == IF Len(f) = 2 THEN "PN531" ELSE IF f[1] = 50 THEN "PN532" ELSE IF f[2] = 1 THEN "RCS360" ELSE "PN533"
iso14443b(f) == Len(f) = 4 /\ (f[4] \div 2) % 2 = 1

pn53x_nm_to_pm(m) ==
    CASE m.nmt = "ISO14443A" -> <<"ISO14443A", 106>>
      [] m.nmt = "ISO14443B" /\ m.nbr # 0 -> <<"ISO14443B", m.nbr>>
      [] m.nmt = "JEWEL" -> <<"JEWEL", 106>>
      [] m.nmt = "FELICA" /\ m.nbr \in {212, 424} -> <<"FELICA", m.nbr>>
      [] OTHER -> Undefined

pn53x_nm_to_ptt(m) ==
    CASE m.nmt = "ISO14443A" -> <<"MIFARE", 106>>
      [] m.nmt = "ISO14443B" /\ m.nbr = 106 -> <<"ISO14443_4B", 106>>
      [] m.nmt = "JEWEL" -> <<"JEWEL", 106>>
      [] m.nmt = "FELICA" /\ m.nbr \in {212, 424} -> <<"FELICA", m.nbr>>
      [] OTHER -> Undefined

pn53x_ptt_to_nm(t) ==
    CASE t[1] \in {"ISO14443_4B", "ISO14443_4B_TCL"} -> [nmt |-> "ISO14443B", nbr |-> 106]
      [] t[1] = "JEWEL" -> [nmt |-> "JEWEL", nbr |-> 106]
      [] t[1] = "FELICA" -> [nmt |-> "FELICA", nbr |-> t[2]]
      [] t[1] \in {"DEP_PASSIVE", "DEP_ACTIVE"} -> [nmt |-> "DEP", nbr |-> t[2]]
      [] OTHER -> [nmt |-> "ISO14443A", nbr |-> 106]

\* mutant: the support byte is not looked at
supported_as_initiator_MutAll(c, b) == {"ISO14443A", "FELICA", "ISO14443B", "DEP"} \cup (IF c # "PN531" THEN {"JEWEL"} ELSE {})

\* What pn53x_init collects for pn53x_get_supported_modulation
supported_as_initiator(c, b) ==
    {"ISO14443A", "FELICA", "DEP"} \cup (IF b THEN {"ISO14443B"} ELSE {})
                                   \cup (IF c # "PN531" THEN {"JEWEL"} ELSE {})

pn53x_get_supported_baud_rate(c, nmt) ==
    CASE nmt = "FELICA" -> {424, 212}
      [] nmt \in {"ISO14443A", "JEWEL"} -> {106}
      [] nmt \in RawType \cup {"ISO14443B"} -> IF c = "PN533" THEN {847, 424, 212, 106} ELSE {106}
      [] OTHER -> {424, 212, 106}

\* The modulations that pn53x_InListPassiveTarget does not even try
Refused(c, b, pm) ==
    \/ pm = Undefined
    \/ pm[1] = "ISO14443B" /\ (~b \/ (pm[2] # 106 /\ c # "PN533"))
    \/ pm[1] = "JEWEL" /\ c = "PN531"

-----------------------------------------------------------------------------
(* The answers of the cards, and pn53x_decode_target_data                  *)

Bytes(c, k) == [i \in 1..k |-> c.seed + i - 1]
Uid(c) == Bytes(c, c.n)

\* mutant: the second tag is put after four bytes of the UID
iso14443_cascade_uid_MutFour(u) ==
    CASE Len(u) = 7 -> <<CT>> \o u
      [] Len(u) = 10 -> <<CT>> \o SubSeq(u, 1, 4) \o <<CT>> \o SubSeq(u, 5, 10)
      [] OTHER -> u

iso14443_cascade_uid(u) ==
    CASE Len(u) = 7 -> <<CT>> \o u
      [] Len(u) = 10 -> <<CT>> \o SubSeq(u, 1, 3) \o <<CT>> \o SubSeq(u, 4, 10)
      [] OTHER -> u

\* The UID as it goes over the air, cascade level by level
Cascaded(u) ==
    CASE Len(u) = 4 -> u
      [] Len(u) = 7 -> <<CT, u[1], u[2], u[3], u[4], u[5], u[6], u[7]>>
      [] OTHER -> <<CT, u[1], u[2], u[3], CT, u[4], u[5], u[6], u[7], u[8], u[9], u[10]>>

\* What the chip passes on.  The PN531 gives the two bytes of the ATQA swapped.
\* An ISO14443BI card with an ATR is of the long type.
Answer(ic, c) ==
    LET u == IF ic \in Tags THEN Cascaded(Uid(c)) ELSE Uid(c) IN
    CASE c.nmt = "ISO14443A" -> <<1>> \o (IF ic = "PN531" THEN <<68, 0>> ELSE <<0, 68>>) \o <<32, Len(u)>> \o u
                                \o (IF c.opt = 0 THEN <<>> ELSE <<c.opt + 1>> \o Bytes(c, c.opt))
      [] c.nmt = "ISO14443B" -> <<1, 80>> \o Bytes(c, 11) \o (IF c.opt = 0 THEN <<0>> ELSE <<1, c.seed>>)
      [] c.nmt = "ISO14443BI" -> <<c.seed, IF c \in Odd THEN 0 ELSE 7>> \o Bytes(c, 4)
                                 \o (IF c.opt = 0 THEN <<0>> ELSE <<128, 64>> \o Bytes(c, c.opt))
      [] c.nmt = "ISO14443B2SR" -> Bytes(c, 8)
      [] c.nmt = "ISO14443B2CT" -> SubSeq(Uid(c), 1, 2) \o <<80, 81>> \o SubSeq(Uid(c), 3, 4)
      [] c.nmt = "FELICA" -> <<1, 18 + c.opt, 1>> \o Bytes(c, 8) \o Bytes(c, 8) \o Bytes(c, c.opt)
      [] OTHER -> <<1, 0, 12>> \o Bytes(c, 4)

\* "Strip CT (Cascade Tag) to retrieve and store the _real_ UID"
Tagged(u) == u[1] = CT /\ (Len(u) = 8 \/ (Len(u) = 12 /\ u[5] = CT))
szUidLen(u) == IF ~Tagged(u) THEN Len(u) ELSE IF Len(u) = 8 THEN 7 ELSE 10

\* What is left in abtUid[10] when the UID was copied with its tags, szAtsLen was
\* assigned and the bytes between the tags were moved.  The structures are packed:
\* bytes 11 and 12 were copied into szAtsLen, and are moved from there.
abtUid(u, szAtsLen) ==
    IF ~Tagged(u) THEN u
    ELSE IF Len(u) = 8 THEN SubSeq(u, 2, 8) \o <<u[8]>>
    ELSE SubSeq(u, 2, 4) \o SubSeq(u, 6, 10) \o <<szAtsLen, 0>>

\* What a decoder writes, part by part: nothing.
Nothing == [uid |-> <<>>, opt |-> <<>>, atqa |-> <<>>, sak |-> <<>>, len |-> <<>>]
Stale == -2                                     \* a byte nobody wrote

\* The cells each decoder writes.  An optional part that is absent leaves its
\* cells alone.  The ATR of an ISO14443BI card is copied to the end of the buffer it
\* was received in: the length of the answer is not kept.  The application data,
\* protocol info and padding, always written whole, are left out.
decode(ic, r, t) ==
    CASE t = "ISO14443A" ->
           LET u == SubSeq(r, 6, 5 + r[5])
               ats == IF Len(r) > r[5] + 5 THEN SubSeq(r, r[5] + 7, r[5] + 5 + r[r[5] + 6]) ELSE <<>>
           IN [uid  |-> abtUid(u, Len(ats)), opt |-> ats,
               atqa |-> IF ic = "PN531" THEN <<r[3], r[2]>> ELSE <<r[2], r[3]>>,
               sak  |-> <<r[4]>>, len |-> <<szUidLen(u), Len(ats)>>]
      [] t = "ISO14443B" -> [Nothing EXCEPT !.uid = SubSeq(r, 3, 6), !.opt = IF r[14] # 0 THEN <<r[15]>> ELSE <<>>]
      [] t = "ISO14443BI" ->
           IF r[7] < 128 THEN [Nothing EXCEPT !.uid = SubSeq(r, 3, 6), !.sak = <<r[7]>>]
           ELSE IF (r[8] \div 64) % 2 = 0 THEN [Nothing EXCEPT !.uid = SubSeq(r, 3, 6), !.sak = <<r[7], r[8]>>]
           ELSE [Nothing EXCEPT !.uid = SubSeq(r, 3, 6), !.sak = <<r[7], r[8]>>, !.len = <<BufSize - 8>>,
                                !.opt = [i \in 1 .. BufSize - 8 |-> IF i + 8 <= Len(r) THEN r[i + 8] ELSE Stale]]
      [] t = "ISO14443B2SR" -> [Nothing EXCEPT !.uid = SubSeq(r, 1, 8)]
      [] t = "ISO14443B2CT" -> [Nothing EXCEPT !.uid = SubSeq(r, 1, 2) \o SubSeq(r, 5, 6), !.sak = SubSeq(r, 3, 4)]
      [] t = "FELICA" -> [Nothing EXCEPT !.uid = SubSeq(r, 4, 11), !.len = <<r[2]>>, !.sak = <<r[3]>>,
                                         !.opt = IF r[2] > 18 THEN SubSeq(r, 20, 21) ELSE <<>>]
      [] OTHER -> [Nothing EXCEPT !.uid = SubSeq(r, 4, 7), !.atqa = SubSeq(r, 2, 3)]

DecodeFails(r, t) == t = "ISO14443BI" /\ r[2] # 7

Cells == ({"uid"} \X (1..10)) \cup ({"opt"} \X (1..AtsSize)) \cup ({"atqa", "sak", "len"} \X (1..2))
Clean == [x \in Cells |-> -1]
Rubbish == [x \in Cells |-> Stale]
Decoded(ic, m, r, t) ==
    LET new == decode(ic, r, t) IN [x \in Cells |-> IF x[2] \in DOMAIN new[x[1]] THEN new[x[1]][x[2]] ELSE m[x]]

\* What a caller reads of an nfc_target
UidIn(m, t) ==
    LET k == IF t = "ISO14443A" THEN m[<<"len", 1>>] ELSE IF t \in {"ISO14443B2SR", "FELICA"} THEN 8 ELSE 4
    IN [i \in 1..k |-> m[<<"uid", i>>]]

\* How much of it is the card's: of a UID of ten bytes with tags the first eight;
\* of an ATR of ISO14443BI all, but szAtrLen is what the buffer holds.
Known(ic, c) == IF ic \in Tags /\ c.nmt = "ISO14443A" /\ c.n = 10 THEN 8 ELSE c.n
Shows(ic, m, c) ==
    /\ Len(UidIn(m, c.nmt)) = c.n /\ \A i \in 1..Known(ic, c) : UidIn(m, c.nmt)[i] = Uid(c)[i]
    /\ c.nmt = "ISO14443A" => /\ m[<<"len", 2>>] = c.opt /\ \A i \in 1..c.opt : m[<<"opt", i>>] = Bytes(c, c.opt)[i]
                              /\ <<m[<<"atqa", 1>>], m[<<"atqa", 2>>], m[<<"sak", 1>>]>> = <<0, 68, 32>>
    /\ c.nmt = "ISO14443B" /\ c.opt > 0 => m[<<"opt", 1>>] = c.seed
    /\ c.nmt = "ISO14443BI" /\ c.opt > 0 => /\ m[<<"len", 1>>] = BufSize - 8
                                            /\ \A i \in 1..c.opt : m[<<"opt", i>>] = Bytes(c, c.opt)[i]

-----------------------------------------------------------------------------
(* Calls                                                                   *)

NoBytesYet == [chip |-> 0, written |-> 0, late |-> FALSE]

TargetsInit ==
    /\ \E f \in Firmware : chip = chip_type(f) /\ support = iso14443b(f)
    /\ field \in SUBSET Card /\ Cardinality(field) <= 3
    /\ \A c, d \in field : c.nmt = d.nmt
    /\ halted = {} /\ op = "idle" /\ nm = [nmt |-> "DEP", nbr |-> 0] /\ init = <<>> /\ size = 0
    /\ ant = <<>> /\ nt = Clean /\ res = 0 /\ found = None
    /\ got = NoBytesYet /\ faults = 0 /\ again = FALSE

Fault == faults < MaxFaults /\ faults' = faults + 1
Setting == <<chip, support, field>>

\* nfc_initiator_select_passive_target: a UID asked for is cascaded; the caller may
\* not want the nfc_target (pnt is NULL).
select_passive_target(m, u, n) ==
    /\ op = "idle"
    /\ op' = "select" /\ nm' = m /\ size' = n
    /\ init' = IF m.nmt = "ISO14443A" THEN iso14443_cascade_uid(u) ELSE u
    /\ nt' = Clean /\ ant' = <<>> /\ found' = None
    /\ UNCHANGED <<Setting, halted, res, got, faults, again>>

\* nfc_initiator_list_passive_targets up to its loop
list_passive_targets(m, n) ==
    /\ op = "idle"
    /\ nm' = m /\ init' = <<>> /\ size' = n /\ ant' = <<>> /\ nt' = Clean /\ found' = None /\ again' = FALSE
    /\ \/ op' = "list" /\ UNCHANGED <<res, faults>>
       \/ Fault /\ res' = EIO /\ op' = "selected"        \* NP_INFINITE_SELECT
    /\ UNCHANGED <<Setting, halted, got>>

\* The cards that may answer.  One that was halted does if it lost the field.
Answers == {c \in field : /\ c.nmt = nm.nmt
                          /\ init # <<>> /\ c.nmt = "ISO14443A" => init = Cascaded(Uid(c))}

Selecting == op \in {"select", "list", "poll"}
Selected(r) ==
    /\ res' = r
    /\ op' = IF op = "list" THEN "listing" ELSE IF op = "poll" THEN "polling" ELSE "selected"

\* The chip waits for a card while it is polled, and the host for the chip.
Silence == IF op = "poll" THEN {0, ETIMEOUT} ELSE {0}
Failure == IF op = "poll" THEN {EIO, ETIMEOUT} ELSE {EIO}

\* pn53x_initiator_select_passive_target_ext, with InListPassiveTarget.  On a PN532
\* whose serial driver was aborted the command succeeds with no byte: the number of
\* targets, and what is decoded, is what the stack held (if it does not crash).
select_native ==
    /\ Selecting /\ nm.nmt \notin RawType
    /\ LET pm == pn53x_nm_to_pm(nm) IN
         \/ /\ Refused(chip, support, pm)
            /\ Selected(IF pm = Undefined THEN EINVARG ELSE EDEVNOTSUPP) /\ found' = None
            /\ UNCHANGED <<nt, faults, again>>
         \/ /\ ~Refused(chip, support, pm)
            /\ \/ \E c \in Answers :
                    /\ nt' = IF size = 0 THEN nt ELSE Decoded(chip, nt, Answer(chip, c), nm.nmt)
                    /\ found' = c
                    /\ Selected(1) /\ again' = (again \/ c \in halted) /\ UNCHANGED faults
               \/ /\ \A c \in Answers : c \in halted
                  /\ \E r \in Silence : Selected(r)
                  /\ found' = None
                  /\ UNCHANGED <<nt, faults, again>>
               \/ /\ Fault /\ found' = None
                  /\ \E r \in Failure : Selected(r)
                  /\ UNCHANGED <<nt, again>>
               \/ /\ Fault /\ found' = None /\ chip = "PN532"
                  /\ \/ Selected(0) /\ UNCHANGED nt
                     \/ Selected(1) /\ nt' = IF size = 0 THEN nt ELSE Rubbish
                  /\ UNCHANGED again
    /\ UNCHANGED <<Setting, halted, nm, init, size, ant, got>>

\* The same for the ISO14443-B' family, "by hand".  The first byte of the answer
\* is returned.  When the last read of an ISO14443B2CT fails, 1 is: the
\* comparison is assigned; 0 if its product code was not of two bytes.
select_raw ==
    /\ Selecting /\ nm.nmt \in RawType
    /\ \/ chip = "RCS360" /\ Selected(ENOTIMPL) /\ found' = None /\ UNCHANGED <<nt, faults>>
       \/ /\ chip # "RCS360"
          /\ \/ \E c \in Answers :
                  LET r == Answer(chip, c)
                      fails == size > 0 /\ DecodeFails(r, nm.nmt)
                      short == nm.nmt = "ISO14443B2CT" /\ c \in Odd
                      mem == IF size = 0 THEN nt ELSE Decoded(chip, nt, r, nm.nmt)
                  IN
                  /\ found' = c
                  /\ \/ short /\ Selected(0) /\ UNCHANGED <<nt, faults>>
                     \/ fails /\ Selected(ECHIP) /\ UNCHANGED <<nt, faults>>
                     \/ ~fails /\ ~short /\ nt' = mem /\ Selected(r[1]) /\ UNCHANGED faults
                     \/ nm.nmt = "ISO14443B2CT" /\ ~short /\ Fault /\ Selected(1) /\ UNCHANGED nt
                     \/ nm.nmt = "ISO14443BI" /\ ~fails /\ Fault /\ nt' = mem /\ Selected(EIO)
             \/ /\ Answers = {} \/ faults < MaxFaults
                /\ faults' = IF Answers = {} THEN faults ELSE faults + 1
                /\ \E r \in Failure : Selected(r)
                /\ found' = None /\ UNCHANGED nt
    /\ UNCHANGED <<Setting, halted, nm, init, size, ant, got, again>>

\* mutant: only the last target listed is compared
Seen_MutLast == ant # <<>> /\ ant[Len(ant)].mem = nt

\* "Check if we've already seen this tag"
Seen == \E i \in 1..Len(ant) : ant[i].mem = nt

\* The body of the loop.  InDeselect may fail, which nobody notices.
list_step ==
    /\ op = "listing"
    /\ IF res <= 0 \/ Seen THEN op' = "listed" /\ UNCHANGED <<ant, halted, faults>>
       ELSE /\ ant' = Append(ant, [mem |-> nt, card |-> found])
            /\ IF size = Len(ant') THEN op' = "listed" /\ UNCHANGED <<halted, faults>>
               ELSE /\ op' = IF nm.nmt \in RawType \cup {"FELICA", "JEWEL"} THEN "listed" ELSE "list"
                    /\ \/ halted' = (IF op' = "list" THEN halted \cup ({found} \cap field) ELSE halted) /\ UNCHANGED faults
                       \/ Fault /\ UNCHANGED halted
    /\ UNCHANGED <<Setting, nm, init, size, nt, res, found, got, again>>

\* pn53x_initiator_poll_target on a PN532, with pn53x_InAutoPoll: the card has a type,
\* for which there is a modulation.  An answer without a byte counts no target: an error.
auto_poll(m) ==
    /\ op = "idle" /\ chip = "PN532"
    /\ init' = <<>> /\ nt' = Clean /\ size' = 1
    /\ LET ptt == pn53x_nm_to_ptt(m) IN
         \/ ptt = Undefined /\ res' = EINVARG /\ op' = "polled" /\ nm' = m /\ found' = None /\ UNCHANGED faults
         \/ /\ ptt # Undefined
            /\ \/ \E c \in field :
                    /\ c.nmt = m.nmt
                    /\ nm' = pn53x_ptt_to_nm(ptt) /\ op' = "polled" /\ found' = c
                    /\ res' \in {1, 2} /\ UNCHANGED faults
               \/ Fault /\ res' \in {EIO, ECHIP} /\ nm' = m /\ op' = "polled" /\ found' = None
    /\ UNCHANGED <<Setting, halted, ant, got, again>>
decode_polled ==
    /\ op = "polled"
    /\ op' = "selected"
    /\ nt' = IF res > 0 THEN Decoded(chip, nt, Answer(chip, found), nm.nmt) ELSE nt
    /\ UNCHANGED <<Setting, halted, nm, init, size, ant, res, found, got, faults, again>>

\* The other chips select again and again.
poll(m) ==
    /\ op = "idle" /\ chip # "PN532"
    /\ op' = "poll" /\ nm' = m /\ init' = <<>> /\ nt' = Clean /\ size' = 1 /\ found' = None
    /\ UNCHANGED <<Setting, halted, ant, res, got, faults, again>>

\* One round ended: a time-out starts another, or was the last.  What is returned of
\* an error is pnd->last_error, where pn53x_decode_target_data leaves none.
poll_step ==
    /\ op = "polling"
    /\ \/ res # ETIMEOUT /\ op' = "selected" /\ res' = IF res = ECHIP THEN 0 ELSE res
       \/ res = ETIMEOUT /\ op' = "selected" /\ res' = 0
       \/ res = ETIMEOUT /\ op' = "poll" /\ UNCHANGED res
    /\ UNCHANGED <<Setting, halted, nm, init, size, ant, nt, found, got, faults, again>>

-----------------------------------------------------------------------------
(* Becoming a target                                                       *)

\* mutant: the length is not checked
Overflows_MutNever(n) == FALSE

\* (szRx - 1) > szRxLen, after szRx -= 1
Overflows(n) == (n - 2 + SizeMod) % SizeMod > RxLen

\* The loop of pn53x_target_init over pn53x_TgInitAsTarget: the chip gives a mode
\* byte and what the other device sent; after an abort on the serial line,
\* nothing.  Another kind of activation makes it wait again; a
\* PN532 that answered the RATS itself has nothing to pass on.
target_init(n, right) ==
    /\ op \in {"idle", "init"}
    /\ got' = [chip |-> n, written |-> IF Overflows(n) THEN 0 ELSE (n - 1 + SizeMod) % SizeMod, late |-> FALSE]
    /\ LET k == got'.written IN
         \/ /\ Overflows(n) /\ res' = EOVFLOW /\ op' = "inited"
         \/ /\ ~Overflows(n)
            /\ IF ~right THEN op' = "init" /\ UNCHANGED res
               ELSE /\ op' = "inited"
                    /\ res' \in IF chip = "PN532" THEN {k, 0} ELSE {k}
    /\ UNCHANGED <<Setting, halted, nm, init, size, ant, nt, found, faults, again>>

\* TgInitAsTarget fails.  On a time-out the result is that of pn53x_idle.
target_init_fails(late) ==
    /\ op \in {"idle", "init"}
    /\ op' = "inited" /\ got' = [NoBytesYet EXCEPT !.late = late]
    /\ \/ late /\ res' = 0 /\ UNCHANGED faults
       \/ Fault /\ res' = EIO
    /\ UNCHANGED <<Setting, halted, nm, init, size, ant, nt, found, again>>

\* The call returns, and what it had on its stack is gone.
return ==
    /\ op \in {"selected", "listed", "inited"}
    /\ op' = "idle" /\ nm' = [nmt |-> "DEP", nbr |-> 0] /\ init' = <<>> /\ size' = 0
    /\ ant' = <<>> /\ nt' = Clean /\ res' = 0 /\ found' = None
    /\ got' = NoBytesYet /\ again' = FALSE
    /\ UNCHANGED <<Setting, halted, faults>>

TargetsNext ==
    \/ \E m \in {x \in Modulation : \A c \in field : c.nmt = x.nmt} :
                             \/ \E n \in Sizes : list_passive_targets(m, n)
                             \/ \E u \in {<<>>} \cup {Uid(c) : c \in {x \in field : x.nmt = "ISO14443A"}}, n \in {0, 1} :
                                  select_passive_target(m, u, n)
                             \/ auto_poll(m) \/ poll(m)
    \/ select_native \/ select_raw \/ list_step \/ decode_polled \/ poll_step
    \/ \E n \in 0..RxLen + 3, b \in BOOLEAN : target_init(n, b)
    \/ \E b \in BOOLEAN : target_init_fails(b)
    \/ return

TargetsSpec == TargetsInit /\ [][TargetsNext]_target_vars

-----------------------------------------------------------------------------
(* Properties                                                              *)

TargetsTypeOK ==
    /\ op \in {"idle", "select", "list", "listing", "selected", "listed", "polled", "poll", "polling", "init", "inited"}
    /\ halted \subseteq field /\ found \in field \cup {None} /\ nm \in Modulation
    /\ DOMAIN nt = Cells

Lost == nm.nmt = "ISO14443B2CT" /\ faults > 0   \* the last read of select_raw failed

Unread == chip = "PN532" /\ faults > 0          \* an aborted command "succeeded"

\* A selection that returns a number above 0 has found a card and filled the
\* caller's nfc_target, if there is one, with what that card said, but for a PN532
\* that was aborted; the card is the one asked for.  Only a card of the
\* ISO14443-B' family can have answered and not be counted: one whose first byte is
\* 0, or that is not what it should be.
FoundIsDecoded ==
    op \in {"selected", "listing"} =>
      /\ res > 0 => \/ found \in field /\ (size = 0 \/ Shows(chip, nt, found) \/ Lost)
                    \/ found = None /\ Unread
      /\ res <= 0 /\ found # None => nm.nmt \in RawType /\ (found.seed = 0 \/ found \in Odd \/ faults > 0)
      /\ init # <<>> /\ nm.nmt = "ISO14443A" =>
            IF found = None THEN faults > 0 \/ halted # {} ELSE init = Cascaded(Uid(found))

\* The UID of a card is "the _real_ UID", the cascade tags stripped.  Not so for ten
\* bytes: its last two were overwritten by szAtsLen.
RealUid ==
    op = "selected" /\ res > 0 /\ nm.nmt = "ISO14443A" /\ size > 0 /\ found # None
      => UidIn(nt, "ISO14443A") = Uid(found)

Alike(c, d) == c.n = d.n /\ c.opt = d.opt

\* nfc_initiator_list_passive_targets fills the array and no more, with cards that
\* are there (but for the one entry of a PN532 that was aborted); a card that
\* answers again is listed twice only when another layout was decoded over it in
\* between; and when none does, and nothing fails, no card that can be deselected is
\* missed.
ListRight ==
    TargetsTypeOK /\ (op = "listed" =>
      LET listed == {ant[i].card : i \in DOMAIN ant} IN
        /\ Len(ant) <= size /\ listed \subseteq field \cup {None}
        /\ \A i \in DOMAIN ant : \/ ant[i].card \in field /\ (Shows(chip, ant[i].mem, ant[i].card) \/ Lost)
                                 \/ ant[i].card = None /\ Unread
        /\ \A i, j \in DOMAIN ant : i < j /\ ant[i].card = ant[j].card =>
               (again \/ faults > 0) /\ ant[i].card # None /\ \E c \in listed : ~Alike(c, ant[i].card)
        /\ /\ nm.nmt \in {"ISO14443A", "ISO14443B"} /\ ~Refused(chip, support, pn53x_nm_to_pm(nm))
           /\ Len(ant) < size /\ ~again /\ faults = 0
           => \A c \in field : c.nmt = nm.nmt => c \in listed \cup halted)

\* What pn53x_get_supported_modulation and _baud_rate offer, the chip is asked for:
\* pn53x_InListPassiveTarget refuses none of it, and what InAutoPoll finds has the
\* modulation it was polled for, where the PN532 can poll for it.
OfferedWorks ==
    \A t \in supported_as_initiator(chip, support) \ {"DEP"} :
      \A r \in pn53x_get_supported_baud_rate(chip, t) :
        LET m == [nmt |-> t, nbr |-> r] IN
          /\ ~Refused(chip, support, pn53x_nm_to_pm(m))
          /\ pn53x_nm_to_ptt(m) # Undefined => pn53x_ptt_to_nm(pn53x_nm_to_ptt(m)) = m
          /\ chip = "PN532" => pn53x_nm_to_ptt(m) # Undefined

\* nfc_target_init gives the bytes the other device sent, at most one more than the
\* buffer holds; no byte of it is there after a time-out, which is told as 0, nor
\* after an abort, which is told as an error.
InitFits ==
    /\ got.written <= RxLen + 1
    /\ op = "inited" /\ res >= 0 => IF got.late THEN res = 0 /\ got.chip = 0 ELSE got.chip > 1 /\ res \in {0, got.chip - 1}
=============================================================================
