----------------------------- MODULE Acr122Proofs -----------------------------
(***************************************************************************)
(* Proofs about the ACR122 family.  A reader that a call left behind       *)
(* answers the next one with an old packet: what is bounded here is how    *)
(* many such answers there can be, and until when there are none.          *)
(***************************************************************************)
EXTENDS Acr122, TLAPS

-----------------------------------------------------------------------------
(* The inductive invariant                                                 *)

Packets == [kind : {"reply", "more", "junk"}, call : Call \cup {Nil}]

\* An abort or a failed read writes a second message of the same call, once.
Bounds ==
    /\ kind \in {"ACR122", "TOUCHATAG", "T0", "T1"}
    /\ in \in Seq(Packets)
    /\ calls \in 0..MaxCalls /\ ids \in 0..2 * calls
    /\ pc \in {"pass", "read", "more", "raw"} => ids \in 1..2 * calls - 1
    /\ faults \in Nat /\ unread \in Nat
    /\ failed \in BOOLEAN

CallOK ==
    /\ stage = "closed" => pc = "idle"
    /\ pc # "idle" => me # Nil /\ last_command = me.cmd
    /\ pc = "stop" => then \in {"EIO", "EOPABORTED"}
    /\ pc = "more" => in # <<>>

\* Over PC/SC the answer is taken before the send returns.
PcscOK ==
    ~Usb => /\ stage \in {"closed", "init", "open"} /\ pc \in {"idle", "read"}
            /\ in = <<>> /\ run = Nil
            /\ pc = "read" => held = me

\* What is left behind grows by one when a call writes its message, and the call
\* reads one packet before it gives up, or one has not come in a whole pass.
BehindOK ==
    /\ Behind <= (IF pc = "idle" THEN 1 ELSE 2) + faults + unread
    /\ pc = "pass" /\ remaining_time # timeout => Behind <= 1

Single(p) == Len(in) = 1 /\ in[1] = p

\* Until a call fails, the one thing under way is the answer of this call.
OwnAnswer ==
    Usb /\ ~failed /\ stage # "closed" =>
      /\ pc = "idle" => in = <<>> /\ run = Nil
      /\ pc \in {"raw", "pass", "read"} =>
           \/ in = <<>> /\ run = me
           \/ run = Nil /\ Single(Packet("reply", me))
           \/ run = Nil /\ Single(Packet("more", me)) /\ held = me
      /\ pc = "more" => run = Nil /\ Single(Packet("reply", me))

OwnResult == (~failed \/ ~Usb) /\ result.outcome = "payload" => result.from = result.call

AcrInv == TypeOK /\ Bounds /\ CallOK /\ PcscOK /\ BehindOK /\ OwnAnswer /\ OwnResult

-----------------------------------------------------------------------------
(* Sequences of packets, and numbers                                       *)

Left == Len(in)

LEMMA NoPackets == <<>> \in Seq(Packets) /\ FALSE \in BOOLEAN
  <1>1. <<>> \in Seq(Packets)
    OBVIOUS
  <1>2. FALSE \in BOOLEAN
    OBVIOUS
  <1>3. QED
    BY <1>1, <1>2

LEMMA EmptyFacts ==
    ASSUME NEW s \in Seq(Packets), Len(s) = 0
    PROVE  s = <<>>
  OBVIOUS

LEMMA TailFacts ==
    ASSUME NEW s \in Seq(Packets), s # <<>>
    PROVE  /\ Tail(s) \in Seq(Packets) /\ Head(s) = s[1] /\ s[1] \in Packets
           /\ Len(s) \in Nat /\ Len(s) >= 1 /\ Len(Tail(s)) = Len(s) - 1
           /\ Len(s) = 1 => Tail(s) = <<>>
  <1>1. Tail(s) \in Seq(Packets) /\ Head(s) = s[1] /\ Len(s) \in Nat /\ Len(s) >= 1
    OBVIOUS
  <1>2. s[1] \in Packets
    BY <1>1
  <1>3. Len(Tail(s)) = Len(s) - 1
    OBVIOUS
  <1>4. ASSUME Len(s) = 1 PROVE Tail(s) = <<>>
    <2>1. Len(Tail(s)) = 0
      BY <1>3, <1>4
    <2>2. QED
      BY <1>1, <2>1, EmptyFacts
  <1>5. QED
    BY <1>1, <1>2, <1>3, <1>4

LEMMA AppendFacts ==
    ASSUME NEW s \in Seq(Packets), NEW p \in Packets
    PROVE  /\ Append(s, p) \in Seq(Packets) /\ Append(s, p) # <<>>
           /\ Len(s) \in Nat /\ Len(Append(s, p)) = Len(s) + 1
           /\ s = <<>> => Append(s, p)[1] = p /\ Len(Append(s, p)) = 1
  OBVIOUS

\* One more message than before, and one more packet that may never be read
LEMMA OneMore ==
    ASSUME NEW l \in Nat, NEW f \in Nat, NEW g \in Nat, NEW u \in Nat, l <= 2 + f + u, l = 0 \/ g = f + 1
    PROVE  l + 1 <= 2 + g + u
  OBVIOUS

LEMMA AtMostOne ==
    ASSUME NEW b \in 0..1, NEW f \in Nat, NEW u \in Nat
    PROVE  b <= 2 + f + u
  OBVIOUS

LEMMA LeftFacts ==
    ASSUME Bounds
    PROVE  /\ Left \in Nat /\ (in = <<>> <=> Left = 0)
           /\ Behind = Left + (IF run = Nil THEN 0 ELSE 1)
  BY DEF Bounds, Left, Behind

LEMMA PacketFacts ==
    ASSUME NEW k \in {"reply", "more", "junk"}, NEW c \in Call \cup {Nil}
    PROVE  Packet(k, c) \in Packets /\ Packet(k, c).kind = k /\ Packet(k, c).call = c
  BY DEF Packet, Packets

LEMMA NewCall ==
    ASSUME NEW c \in Cmd, NEW n \in 1..2 * MaxCalls
    PROVE  [cmd |-> c, id |-> n] \in Call /\ [cmd |-> c, id |-> n] # Nil /\ [cmd |-> c, id |-> n].cmd = c
  BY DEF Call, Nil

LEMMA TimeoutFacts ==
    ASSUME TypeOK
    PROVE  timeout \in Nat /\ remaining_time \in 0..timeout
  BY Acr122Assumption DEF TypeOK, CommandTimeout

-----------------------------------------------------------------------------
(* Initial state, opening and closing                                      *)

LEMMA InitAcr == Init => AcrInv
  <1> SUFFICES ASSUME Init PROVE AcrInv
    OBVIOUS
  <1>1. TypeOK
    BY DEF Init, TypeOK, Outcome
  <1>2. Bounds
    <2>1. in \in Seq(Packets) /\ failed \in BOOLEAN
      BY NoPackets, Zenon DEF Init
    <2>2. calls \in 0..MaxCalls /\ ids \in 0..2 * calls /\ faults \in Nat /\ unread \in Nat
      BY Acr122Assumption DEF Init
    <2>3. QED
      BY <2>1, <2>2, Acr122Assumption DEF Init, Bounds
  <1>3. CallOK /\ PcscOK
    BY DEF Init, CallOK, PcscOK
  <1>4. BehindOK
    BY DEF Init, BehindOK, Behind
  <1>5. OwnAnswer /\ OwnResult
    BY DEF Init, OwnAnswer, OwnResult
  <1>6. QED
    BY <1>1, <1>2, <1>3, <1>4, <1>5 DEF AcrInv

LEMMA OpenPreserves ==
    ASSUME AcrInv, open
    PROVE  AcrInv'
  <1>1. pc = "idle" /\ UNCHANGED <<kind, pc, me, timeout, last_command, remaining_time, then, calls, ids, faults, unread>>
    BY DEF AcrInv, CallOK, open, call, counters
  <1>2. in' = <<>> /\ run' = Nil /\ held' = Nil /\ failed' = FALSE /\ result'.outcome = "none"
    BY DEF open
  <1>3. stage' = IF Usb THEN "power" ELSE "init"
    BY DEF open
  <1>4. TypeOK'
    BY <1>1, <1>2, <1>3 DEF AcrInv, TypeOK, Outcome
  <1>5. Bounds'
    <2>1. in' \in Seq(Packets) /\ failed' \in BOOLEAN
      BY <1>2, NoPackets, Zenon
    <2>2. QED
      BY <1>1, <2>1 DEF AcrInv, Bounds
  <1>6. CallOK' /\ PcscOK'
    BY <1>1, <1>2, <1>3 DEF CallOK, PcscOK, Usb
  <1>7. BehindOK'
    BY <1>1, <1>2, <1>5 DEF BehindOK, Behind, Bounds
  <1>8. OwnAnswer' /\ OwnResult'
    BY <1>1, <1>2 DEF OwnAnswer, OwnResult
  <1>9. QED
    BY <1>4, <1>5, <1>6, <1>7, <1>8 DEF AcrInv

LEMMA ClosePreserves ==
    ASSUME AcrInv, close
    PROVE  AcrInv'
  <1>1. /\ pc = "idle" /\ stage = "open" /\ stage' = IF Usb THEN "stop" ELSE "closed"
        /\ UNCHANGED <<kind, pc, me, timeout, last_command, remaining_time, then, result, failed, in, run, held, calls, ids, faults, unread>>
    BY DEF close, call, counters, reader
  <1>2. TypeOK' /\ Bounds'
    BY <1>1 DEF AcrInv, TypeOK, Bounds
  <1>3. CallOK' /\ PcscOK'
    BY <1>1 DEF AcrInv, CallOK, PcscOK, Usb
  <1>4. BehindOK'
    BY <1>1 DEF AcrInv, BehindOK, Behind
  <1>5. OwnAnswer' /\ OwnResult'
    BY <1>1 DEF AcrInv, OwnAnswer, OwnResult, Usb
  <1>6. QED
    BY <1>2, <1>3, <1>4, <1>5 DEF AcrInv

\* abort_command only raises the flag, which the invariant does not mention.
LEMMA AbortPreserves ==
    ASSUME AcrInv, abort_command \/ UNCHANGED vars
    PROVE  AcrInv'
  <1>1. UNCHANGED <<kind, stage, pc, me, timeout, last_command, remaining_time, then, result, failed, in, run, held, calls, ids, faults, unread>>
    BY DEF abort_command, vars, call, counters, reader
  <1>2. TypeOK' /\ Bounds'
    BY <1>1 DEF AcrInv, TypeOK, Bounds
  <1>3. CallOK' /\ PcscOK'
    BY <1>1 DEF AcrInv, CallOK, PcscOK, Usb
  <1>4. BehindOK'
    BY <1>1 DEF AcrInv, BehindOK, Behind
  <1>5. OwnAnswer' /\ OwnResult'
    BY <1>1 DEF AcrInv, OwnAnswer, OwnResult, Usb, Single
  <1>6. QED
    BY <1>2, <1>3, <1>4, <1>5 DEF AcrInv

-----------------------------------------------------------------------------
(* A call begins                                                           *)

LEMMA BeginPreserves ==
    ASSUME AcrInv, Usb, stage # "closed", NEW c \in Cmd, NEW t \in Timeout \cup {CommandTimeout},
           NEW where \in {"raw", "pass", "stop"}, Begin(c, t, where), then' \in {"none", "EOPABORTED"},
           where = "stop" => then' = "EOPABORTED"
    PROVE  AcrInv'
  <1>1. /\ pc = "idle" /\ calls < MaxCalls /\ calls' = calls + 1 /\ ids' = ids + 1
        /\ me' = [cmd |-> c, id |-> ids + 1] /\ run' = me' /\ held' = Nil /\ last_command' = c
        /\ timeout' = t /\ remaining_time' = t /\ pc' = where
        /\ UNCHANGED <<kind, stage, result, failed, in, faults, unread>>
    BY DEF Begin, Write
  <1>2. /\ calls \in 0..MaxCalls /\ MaxCalls \in Nat /\ ids \in 0..2 * calls
    BY Acr122Assumption DEF AcrInv, Bounds
  <1>3. calls' \in 0..MaxCalls /\ ids' \in 1..2 * calls' - 1 /\ ids + 1 \in 1..2 * MaxCalls
    BY <1>1, <1>2
  <1>4. me' \in Call /\ me' # Nil /\ me'.cmd = c
    BY <1>1, <1>3, NewCall
  <1>5. t \in Nat
    BY Acr122Assumption DEF CommandTimeout
  <1>6. TypeOK'
    BY <1>1, <1>4, <1>5 DEF AcrInv, TypeOK, Outcome
  <1>7. Bounds'
    BY <1>1, <1>2, <1>3 DEF AcrInv, Bounds
  <1>8. CallOK' /\ PcscOK'
    BY <1>1, <1>4 DEF AcrInv, CallOK, PcscOK, Usb
  <1>9. BehindOK'
    <2>1. Behind <= 1 + faults + unread /\ faults \in Nat /\ unread \in Nat
      BY <1>1 DEF AcrInv, BehindOK, Bounds
    <2>2. Left \in Nat /\ Behind = Left + (IF run = Nil THEN 0 ELSE 1)
      BY LeftFacts DEF AcrInv
    <2>3. Behind' = Left + 1
      BY <1>1, <1>4, <1>7, LeftFacts DEF Behind, Left
    <2>4. QED
      BY <1>1, <2>1, <2>2, <2>3 DEF BehindOK
  <1>10. OwnAnswer' /\ OwnResult'
    BY <1>1 DEF AcrInv, OwnAnswer, OwnResult, Usb
  <1>11. QED
    BY <1>6, <1>7, <1>8, <1>9, <1>10 DEF AcrInv

LEMMA RequestPreserves ==
    ASSUME AcrInv, stage_request \/ (\E c \in AppCmd, t \in Timeout : transceive(c, t))
    PROVE  AcrInv'
  <1>1. \A c \in AppCmd \cup {"PowerOn", "Parameters", "GetFirmwareVersion", "InRelease"} : c \in Cmd
    BY DEF Cmd
  <1>2. stage \in {"power", "parameters", "stop", "idle"} => Usb
    BY DEF AcrInv, PcscOK
  <1>3. CASE stage_request
    <2>1. CASE stage = "power" /\ Begin("PowerOn", CommandTimeout, "raw") /\ then' = "none"
      BY <1>1, <1>2, <2>1, BeginPreserves
    <2>2. CASE stage = "parameters" /\ Begin("Parameters", CommandTimeout, "raw") /\ then' = "none"
      BY <1>1, <1>2, <2>2, BeginPreserves
    <2>3. CASE stage = "init" /\ Usb /\ Begin("GetFirmwareVersion", CommandTimeout, "pass") /\ then' = "none"
      BY <1>1, <1>2, <2>3, BeginPreserves
    <2>4. CASE stage = "idle" /\ Begin("InRelease", CommandTimeout, "pass") /\ then' = "none"
      BY <1>1, <1>2, <2>4, BeginPreserves
    <2>5. CASE stage = "stop" /\ Begin("GetFirmwareVersion", CommandTimeout, "stop") /\ then' = "EOPABORTED"
      BY <1>1, <1>2, <2>5, BeginPreserves
    <2>6. QED
      BY <1>3, <2>1, <2>2, <2>3, <2>4, <2>5 DEF stage_request
  <1>4. ASSUME NEW c \in AppCmd, NEW t \in Timeout, transceive(c, t) PROVE AcrInv'
    BY <1>1, <1>4, BeginPreserves DEF transceive
  <1>5. QED
    BY <1>3, <1>4

-----------------------------------------------------------------------------
(* A call returns                                                          *)

LEMMA AfterFacts ==
    ASSUME AcrInv, NEW o \in Outcome, NEW f, Return(o, f)
    PROVE  /\ stage' \in {"closed", "power", "parameters", "init", "open", "stop", "idle"}
           /\ ~Usb => stage' \in {"closed", "init", "open"}
  <1>1. stage \in {"closed", "power", "parameters", "init", "open", "stop", "idle"}
    BY DEF AcrInv, TypeOK
  <1>2. ~Usb => stage \in {"closed", "init", "open"}
    BY DEF AcrInv, PcscOK
  <1>3. stage' = CASE stage = "power" -> IF o = "payload" THEN "parameters" ELSE "closed"
                   [] stage = "parameters" -> IF o = "payload" THEN "init" ELSE "closed"
                   [] stage = "init" -> IF o = "payload" \/ ~Usb THEN "open" ELSE "closed"
                   [] stage = "stop" -> "idle"
                   [] stage = "idle" -> "closed"
                   [] OTHER -> stage
    BY DEF Return, After
  <1>4. QED
    BY <1>1, <1>2, <1>3

\* The call takes from the reader what it leaves there, and a call that succeeds
\* when none failed leaves nothing.
LEMMA ReturnPreserves ==
    ASSUME AcrInv, NEW o \in Outcome, NEW f, Return(o, f),
           UNCHANGED <<kind, me, timeout, last_command, calls, ids>>,
           in' \in Seq(Packets), {run', held'} \subseteq Call \cup {Nil},
           faults' \in Nat, unread' \in Nat,
           Behind' <= 1 + faults' + unread',
           ~Usb => in' = <<>> /\ run' = Nil,
           o = "payload" /\ (~failed \/ ~Usb) => in' = <<>> /\ run' = Nil /\ f = me
    PROVE  AcrInv'
  <1>1. /\ pc' = "idle" /\ remaining_time' = 0 /\ then' = "none"
        /\ result'.call = me /\ result'.outcome = o /\ result'.from = f
        /\ failed' = (failed \/ o # "payload")
    BY DEF Return
  <1>2. failed' \in BOOLEAN /\ (~failed' => ~failed /\ o = "payload")
    BY <1>1, Zenon
  <1>3. TypeOK'
    <2>1. 0 \in 0..timeout
      BY TimeoutFacts DEF AcrInv
    <2>2. QED
      BY <1>1, <2>1, AfterFacts DEF AcrInv, TypeOK, Outcome
  <1>4. Bounds'
    BY <1>1, <1>2 DEF AcrInv, Bounds
  <1>5. CallOK' /\ PcscOK'
    BY <1>1, AfterFacts DEF CallOK, PcscOK, Usb
  <1>6. BehindOK'
    BY <1>1 DEF BehindOK
  <1>7. OwnAnswer'
    BY <1>1, <1>2 DEF OwnAnswer, Usb
  <1>8. OwnResult'
    BY <1>1, <1>2 DEF OwnResult, Usb
  <1>9. QED
    BY <1>3, <1>4, <1>5, <1>6, <1>7, <1>8 DEF AcrInv

\* A call that reads a packet before it returns.
LEMMA TakenPreserves ==
    ASSUME AcrInv, Usb, in # <<>>, in' = Tail(in), NEW o \in Outcome, NEW f, Return(o, f),
           UNCHANGED <<kind, me, timeout, last_command, run, held, calls, ids, faults, unread>>,
           o = "payload" /\ ~failed => in' = <<>> /\ run = Nil /\ f = me
    PROVE  AcrInv'
  <1>1. in \in Seq(Packets) /\ faults \in Nat /\ unread \in Nat /\ Left \in Nat
    BY LeftFacts DEF AcrInv, Bounds
  <1>2. Behind = Left + (IF run = Nil THEN 0 ELSE 1) /\ Behind <= 2 + faults + unread
    <2>1. Behind <= (IF pc = "idle" THEN 1 ELSE 2) + faults + unread
      BY DEF AcrInv, BehindOK
    <2>2. Behind = Left + (IF run = Nil THEN 0 ELSE 1)
      BY LeftFacts DEF AcrInv
    <2>3. QED
      BY <1>1, <2>1, <2>2
  <1>3. in' \in Seq(Packets) /\ Left' = Left - 1
    BY <1>1, TailFacts DEF Left
  <1>4. Behind' = Left' + (IF run = Nil THEN 0 ELSE 1)
    BY DEF Behind, Left
  <1>5. Behind' <= 1 + faults + unread
    BY <1>1, <1>2, <1>3, <1>4
  <1>6. {run, held} \subseteq Call \cup {Nil}
    BY DEF AcrInv, TypeOK
  <1>7. QED
    BY <1>1, <1>3, <1>5, <1>6, ReturnPreserves

\* A call that returns without having read a packet, none having come.
LEMMA NonePreserves ==
    ASSUME AcrInv, Usb, in = <<>>, NEW o \in Outcome, o # "payload", NEW f, Return(o, f),
           UNCHANGED <<kind, me, timeout, last_command, in, run, held, calls, ids, faults, unread>>
    PROVE  AcrInv'
  <1>1. in \in Seq(Packets) /\ faults \in Nat /\ unread \in Nat
    BY DEF AcrInv, Bounds
  <1>2. Behind' <= 1 + faults + unread
    <2>1. Left' = 0
      BY DEF Left
    <2>2. Behind' = Left' + (IF run = Nil THEN 0 ELSE 1)
      BY DEF Behind, Left
    <2>3. QED
      BY <1>1, <2>1, <2>2
  <1>3. {run, held} \subseteq Call \cup {Nil}
    BY DEF AcrInv, TypeOK
  <1>4. QED
    BY <1>1, <1>2, <1>3, ReturnPreserves

LEMMA StopReadPreserves ==
    ASSUME AcrInv, stop_read
    PROVE  AcrInv'
  <1>1. /\ pc = "stop" /\ Return(then, Nil) /\ in' = IF in = <<>> THEN in ELSE Tail(in)
        /\ UNCHANGED <<kind, me, timeout, last_command, run, held, calls, ids, faults, unread>>
    BY DEF stop_read, call, counters
  <1>2. Usb /\ then \in {"EIO", "EOPABORTED"}
    BY <1>1 DEF AcrInv, PcscOK, CallOK
  <1>3. then \in Outcome /\ then # "payload"
    BY <1>2 DEF Outcome
  <1>4. CASE in = <<>>
    BY <1>1, <1>2, <1>3, <1>4, NonePreserves
  <1>5. CASE in # <<>>
    BY <1>1, <1>2, <1>3, <1>5, TakenPreserves
  <1>6. QED
    BY <1>4, <1>5

LEMMA SingleTaken ==
    ASSUME Bounds, NEW p, Single(p), in' = Tail(in)
    PROVE  in' = <<>> /\ Head(in) = p
  BY TailFacts DEF Bounds, Single

LEMMA RawReadPreserves ==
    ASSUME AcrInv, raw_read
    PROVE  AcrInv'
  <1>1. /\ pc = "raw" /\ UNCHANGED <<kind, me, timeout, last_command, run, held, calls, ids, faults, unread>>
        /\ \/ in # <<>> /\ in' = Tail(in) /\ Return("payload", me)
           \/ in = <<>> /\ Return("ETIMEOUT", Nil) /\ UNCHANGED in
    BY DEF raw_read, call, counters
  <1>2. Usb /\ stage # "closed"
    BY <1>1 DEF AcrInv, PcscOK, CallOK
  <1>3. "payload" \in Outcome /\ "ETIMEOUT" \in Outcome
    BY DEF Outcome
  <1>4. CASE in # <<>> /\ in' = Tail(in) /\ Return("payload", me)
    <2>1. ~failed => in' = <<>> /\ run = Nil
      BY <1>1, <1>2, <1>4, SingleTaken DEF AcrInv, OwnAnswer
    <2>2. QED
      BY <1>1, <1>2, <1>3, <1>4, <2>1, TakenPreserves
  <1>5. CASE in = <<>> /\ Return("ETIMEOUT", Nil) /\ UNCHANGED in
    BY <1>1, <1>2, <1>3, <1>5, NonePreserves
  <1>6. QED
    BY <1>1, <1>4, <1>5

-----------------------------------------------------------------------------
(* The passes of a call                                                    *)

\* A step that neither returns nor touches what is under way.
LEMMA QuietStep ==
    ASSUME AcrInv, Usb, stage # "closed", pc \in {"pass", "read"}, pc' \in {"pass", "read"},
           UNCHANGED <<kind, stage, me, timeout, last_command, then, result, failed, in, run, held, calls, ids, faults, unread>>,
           remaining_time' \in 0..timeout,
           pc' = "pass" /\ remaining_time' # timeout => Behind <= 1
    PROVE  AcrInv'
  <1>1. TypeOK' /\ Bounds'
    BY DEF AcrInv, TypeOK, Bounds
  <1>2. CallOK' /\ PcscOK'
    BY DEF AcrInv, CallOK, PcscOK, Usb
  <1>3. Behind' = Behind
    BY DEF Behind
  <1>4. BehindOK'
    BY <1>3 DEF AcrInv, BehindOK
  <1>5. OwnAnswer' /\ OwnResult'
    BY DEF AcrInv, OwnAnswer, OwnResult, Usb, Single
  <1>6. QED
    BY <1>1, <1>2, <1>4, <1>5 DEF AcrInv

LEMMA NextPassPreserves ==
    ASSUME AcrInv, next_pass
    PROVE  AcrInv'
  <1>1. pc = "pass" /\ UNCHANGED <<kind, me, timeout, last_command, in, run, held, calls, ids, faults>>
    BY DEF next_pass, call, reader
  <1>2. Usb /\ stage # "closed"
    BY <1>1 DEF AcrInv, PcscOK, CallOK
  <1>3. timeout \in Nat /\ remaining_time \in 0..timeout
    BY TimeoutFacts DEF AcrInv
  <1>4. faults \in Nat /\ unread \in Nat
    BY DEF AcrInv, Bounds
  <1>5. CASE /\ timeout # 0 /\ remaining_time - 1 <= 0 /\ Return("ETIMEOUT", Nil)
             /\ unread' = IF remaining_time = timeout THEN unread + 1 ELSE unread
    <2>1. Left \in Nat /\ Behind = Left + (IF run = Nil THEN 0 ELSE 1) /\ Behind' = Behind
      BY <1>1, LeftFacts DEF AcrInv, Behind
    <2>2. Behind <= 2 + faults + unread /\ (remaining_time # timeout => Behind <= 1)
      BY <1>1 DEF AcrInv, BehindOK
    <2>3. Behind' <= 1 + faults + unread' /\ unread' \in Nat
      BY <1>4, <1>5, <2>1, <2>2
    <2>4. in \in Seq(Packets) /\ {run, held} \subseteq Call \cup {Nil} /\ "ETIMEOUT" \in Outcome
      BY DEF AcrInv, TypeOK, Bounds, Outcome
    <2>5. QED
      BY <1>1, <1>2, <1>4, <1>5, <2>3, <2>4, ReturnPreserves
  <1>6. CASE /\ timeout = 0 \/ remaining_time - 1 > 0
             /\ remaining_time' = IF timeout = 0 THEN 0 ELSE remaining_time - 1
             /\ pc' = "read" /\ UNCHANGED <<stage, then, result, failed, unread>>
    <2>1. remaining_time' \in 0..timeout
      BY <1>3, <1>6
    <2>2. QED
      BY <1>1, <1>2, <1>6, <2>1, QuietStep
  <1>7. QED
    BY <1>5, <1>6 DEF next_pass

\* acr122_usb_ack: the second and last message of a call
LEMMA StopPreserves ==
    ASSUME AcrInv, Usb, pc = "read", NEW o \in {"EIO", "EOPABORTED"}, Stop(o),
           UNCHANGED <<kind, stage, me, timeout, last_command, remaining_time, result, failed, in, calls, unread>>,
           faults' \in Nat, Left # 0 => faults' = faults + 1
    PROVE  AcrInv'
  <1> DEFINE m == [cmd |-> "GetFirmwareVersion", id |-> ids + 1]
  <1>1. pc' = "stop" /\ then' = o /\ ids' = ids + 1 /\ run' = m /\ held' = Nil
    BY DEF Stop, Write
  <1>2. calls \in 0..MaxCalls /\ MaxCalls \in Nat /\ ids \in 1..2 * calls - 1 /\ faults \in Nat /\ unread \in Nat
    BY Acr122Assumption DEF AcrInv, Bounds
  <1>3. ids' \in 0..2 * calls /\ ids + 1 \in 1..2 * MaxCalls
    BY <1>1, <1>2
  <1>4. m \in Call /\ m # Nil
    <2>1. "GetFirmwareVersion" \in Cmd
      BY DEF Cmd
    <2>2. QED
      BY <1>3, <2>1, NewCall
  <1> HIDE DEF m
  <1>5. TypeOK'
    BY <1>1, <1>4 DEF AcrInv, TypeOK, Outcome
  <1>6. Bounds'
    BY <1>1, <1>2, <1>3 DEF AcrInv, Bounds
  <1>7. CallOK' /\ PcscOK'
    BY <1>1 DEF AcrInv, CallOK, PcscOK, Usb
  <1>8. BehindOK'
    <2>1. Behind' = Left' + 1 /\ Left' = Left /\ Left \in Nat /\ (in = <<>> => Left = 0)
      BY <1>1, <1>4, LeftFacts DEF AcrInv, Behind, Left
    <2>2. Left <= Behind /\ Behind <= 2 + faults + unread
      <3>1. Behind = Left + (IF run = Nil THEN 0 ELSE 1)
        BY LeftFacts DEF AcrInv
      <3>2. Behind <= 2 + faults + unread
        BY DEF AcrInv, BehindOK
      <3>3. QED
        BY <2>1, <3>1, <3>2
    <2>3. Behind \in Int
      BY LeftFacts DEF AcrInv
    <2>4. faults \in Nat /\ unread \in Nat
      BY <1>2
    <2>5. Left <= 2 + faults + unread
      BY <2>1, <2>2, <2>3, <2>4
    <2>6. Behind' <= 2 + faults' + unread
      BY <2>1, <2>4, <2>5, OneMore
    <2>7. QED
      BY <1>1, <2>6 DEF BehindOK
  <1>9. OwnAnswer' /\ OwnResult'
    BY <1>1 DEF AcrInv, OwnAnswer, OwnResult, Usb
  <1>10. QED
    BY <1>5, <1>6, <1>7, <1>8, <1>9 DEF AcrInv

LEMMA ReadTimeoutPreserves ==
    ASSUME AcrInv, read_timeout
    PROVE  AcrInv'
  <1>1. /\ Usb /\ pc = "read" /\ in = <<>>
        /\ UNCHANGED <<kind, stage, me, timeout, last_command, remaining_time, result, failed, in, calls, faults, unread>>
    BY DEF read_timeout, call
  <1>2. stage # "closed" /\ faults \in Nat
    BY <1>1 DEF AcrInv, CallOK, Bounds
  <1>3. CASE abort_flag /\ Stop("EOPABORTED")
    <2>1. Left = 0
      BY <1>1 DEF Left
    <2>2. QED
      BY <1>1, <1>2, <1>3, <2>1, StopPreserves
  <1>4. CASE pc' = "pass" /\ UNCHANGED <<then, ids, run, held>>
    <2>1. Behind <= 1
      <3>1. Left = 0
        BY <1>1 DEF Left
      <3>2. QED
        BY <3>1, LeftFacts DEF AcrInv
    <2>2. remaining_time' \in 0..timeout
      BY <1>1, TimeoutFacts DEF AcrInv
    <2>3. QED
      BY <1>1, <1>2, <1>4, <2>1, <2>2, QuietStep
  <1>5. QED
    BY <1>3, <1>4 DEF read_timeout

-----------------------------------------------------------------------------
(* Packets of a call                                                       *)

\* The packet that is answered with is the call's own, if none failed.
LEMMA AnswerPreserves ==
    ASSUME AcrInv, Usb, in # <<>>, in' = Tail(in), Answer(Head(in)),
           UNCHANGED <<kind, me, timeout, last_command, run, held, calls, ids, faults, unread>>,
           pc \in {"read", "more"}, stage # "closed"
    PROVE  AcrInv'
  <1>1. "payload" \in Outcome /\ "EIO" \in Outcome
    BY DEF Outcome
  <1>2. CASE Return("payload", Head(in).call) /\ Head(in).kind = "reply"
    <2>1. ASSUME ~failed PROVE in' = <<>> /\ run = Nil /\ Head(in).call = me
      <3>1. \/ run = Nil /\ Single(Packet("reply", me))
            \/ run = Nil /\ Single(Packet("more", me))
        BY <2>1 DEF AcrInv, OwnAnswer
      <3>2. Packet("more", me).kind = "more" /\ Packet("reply", me).call = me
        BY DEF Packet
      <3>3. QED
        BY <1>2, <3>1, <3>2, SingleTaken DEF AcrInv
    <2>2. QED
      BY <1>1, <1>2, <2>1, TakenPreserves
  <1>3. CASE Return("EIO", Nil)
    BY <1>1, <1>3, TakenPreserves
  <1>4. QED
    BY <1>2, <1>3 DEF Answer

LEMMA MoreReadPreserves ==
    ASSUME AcrInv, more_read
    PROVE  AcrInv'
  <1>1. /\ pc = "more" /\ in' = Tail(in) /\ Answer(Head(in))
        /\ UNCHANGED <<kind, me, timeout, last_command, run, held, calls, ids, faults, unread>>
    BY DEF more_read, call, counters
  <1>2. Usb /\ stage # "closed" /\ in # <<>>
    BY <1>1 DEF AcrInv, PcscOK, CallOK
  <1>3. QED
    BY <1>1, <1>2, AnswerPreserves

\* A Touchatag announced its answer, and is asked for it.
LEMMA AskedPreserves ==
    ASSUME AcrInv, Usb, stage # "closed", pc = "read", in # <<>>, Head(in).kind = "more", held' = Nil, pc' = "more",
           in' = Append(Tail(in), IF held = Nil THEN Packet("junk", Nil) ELSE Packet("reply", held)),
           UNCHANGED <<kind, stage, me, timeout, last_command, remaining_time, then, result, failed, run, calls, ids, faults, unread>>
    PROVE  AcrInv'
  <1> DEFINE p == IF held = Nil THEN Packet("junk", Nil) ELSE Packet("reply", held)
  <1>1. in \in Seq(Packets) /\ held \in Call \cup {Nil} /\ Nil \in Call \cup {Nil}
    BY DEF AcrInv, TypeOK, Bounds
  <1>2. p \in Packets
    BY <1>1, PacketFacts
  <1>3. p = IF held = Nil THEN Packet("junk", Nil) ELSE Packet("reply", held)
    OBVIOUS
  <1> HIDE DEF p
  <1>4. Tail(in) \in Seq(Packets) /\ Head(in) = in[1] /\ Len(in) \in Nat /\ Len(Tail(in)) = Len(in) - 1
    BY <1>1, TailFacts
  <1>5. in' = Append(Tail(in), p)
    BY <1>3
  <1>6. in' \in Seq(Packets) /\ in' # <<>> /\ Left' = Left
    <2>1. Len(in') = Len(Tail(in)) + 1
      BY <1>2, <1>4, <1>5, AppendFacts
    <2>2. Len(Tail(in)) = Len(in) - 1 /\ Len(in) \in Nat
      BY <1>4
    <2>3. QED
      BY <1>2, <1>4, <1>5, <2>1, <2>2, AppendFacts DEF Left
  <1>7. TypeOK'
    BY DEF AcrInv, TypeOK
  <1>8. Bounds'
    BY <1>6 DEF AcrInv, Bounds
  <1>9. CallOK' /\ PcscOK'
    BY <1>6 DEF AcrInv, CallOK, PcscOK, Usb
  <1>10. BehindOK'
    <2>1. Behind' = Behind
      BY <1>6, <1>8, LeftFacts DEF AcrInv, Behind, Left
    <2>2. QED
      BY <2>1 DEF AcrInv, BehindOK
  <1>11. OwnAnswer'
    <2> SUFFICES ASSUME ~failed PROVE run = Nil /\ Len(in') = 1 /\ in'[1] = Packet("reply", me)
      BY DEF OwnAnswer, Single, Usb
    <2>1. Packet("reply", me).kind # "more"
      BY DEF Packet
    <2>2. run = Nil /\ Single(Packet("more", me)) /\ held = me /\ me # Nil
      BY <1>4, <2>1 DEF AcrInv, OwnAnswer, CallOK, Single
    <2>3. p = Packet("reply", me) /\ Len(in) = 1
      BY <1>3, <2>2 DEF Single
    <2>4. Tail(in) = <<>>
      BY <1>1, <2>3, TailFacts
    <2>5. QED
      BY <1>2, <1>4, <1>5, <2>2, <2>3, <2>4, AppendFacts
  <1>12. OwnResult'
    BY DEF AcrInv, OwnResult, Usb
  <1>13. QED
    BY <1>7, <1>8, <1>9, <1>10, <1>11, <1>12 DEF AcrInv

LEMMA ReadPacketPreserves ==
    ASSUME AcrInv, Usb, read_packet
    PROVE  AcrInv'
  <1>1. pc = "read" /\ in # <<>> /\ UNCHANGED <<kind, me, timeout, last_command, run, calls, ids, faults, unread>>
    BY DEF read_packet, call, counters
  <1>2. stage # "closed"
    BY <1>1 DEF AcrInv, CallOK
  <1>3. CASE kind = "ACR122" /\ in' = Tail(in) /\ Answer(Head(in)) /\ UNCHANGED held
    BY <1>1, <1>2, <1>3, AnswerPreserves
  <1>4. CASE in' = Tail(in) /\ Return("EIO", Nil) /\ UNCHANGED held
    <2>1. "EIO" \in Outcome
      BY DEF Outcome
    <2>2. QED
      BY <1>1, <1>4, <2>1, TakenPreserves
  <1>5. CASE /\ kind = "TOUCHATAG" /\ Head(in).kind = "more"
             /\ in' = Append(Tail(in), IF held = Nil THEN Packet("junk", Nil) ELSE Packet("reply", held))
             /\ held' = Nil /\ pc' = "more" /\ UNCHANGED <<stage, remaining_time, then, result, failed>>
    BY <1>1, <1>2, <1>5, AskedPreserves
  <1>6. QED
    BY <1>3, <1>4, <1>5 DEF read_packet

-----------------------------------------------------------------------------
(* Transfers that fail                                                     *)

LEMMA FailedPreserves ==
    ASSUME AcrInv, Usb, NEW o \in Outcome, o # "payload", Return(o, Nil), faults' = faults + 1,
           UNCHANGED <<kind, me, timeout, last_command, in, run, held, calls, ids, unread>>
    PROVE  AcrInv'
  <1>1. in \in Seq(Packets) /\ faults \in Nat /\ unread \in Nat
    BY DEF AcrInv, Bounds
  <1>2. Behind \in Int /\ Behind' = Behind
    BY LeftFacts DEF AcrInv, Behind
  <1>3. Behind <= (IF pc = "idle" THEN 1 ELSE 2) + faults + unread
    BY DEF AcrInv, BehindOK
  <1>4. Behind' <= 1 + faults' + unread'
    BY <1>1, <1>2, <1>3
  <1>5. faults' \in Nat /\ unread' \in Nat /\ {run, held} \subseteq Call \cup {Nil}
    BY <1>1 DEF AcrInv, TypeOK
  <1>6. QED
    BY <1>1, <1>4, <1>5, ReturnPreserves

LEMMA ReadErrorPreserves ==
    ASSUME AcrInv, read_error
    PROVE  AcrInv'
  <1>1. /\ Usb /\ faults' = faults + 1
        /\ UNCHANGED <<kind, me, timeout, last_command, in, calls, unread>>
    BY DEF read_error, call
  <1>2. faults' \in Nat /\ "EIO" \in Outcome
    BY <1>1 DEF AcrInv, Bounds, Outcome
  <1>3. CASE pc = "read" /\ Stop("EIO") /\ UNCHANGED <<stage, remaining_time, result, failed>>
    BY <1>1, <1>2, <1>3, StopPreserves
  <1>4. CASE Return("EIO", Nil) /\ UNCHANGED <<ids, run, held>>
    BY <1>1, <1>2, <1>4, FailedPreserves
  <1>5. CASE pc = "stop" /\ Return(then, Nil) /\ UNCHANGED <<ids, run, held>>
    <2>1. then \in Outcome /\ then # "payload"
      BY <1>5 DEF AcrInv, CallOK, Outcome
    <2>2. QED
      BY <1>1, <1>5, <2>1, FailedPreserves
  <1>6. QED
    BY <1>3, <1>4, <1>5 DEF read_error

LEMMA WriteErrorPreserves ==
    ASSUME AcrInv, write_error
    PROVE  AcrInv'
  <1>1. /\ Usb /\ faults' = faults + 1 /\ Return("EIO", Nil)
        /\ UNCHANGED <<kind, me, timeout, last_command, in, run, held, calls, ids, unread>>
    BY DEF write_error, call, reader
  <1>2. "EIO" \in Outcome
    BY DEF Outcome
  <1>3. QED
    BY <1>1, <1>2, FailedPreserves

-----------------------------------------------------------------------------
(* PC/SC                                                                   *)

LEMMA PcscSendPreserves ==
    ASSUME AcrInv, NEW c \in AppCmd \cup {"GetFirmwareVersion"}, pcsc_send(c)
    PROVE  AcrInv'
  <1>1. /\ ~Usb /\ pc = "idle" /\ calls < MaxCalls /\ stage \in {"open", "init"}
        /\ calls' = calls + 1 /\ ids' = ids + 1 /\ me' = [cmd |-> c, id |-> ids + 1]
        /\ UNCHANGED <<kind, timeout, in, run, unread, then, remaining_time>>
    BY DEF pcsc_send
  <1>2. calls \in 0..MaxCalls /\ MaxCalls \in Nat /\ ids \in 0..2 * calls
    BY Acr122Assumption DEF AcrInv, Bounds
  <1>3. calls' \in 0..MaxCalls /\ ids' \in 1..2 * calls' - 1 /\ ids' \in 0..2 * calls' /\ ids + 1 \in 1..2 * MaxCalls
    BY <1>1, <1>2
  <1>4. me' \in Call /\ me' # Nil /\ me'.cmd = c
    BY <1>1, <1>3, NewCall DEF Cmd
  <1>5. in = <<>> /\ run = Nil /\ in' = <<>> /\ run' = Nil /\ ~Usb'
    BY <1>1 DEF AcrInv, PcscOK, Usb
  <1>6. CASE /\ pc' = "read" /\ held' = me' /\ last_command' = c
             /\ UNCHANGED <<stage, result, failed, faults>>
    <2>1. TypeOK' /\ Bounds'
      BY <1>1, <1>3, <1>4, <1>6 DEF AcrInv, TypeOK, Bounds
    <2>2. CallOK' /\ PcscOK'
      BY <1>1, <1>4, <1>5, <1>6 DEF AcrInv, CallOK, PcscOK
    <2>3. BehindOK'
      <3>1. Behind' \in 0..1
        BY <1>5 DEF Behind
      <3>2. faults' \in Nat /\ unread' \in Nat
        BY <2>1 DEF Bounds
      <3>3. Behind' <= 2 + faults' + unread'
        BY <3>1, <3>2, AtMostOne
      <3>4. pc' = "read"
        BY <1>6
      <3>5. QED
        BY <3>3, <3>4 DEF BehindOK
    <2>4. OwnAnswer' /\ OwnResult'
      BY <1>1, <1>5, <1>6 DEF AcrInv, OwnAnswer, OwnResult
    <2>5. QED
      BY <2>1, <2>2, <2>3, <2>4 DEF AcrInv
  <1>7. CASE /\ faults' = faults + 1 /\ pc' = "idle" /\ stage' = After(FALSE) /\ failed' = TRUE
             /\ result' = [call |-> me', outcome |-> "EIO", from |-> Nil]
             /\ held' \in {held, me'} /\ UNCHANGED last_command
    <2>1. stage' = "open"
      BY <1>1, <1>7 DEF After
    <2>2. TypeOK'
      BY <1>1, <1>4, <1>7, <2>1 DEF AcrInv, TypeOK, Outcome
    <2>3. failed' \in BOOLEAN /\ faults' \in Nat
      <3>1. failed' \in BOOLEAN
        BY <1>7, Zenon
      <3>2. faults' \in Nat
        BY <1>7 DEF AcrInv, Bounds
      <3>3. QED
        BY <3>1, <3>2
    <2>4. Bounds'
      BY <1>1, <1>3, <1>7, <2>3 DEF AcrInv, Bounds
    <2>5. CallOK' /\ PcscOK'
      BY <1>5, <1>7, <2>1 DEF CallOK, PcscOK
    <2>6. BehindOK'
      BY <1>5, <1>7, <2>4 DEF BehindOK, Behind, Bounds
    <2>7. OwnAnswer' /\ OwnResult'
      BY <1>5, <1>7 DEF OwnAnswer, OwnResult
    <2>8. QED
      BY <2>2, <2>4, <2>5, <2>6, <2>7 DEF AcrInv
  <1>8. QED
    BY <1>6, <1>7 DEF pcsc_send

LEMMA PcscReceivePreserves ==
    ASSUME AcrInv, pcsc_receive
    PROVE  AcrInv'
  <1>1. ~Usb /\ pc = "read" /\ UNCHANGED <<kind, me, timeout, last_command, in, run, calls, ids, unread>>
    BY DEF pcsc_receive, call
  <1>2. in = <<>> /\ run = Nil /\ held = me
    BY <1>1 DEF AcrInv, PcscOK
  <1>3. in' \in Seq(Packets) /\ unread' \in Nat /\ faults \in Nat
    BY <1>1 DEF AcrInv, Bounds
  <1>4. Behind' = 0
    BY <1>1, <1>2 DEF Behind
  <1>5. "payload" \in Outcome /\ "EIO" \in Outcome
    BY DEF Outcome
  <1>6. {run, held, Nil} \subseteq Call \cup {Nil}
    BY DEF AcrInv, TypeOK
  <1>7. CASE Return("payload", held) /\ held' = Nil /\ UNCHANGED faults
    BY <1>1, <1>2, <1>3, <1>4, <1>5, <1>6, <1>7, ReturnPreserves
  <1>8. CASE faults' = faults + 1 /\ Return("EIO", Nil) /\ UNCHANGED held
    BY <1>1, <1>2, <1>3, <1>4, <1>5, <1>6, <1>8, ReturnPreserves
  <1>9. QED
    BY <1>7, <1>8 DEF pcsc_receive

-----------------------------------------------------------------------------
(* The reader                                                              *)

LEMMA ReaderReplyPreserves ==
    ASSUME AcrInv, reader_reply
    PROVE  AcrInv'
  <1>1. /\ run # Nil /\ run' = Nil
        /\ UNCHANGED <<kind, stage, pc, me, timeout, last_command, remaining_time, then, result, failed, calls, ids, faults, unread>>
    BY DEF reader_reply, call, counters
  <1>2. PICK k \in {"reply", "more"} : /\ in' = Append(in, Packet(k, run))
                                       /\ k = "more" => held' = run
                                       /\ k = "reply" => held' = held
    BY DEF reader_reply
  <1>3. Usb
    BY <1>1 DEF AcrInv, PcscOK
  <1>4. in \in Seq(Packets) /\ {run, held, Nil} \subseteq Call \cup {Nil}
    BY DEF AcrInv, TypeOK, Bounds
  <1>5. Packet(k, run) \in Packets
    BY <1>4, PacketFacts
  <1>6. in' \in Seq(Packets) /\ in' # <<>> /\ Left' = Left + 1
    BY <1>2, <1>4, <1>5, AppendFacts DEF Left
  <1>7. TypeOK'
    BY <1>1, <1>2, <1>4 DEF AcrInv, TypeOK
  <1>8. Bounds'
    BY <1>1, <1>6 DEF AcrInv, Bounds
  <1>9. CallOK' /\ PcscOK'
    BY <1>1, <1>3, <1>6 DEF AcrInv, CallOK, PcscOK, Usb
  <1>10. BehindOK'
    <2>1. Left \in Nat /\ Behind = Left + 1
      BY <1>1, LeftFacts DEF AcrInv
    <2>2. Behind' = Left'
      BY <1>1, <1>6 DEF Behind, Left
    <2>3. Behind' = Behind
      BY <1>6, <2>1, <2>2
    <2>4. QED
      BY <1>1, <2>3 DEF AcrInv, BehindOK
  <1>11. OwnAnswer'
    <2> SUFFICES ASSUME ~failed, stage # "closed" PROVE OwnAnswer'
      BY <1>1 DEF OwnAnswer
    <2>1. pc \in {"raw", "pass", "read", "stop"}
      BY <1>1, <1>3 DEF AcrInv, OwnAnswer, TypeOK
    <2>2. pc # "stop" => in = <<>> /\ run = me
      BY <1>1, <1>3, <2>1 DEF AcrInv, OwnAnswer
    <2>3. pc # "stop" => Len(in') = 1 /\ in'[1] = Packet(k, me)
      BY <1>2, <1>4, <1>5, <2>2, AppendFacts
    <2>4. QED
      BY <1>1, <1>2, <2>1, <2>2, <2>3 DEF OwnAnswer, Single
  <1>12. OwnResult'
    BY <1>1 DEF AcrInv, OwnResult, Usb
  <1>13. QED
    BY <1>7, <1>8, <1>9, <1>10, <1>11, <1>12 DEF AcrInv

-----------------------------------------------------------------------------
(* Theorems                                                                *)

\* The inductive invariant of the ACR122 family: every pass of acr122_usb_receive,
\* every stop by acr122_usb_ack and every exchange over PC/SC keeps what the reader
\* still has to say within its bound, and says whose it is until a call fails.
THEOREM Acr122Inductive == Spec => []AcrInv
  <1>1. AcrInv /\ [Next]_vars => AcrInv'
    <2> SUFFICES ASSUME AcrInv, [Next]_vars PROVE AcrInv'
      OBVIOUS
    <2>1. CASE open
      BY <2>1, OpenPreserves
    <2>2. CASE close
      BY <2>2, ClosePreserves
    <2>3. CASE stage_request \/ \E c \in AppCmd, t \in Timeout : transceive(c, t)
      BY <2>3, RequestPreserves
    <2>4. CASE \E c \in AppCmd \cup {"GetFirmwareVersion"} : pcsc_send(c)
      BY <2>4, PcscSendPreserves
    <2>5. CASE Host
      BY <2>5, StopReadPreserves, RawReadPreserves, NextPassPreserves, ReadTimeoutPreserves, ReadPacketPreserves,
         MoreReadPreserves, PcscReceivePreserves DEF Host
    <2>6. CASE read_error \/ write_error
      BY <2>6, ReadErrorPreserves, WriteErrorPreserves
    <2>7. CASE abort_command \/ UNCHANGED vars
      BY <2>7, AbortPreserves
    <2>8. CASE reader_reply
      BY <2>8, ReaderReplyPreserves
    <2>9. QED
      BY <2>1, <2>2, <2>3, <2>4, <2>5, <2>6, <2>7, <2>8 DEF Next
  <1>2. QED
    BY <1>1, InitAcr, PTL DEF Spec

\* acr122_usb_receive and acr122_usb_ack: however many calls time out, are aborted
\* or fail, the answers left for later calls are at most one, plus one for every
\* failed transfer and for every call that timed out before its first read.
THEOREM OneBehindHolds == Spec => []OneBehind
  <1>1. AcrInv => OneBehind
    <2> SUFFICES ASSUME AcrInv PROVE OneBehind
      OBVIOUS
    <2>1. pc = "idle" => Behind <= 1 + faults + unread
      BY DEF AcrInv, BehindOK
    <2>2. QED
      BY <2>1 DEF AcrInv, OneBehind
  <1>2. QED
    BY <1>1, Acr122Inductive, PTL

\* Neither driver discards old packets, and acr122_pcsc_receive does not verify the
\* command code: still, after an open every call gets its own answer and leaves
\* nothing behind until one fails, and over PC/SC even then.
THEOREM InStepUnlessFailedHolds == Spec => []InStepUnlessFailed
  <1>1. AcrInv => InStepUnlessFailed
    <2> SUFFICES ASSUME AcrInv, stage = "open", pc = "idle", ~failed \/ ~Usb
                 PROVE  /\ Usb => Behind = 0
                        /\ result.outcome = "payload" => result.from = result.call
      BY DEF InStepUnlessFailed
    <2>1. result.outcome = "payload" => result.from = result.call
      BY DEF AcrInv, OwnResult
    <2>2. ASSUME Usb PROVE Behind = 0
      <3>1. in = <<>> /\ run = Nil
        BY <2>2 DEF AcrInv, OwnAnswer
      <3>2. QED
        BY <3>1 DEF Behind
    <2>3. QED
      BY <2>1, <2>2
  <1>2. QED
    BY <1>1, Acr122Inductive, PTL
=============================================================================
