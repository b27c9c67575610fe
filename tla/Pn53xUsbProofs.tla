---------------------------- MODULE Pn53xUsbProofs ----------------------------
(***************************************************************************)
(* Proofs about the PN53x USB driver: how long a call waits, and that      *)
(* pn53x_usb_open brings host and chip in step.                            *)
(***************************************************************************)
EXTENDS Pn53xUsb, SequenceTheorems, TLAPS

-----------------------------------------------------------------------------
(* Types, waiting and aborts                                               *)

Message == [kind : {"frame", "ack", "nack"}, call : Call \cup {Nil}]
Ins == Len(in)
Outs == Len(out)

Short == IF timeout > Slice THEN timeout - Slice ELSE 0

\* What a call has waited and what it has still to wait make its time-out less
\* one slice; a pass that runs has already been taken off remaining_time.
WaitOK ==
    /\ pc = "pass" /\ timeout # 0 => waited + (IF remaining_time > Slice THEN remaining_time - Slice ELSE 0) = Short
    /\ pc = "read" /\ timeout # 0 =>
         /\ remaining_time > 0 /\ waited + remaining_time = Short
         /\ usb_timeout = IF remaining_time < Slice THEN remaining_time ELSE Slice
    /\ pc = "idle" /\ result.outcome = "ETIMEOUT" => waited = Short

AbortsOK == ended + (IF abort_flag THEN 1 ELSE 0) <= aborts

\* Calls are numbered, so that a new one is in no packet yet.
Numbered ==
    /\ me.id <= calls /\ run.id <= calls /\ last.id <= calls
    /\ \A i \in 1..Ins : in[i].call.id <= calls
    /\ \A i \in 1..Outs : out[i].call.id <= calls

CallOK == pc # "idle" => me # Nil /\ stage # "closed" /\ (pc # "ack" => last_command = me.cmd)

BasicInv == TypeOK /\ WaitOK /\ AbortsOK /\ Numbered /\ CallOK

-----------------------------------------------------------------------------
(* Host and chip in step                                                   *)

Opening == stage \in {"dummy", "firmware", "parameters"} /\ ~failed

EndsAck == Ins > 0 /\ in[Ins].kind = "ack"
HasAck == \E i \in 1..Ins : in[i].kind = "ack"
AbortNext == Outs > 0 /\ out[1] = Abort

\* A command that ends the chip's silence is acknowledged; only a frame that
\* interrupts a command that was acknowledged may go without.
Settled == EndsAck \/ run = Nil \/ AbortNext

\* SetParameters is the command that gives the opening away: any such answer but
\* that of the opening itself is an old one.
Stale(c) == c.cmd = "SetParameters" /\ ~(stage = "parameters" /\ pc # "idle" /\ c = me)

\* How far from the head of the endpoint an old answer can be
Depth == CASE stage = "dummy" -> 3
           [] stage = "firmware" -> IF pc \in {"idle", "ack"} THEN 3 ELSE 2
           [] OTHER -> IF pc \in {"idle", "ack"} THEN 1 ELSE 0

StaleOK ==
    /\ \A i \in 1..Ins : in[i].kind # "ack" /\ Stale(in[i].call) => i <= Depth
    /\ Stale(run) => AbortNext /\ Ins < Depth
    /\ \A i \in 1..Outs : out[i].kind = "frame" => out[i].call # Nil /\ ~Stale(out[i].call)
    /\ pc # "idle" => ~Stale(me)

\* A NACK follows the frame of its call, so the chip resends no old answer.
NackOK ==
    /\ \A i \in 2..Outs : out[i].kind = "nack" => out[i - 1].kind = "frame"
    /\ Outs > 0 /\ out[1].kind = "nack" => run # Nil \/ ~Stale(last)

SentOK ==
    pc = "ack" => \/ Outs > 0 /\ out[Outs] = Frame(me)
                  \/ Outs = 0 /\ (run = me \/ (run = Nil /\ last = me))

OpeningOK ==
    Opening =>
      /\ StaleOK /\ NackOK /\ SentOK
      /\ Ins > 0 => Settled
      /\ stage = "parameters" /\ pc \in {"idle", "ack"} => Settled

\* The frame of SetParameters, and its NACK, are the last the host wrote.
Waiting ==
    \/ Outs > 0 /\ out[Outs] = Frame(me)
    \/ Outs > 1 /\ out[Outs] = Nack /\ out[Outs - 1] = Frame(me)
NackPending == Outs > 0 /\ out[Outs] = Nack

WaitingOK ==
    /\ run # me /\ last # me
    /\ \A i \in 1..Ins : in[i] # Reply(me)
    /\ \A i \in 1..Outs : out[i] = Frame(me) => i = Outs \/ (i = Outs - 1 /\ out[Outs] = Nack)
    /\ pc = "ack" \/ NackPending => Settled

\* Its answer is the last the chip wrote.
TakenOK ==
    /\ Outs = 0 \/ (Outs = 1 /\ out[1] = Nack /\ pc # "ack")
    /\ run \in {me, Nil} /\ (run = Nil => last = me)
    /\ run = me => \A i \in 1..Ins : in[i] # Reply(me)
    /\ \A i, j \in 1..Ins : i < j /\ in[i] = Reply(me) => in[j] = Reply(me) /\ HasAck /\ pc # "ack"
    /\ pc = "ack" \/ NackPending => HasAck

ParametersOK ==
    Opening /\ stage = "parameters" /\ pc # "idle" =>
      /\ me.cmd = "SetParameters"
      /\ Waiting => WaitingOK
      /\ ~Waiting => TakenOK

\* Between calls nothing is under way, and during a call only its own packets.
RunningOK ==
    stage = "open" /\ ~failed =>
      /\ result.outcome = "payload" => result.from = result.call
      /\ pc = "idle" => Outs = 0 /\ Ins = 0 /\ run = Nil
      /\ pc = "ack" => \/ Outs = 1 /\ out[1] = Frame(me) /\ Ins = 0 /\ run = Nil
                       \/ Outs = 0 /\ Ins = 1 /\ in[1].kind = "ack" /\ run = me
                       \/ Outs = 0 /\ Ins = 2 /\ in[1].kind = "ack" /\ in[2] = Reply(me) /\ run = Nil
      /\ pc \in {"pass", "read"} => \/ Outs = 0 /\ Ins = 0 /\ run = me
                                    \/ Outs = 0 /\ Ins = 1 /\ in[1] = Reply(me) /\ run = Nil

LinkInv == OpeningOK /\ ParametersOK /\ RunningOK

-----------------------------------------------------------------------------
(* Endpoints, element by element                                           *)

LEMMA NoPackets ==
    ASSUME NEW S
    PROVE  <<>> \in Seq(S) /\ Len(<<>>) = 0
  OBVIOUS

LEMMA LenFacts ==
    ASSUME NEW S, NEW s \in Seq(S)
    PROVE  Len(s) \in Nat /\ (s = <<>> <=> Len(s) = 0) /\ \A i \in 1..Len(s) : s[i] \in S
  OBVIOUS

LEMMA TailFacts ==
    ASSUME NEW S, NEW s \in Seq(S), s # <<>>
    PROVE  /\ Tail(s) \in Seq(S) /\ Head(s) = s[1]
           /\ Len(s) \in Nat /\ Len(s) >= 1 /\ Len(Tail(s)) = Len(s) - 1
           /\ \A i \in 1..Len(s) - 1 : Tail(s)[i] = s[i + 1]
  <1>1. Tail(s) \in Seq(S) /\ Head(s) = s[1] /\ Len(s) \in Nat /\ Len(s) >= 1
    OBVIOUS
  <1>2. Len(Tail(s)) = Len(s) - 1
    OBVIOUS
  <1>3. \A i \in 1..Len(s) - 1 : Tail(s)[i] = s[i + 1]
    OBVIOUS
  <1>4. QED
    BY <1>1, <1>2, <1>3

LEMMA AppendFacts ==
    ASSUME NEW S, NEW s \in Seq(S), NEW e \in S
    PROVE  /\ Append(s, e) \in Seq(S) /\ Len(s) \in Nat /\ Len(Append(s, e)) = Len(s) + 1
           /\ Append(s, e)[Len(s) + 1] = e
           /\ \A i \in 1..Len(s) : Append(s, e)[i] = s[i]
  OBVIOUS

LEMMA PairFacts ==
    ASSUME NEW S, NEW s \in Seq(S), NEW a \in S, NEW b \in S
    PROVE  /\ s \o <<a, b>> \in Seq(S) /\ Len(s) \in Nat /\ Len(s \o <<a, b>>) = Len(s) + 2
           /\ (s \o <<a, b>>)[Len(s) + 1] = a /\ (s \o <<a, b>>)[Len(s) + 2] = b
           /\ \A i \in 1..Len(s) : (s \o <<a, b>>)[i] = s[i]
  OBVIOUS

LEMMA FrontFacts ==
    ASSUME NEW S, NEW s \in Seq(S), s # <<>>
    PROVE  /\ SubSeq(s, 1, Len(s) - 1) \in Seq(S) /\ Len(s) \in Nat /\ Len(s) >= 1
           /\ Len(SubSeq(s, 1, Len(s) - 1)) = Len(s) - 1
           /\ \A i \in 1..Len(s) - 1 : SubSeq(s, 1, Len(s) - 1)[i] = s[i]
  <1> DEFINE n == Len(s)
             t == SubSeq(s, 1, n - 1)
  <1>1. n \in Nat /\ n >= 1 /\ \A i \in 1..n : s[i] \in S
    BY LenFacts
  <1> HIDE DEF n
  <1>2. 1 \in Int /\ n - 1 \in Int /\ \A i \in 1..n - 1 : s[i] \in S
    BY <1>1
  <1>3. /\ t \in Seq(S) /\ Len(t) = IF 1 <= n - 1 THEN n - 1 - 1 + 1 ELSE 0
        /\ \A i \in 1..n - 1 - 1 + 1 : t[i] = s[1 + i - 1]
    BY <1>2, SubSeqProperties
  <1> HIDE DEF t
  <1>4. n - 1 - 1 + 1 = n - 1 /\ \A i \in 1..n - 1 : 1 + i - 1 = i
    BY <1>1
  <1>5. t \in Seq(S) /\ Len(t) = n - 1 /\ \A i \in 1..n - 1 : t[i] = s[i]
    BY <1>1, <1>3, <1>4
  <1>6. QED
    BY <1>1, <1>5 DEF n, t

\* The lengths of the endpoints
LEMMA EndpointFacts ==
    ASSUME TypeOK
    PROVE  /\ Ins \in Nat /\ Outs \in Nat /\ (in = <<>> <=> Ins = 0) /\ (out = <<>> <=> Outs = 0)
           /\ \A i \in 1..Ins : in[i] \in Packet
           /\ \A i \in 1..Outs : out[i] \in Message
  <1>1. in \in Seq(Packet) /\ out \in Seq(Message)
    BY DEF TypeOK, Message
  <1>2. QED
    BY <1>1, LenFacts DEF Ins, Outs

LEMMA InTaken ==
    ASSUME TypeOK, in # <<>>, in' = Tail(in)
    PROVE  /\ in' \in Seq(Packet) /\ Head(in) = in[1] /\ in[1] \in Packet
           /\ Ins \in Nat /\ Ins >= 1 /\ Ins' = Ins - 1 /\ \A i \in 1..Ins' : in'[i] = in[i + 1]
  <1>1. in \in Seq(Packet)
    BY DEF TypeOK
  <1>2. /\ in' \in Seq(Packet) /\ Head(in) = in[1]
        /\ Ins \in Nat /\ Ins >= 1 /\ Ins' = Ins - 1 /\ \A i \in 1..Ins - 1 : in'[i] = in[i + 1]
    BY <1>1, TailFacts DEF Ins
  <1>3. in[1] \in Packet
    BY <1>2, EndpointFacts
  <1>4. QED
    BY <1>2, <1>3

LEMMA InAppended ==
    ASSUME TypeOK, NEW p \in Packet, in' = Append(in, p)
    PROVE  /\ in' \in Seq(Packet) /\ Ins \in Nat /\ Ins' = Ins + 1 /\ in'[Ins + 1] = p
           /\ \A i \in 1..Ins : in'[i] = in[i]
  BY AppendFacts DEF TypeOK, Ins

LEMMA InCleared ==
    ASSUME in' = <<>>
    PROVE  in' \in Seq(Packet) /\ Ins' = 0
  BY NoPackets DEF Ins

LEMMA OutTaken ==
    ASSUME TypeOK, out # <<>>, out' = Tail(out)
    PROVE  /\ out' \in Seq(Message) /\ Head(out) = out[1] /\ out[1] \in Message
           /\ Outs \in Nat /\ Outs >= 1 /\ Outs' = Outs - 1 /\ \A i \in 1..Outs' : out'[i] = out[i + 1]
  <1>1. out \in Seq(Message)
    BY DEF TypeOK, Message
  <1>2. /\ out' \in Seq(Message) /\ Head(out) = out[1]
        /\ Outs \in Nat /\ Outs >= 1 /\ Outs' = Outs - 1 /\ \A i \in 1..Outs - 1 : out'[i] = out[i + 1]
    BY <1>1, TailFacts DEF Outs
  <1>3. out[1] \in Message
    BY <1>2, EndpointFacts
  <1>4. QED
    BY <1>2, <1>3

LEMMA OutAppended ==
    ASSUME TypeOK, NEW m \in Message, out' = Append(out, m)
    PROVE  /\ out' \in Seq(Message) /\ Outs \in Nat /\ Outs' = Outs + 1 /\ out'[Outs + 1] = m
           /\ \A i \in 1..Outs : out'[i] = out[i]
  BY AppendFacts DEF TypeOK, Message, Outs

\* The write of the frame failed: it is not on its way.
LEMMA OutFront ==
    ASSUME TypeOK, out # <<>>, out' = SubSeq(out, 1, Len(out) - 1)
    PROVE  /\ out' \in Seq(Message) /\ Outs \in Nat /\ Outs >= 1 /\ Outs' = Outs - 1
           /\ \A i \in 1..Outs' : out'[i] = out[i]
  <1>1. out \in Seq(Message)
    BY DEF TypeOK, Message
  <1>2. /\ out' \in Seq(Message) /\ Outs \in Nat /\ Outs >= 1 /\ Outs' = Outs - 1
        /\ \A i \in 1..Outs - 1 : out'[i] = out[i]
    BY <1>1, FrontFacts DEF Outs
  <1>3. QED
    BY <1>2

LEMMA MessageFacts ==
    /\ Abort \in Message /\ Abort.kind = "ack" /\ Abort.call = Nil
    /\ Nack \in Message /\ Nack.kind = "nack" /\ Nack.call = Nil
    /\ Nil.id = 0 /\ Nil.cmd = "none"
    /\ \A c \in Call \cup {Nil} : /\ Frame(c) \in Message /\ Frame(c).kind = "frame" /\ Frame(c).call = c
                                  /\ Reply(c) \in Packet /\ Reply(c).kind = "reply" /\ Reply(c).call = c
                                  /\ Ack(c) \in Packet /\ Ack(c).kind = "ack" /\ Ack(c).call = c
                                  /\ c.id \in 0..MaxCalls /\ c.cmd \in Cmd \cup {"none"}
  BY UsbAssumption DEF Abort, Nack, Frame, Reply, Ack, Message, Packet, Nil, Call

LEMMA NewCall ==
    ASSUME BasicInv, NEW c \in Cmd, calls < MaxCalls, me' = [cmd |-> c, id |-> calls + 1], calls' = calls + 1
    PROVE  /\ calls' \in 0..MaxCalls /\ me' \in Call /\ me' # Nil /\ me'.cmd = c /\ me'.id = calls'
           /\ Frame(me') \in Message /\ Frame(me').kind = "frame" /\ Frame(me').call = me'
  <1>1. calls \in 0..MaxCalls /\ MaxCalls \in Nat
    BY UsbAssumption DEF BasicInv, TypeOK
  <1>2. calls' \in 0..MaxCalls /\ calls + 1 \in 0..MaxCalls /\ calls + 1 # 0
    BY <1>1
  <1>3. me' \in Call /\ me'.cmd = c /\ me'.id = calls'
    BY <1>2 DEF Call
  <1>4. me' # Nil
    BY <1>2, <1>3, MessageFacts
  <1>5. QED
    BY <1>2, <1>3, <1>4, MessageFacts

-----------------------------------------------------------------------------
(* BasicInv                                                                *)

LEMMA TimeFacts ==
    ASSUME TypeOK
    PROVE  /\ timeout \in Nat /\ Slice \in Nat /\ Slice >= 1 /\ remaining_time \in Int /\ waited \in Nat
           /\ usb_timeout \in 0..Slice /\ aborts \in 0..MaxAborts /\ ended \in 0..MaxAborts /\ MaxAborts \in Nat
           /\ calls \in 0..MaxCalls /\ MaxCalls \in Nat
  BY UsbAssumption DEF TypeOK

LEMMA InitBasic == Init => BasicInv
  <1> SUFFICES ASSUME Init PROVE BasicInv
    OBVIOUS
  <1>1. \A c \in Old : c \in Call /\ c.id = 0
    BY UsbAssumption DEF Old, Call
  <1>2. \A p \in Leftover : p \in Packet /\ p.call.id = 0
    BY <1>1, MessageFacts DEF Leftover
  <1>3. run \in Call \cup {Nil} /\ last \in Call \cup {Nil} /\ run.id = 0 /\ last.id = 0
    BY <1>1, MessageFacts DEF Init
  <1>4. in \in Seq(Packet) /\ \A i \in 1..Len(in) : in[i].call.id = 0
    <2>1. CASE in = <<>>
      BY <2>1, NoPackets
    <2>2. CASE \E p \in Leftover : in = <<p>>
      BY <1>2, <2>2
    <2>3. CASE \E p, q \in Leftover : in = <<p, q>>
      BY <1>2, <2>3
    <2>4. QED
      BY <2>1, <2>2, <2>3 DEF Init
  <1>5. out = <<>> /\ calls = 0 /\ aborts = 0 /\ ended = 0 /\ faults = 0 /\ me = Nil /\ pc = "idle"
    BY DEF Init
  <1>6. abort_flag \in BOOLEAN /\ failed \in BOOLEAN /\ ~abort_flag
    BY Zenon DEF Init
  <1>7. result \in [call : Call \cup {Nil}, outcome : Outcome, from : Call \cup {Nil}] /\ result.outcome = "none"
    BY DEF Init, Outcome
  <1>8. TypeOK
    BY <1>3, <1>4, <1>5, <1>6, <1>7, UsbAssumption, NoPackets DEF Init, TypeOK
  <1>9. WaitOK /\ AbortsOK /\ CallOK
    BY <1>5, <1>6, <1>7 DEF WaitOK, AbortsOK, CallOK
  <1>10. Numbered
    BY <1>3, <1>4, <1>5, NoPackets, MessageFacts DEF Numbered, Ins, Outs
  <1>11. QED
    BY <1>8, <1>9, <1>10 DEF BasicInv

LEMMA OpenBasic ==
    ASSUME BasicInv, open
    PROVE  BasicInv'
  <1>1. /\ pc = "idle" /\ stage' = "dummy" /\ out' = Append(out, Abort)
        /\ UNCHANGED <<pc, me, timeout, last_command, remaining_time, usb_timeout, result, waited, ended, in, run, last,
                       calls, aborts, faults>>
    BY DEF open, chipVars
  <1>2. abort_flag' \in BOOLEAN /\ ~abort_flag' /\ failed' \in BOOLEAN
    BY Zenon DEF open
  <1>3. /\ out' \in Seq(Message) /\ Outs \in Nat /\ Outs' = Outs + 1 /\ out'[Outs + 1] = Abort
        /\ \A i \in 1..Outs : out'[i] = out[i]
    BY <1>1, OutAppended, MessageFacts DEF BasicInv
  <1>4. TypeOK'
    BY <1>1, <1>2, <1>3 DEF BasicInv, TypeOK, Message
  <1>5. WaitOK' /\ CallOK'
    BY <1>1 DEF BasicInv, WaitOK, CallOK, Short
  <1>6. AbortsOK'
    BY <1>1, <1>2, TimeFacts DEF BasicInv, AbortsOK
  <1>7. Numbered'
    <2>1. \A i \in 1..Outs' : out'[i].call.id <= calls
      BY <1>3, MessageFacts, TimeFacts DEF BasicInv, Numbered
    <2>2. QED
      BY <1>1, <2>1 DEF BasicInv, Numbered, Ins
  <1>8. QED
    BY <1>4, <1>5, <1>6, <1>7 DEF BasicInv

\* A call begins, after what else the host wrote.
LEMMA BeganBasic ==
    ASSUME BasicInv, NEW c \in Cmd, NEW t \in Timeout \cup {Default}, calls < MaxCalls,
           calls' = calls + 1, me' = [cmd |-> c, id |-> calls + 1], timeout' = t, pc' = "ack",
           stage' \in {"dummy", "firmware", "parameters", "open", "closing"},
           out' \in Seq(Message), \A i \in 1..Outs' : out'[i].call.id <= calls',
           UNCHANGED <<last_command, remaining_time, usb_timeout, abort_flag, in, run, last, result, waited, failed, aborts, ended, faults>>
    PROVE  BasicInv'
  <1>1. calls' \in 0..MaxCalls /\ me' \in Call /\ me' # Nil /\ me'.id = calls'
    BY NewCall
  <1>2. TypeOK'
    BY <1>1 DEF BasicInv, TypeOK, Message
  <1>3. WaitOK' /\ AbortsOK' /\ CallOK'
    BY <1>1 DEF BasicInv, WaitOK, AbortsOK, CallOK
  <1>4. Numbered'
    <2>1. run.id \in 0..MaxCalls /\ last.id \in 0..MaxCalls /\ calls \in 0..MaxCalls /\ MaxCalls \in Nat
      BY MessageFacts, TimeFacts DEF BasicInv, TypeOK
    <2>2. run.id <= calls' /\ last.id <= calls' /\ me'.id <= calls'
      BY <1>1, <2>1 DEF BasicInv, Numbered
    <2>3. ASSUME NEW i \in 1..Ins PROVE in[i].call.id <= calls'
      <3>1. in[i] \in Packet
        BY EndpointFacts DEF BasicInv
      <3>2. in[i].call.id \in 0..MaxCalls
        BY <3>1, MessageFacts DEF Packet
      <3>3. QED
        BY <2>1, <3>2 DEF BasicInv, Numbered
    <2>4. Ins' = Ins
      BY DEF Ins
    <2>5. QED
      BY <2>2, <2>3, <2>4 DEF Numbered
  <1>5. QED
    BY <1>2, <1>3, <1>4 DEF BasicInv

\* The numbers in out, which calls' is not less than
LEMMA OutNumbers ==
    ASSUME BasicInv, calls' = calls + 1
    PROVE  /\ calls \in Nat /\ \A i \in 1..Outs : out[i].call.id <= calls'
  <1>1. calls \in 0..MaxCalls /\ MaxCalls \in Nat
    BY TimeFacts DEF BasicInv
  <1>2. ASSUME NEW i \in 1..Outs PROVE out[i].call.id <= calls'
    <2>1. out[i] \in Message
      BY EndpointFacts DEF BasicInv
    <2>2. out[i].call.id \in 0..MaxCalls
      BY <2>1, MessageFacts DEF Message
    <2>3. QED
      BY <1>1, <2>2 DEF BasicInv, Numbered
  <1>3. QED
    BY <1>1, <1>2

LEMMA BeginBasic ==
    ASSUME BasicInv, NEW c \in Cmd, NEW t \in Timeout \cup {Default}, Begin(c, t), UNCHANGED <<stage, abort_flag>>,
           stage \in {"dummy", "firmware", "parameters", "open", "closing"}
    PROVE  BasicInv'
  <1>1. /\ calls < MaxCalls /\ calls' = calls + 1 /\ me' = [cmd |-> c, id |-> calls + 1] /\ timeout' = t /\ pc' = "ack"
        /\ out' = Append(out, Frame(me'))
        /\ UNCHANGED <<last_command, remaining_time, usb_timeout, in, run, last, result, waited, failed, aborts, ended, faults>>
    BY DEF Begin, chipVars
  <1>2. me' \in Call /\ me'.id = calls' /\ Frame(me') \in Message /\ Frame(me').call = me'
    BY <1>1, NewCall
  <1>3. /\ out' \in Seq(Message) /\ Outs \in Nat /\ Outs' = Outs + 1 /\ out'[Outs + 1] = Frame(me')
        /\ \A i \in 1..Outs : out'[i] = out[i]
    BY <1>1, <1>2, OutAppended DEF BasicInv
  <1>4. ASSUME NEW i \in 1..Outs' PROVE out'[i].call.id <= calls'
    <2>1. calls' \in Int /\ \A j \in 1..Outs : out[j].call.id <= calls'
      BY <1>1, OutNumbers
    <2>2. CASE i \in 1..Outs
      BY <1>3, <2>1, <2>2
    <2>3. CASE i = Outs + 1
      BY <1>2, <1>3, <2>1, <2>3
    <2>4. QED
      BY <1>3, <2>2, <2>3
  <1>5. QED
    BY <1>1, <1>3, <1>4, BeganBasic

LEMMA CloseBasic ==
    ASSUME BasicInv, close
    PROVE  BasicInv'
  <1>1. /\ calls < MaxCalls /\ calls' = calls + 1 /\ me' = [cmd |-> "InRelease", id |-> calls + 1]
        /\ timeout' = Default /\ pc' = "ack" /\ stage' = "closing"
        /\ out' = out \o <<Abort, Frame(me')>>
        /\ UNCHANGED <<last_command, remaining_time, usb_timeout, abort_flag, in, run, last, result, waited, failed, aborts, ended, faults>>
    BY DEF close, chipVars
  <1>2. "InRelease" \in Cmd
    BY DEF Cmd
  <1>3. me' \in Call /\ me'.id = calls' /\ Frame(me') \in Message /\ Frame(me').call = me'
    BY <1>1, <1>2, NewCall
  <1>4. /\ out' \in Seq(Message) /\ Outs \in Nat /\ Outs' = Outs + 2
        /\ out'[Outs + 1] = Abort /\ out'[Outs + 2] = Frame(me') /\ \A i \in 1..Outs : out'[i] = out[i]
    BY <1>1, <1>3, MessageFacts, PairFacts DEF BasicInv, TypeOK, Message, Outs
  <1>5. ASSUME NEW i \in 1..Outs' PROVE out'[i].call.id <= calls'
    <2>1. calls' \in Int /\ calls' >= 0 /\ \A j \in 1..Outs : out[j].call.id <= calls'
      BY <1>1, OutNumbers
    <2>2. CASE i \in 1..Outs
      BY <1>4, <2>1, <2>2
    <2>3. CASE i = Outs + 1
      BY <1>4, <2>1, <2>3, MessageFacts
    <2>4. CASE i = Outs + 2
      BY <1>3, <1>4, <2>1, <2>4
    <2>5. QED
      BY <1>4, <2>2, <2>3, <2>4
  <1>6. QED
    BY <1>1, <1>2, <1>4, <1>5, BeganBasic

\* What is read, or written without a call, keeps the endpoints numbered.
LEMMA OutKept ==
    ASSUME BasicInv, \/ out' = out \/ out' = Append(out, Abort) \/ out' = Append(out, Nack)
                     \/ out # <<>> /\ (out' = SubSeq(out, 1, Len(out) - 1) \/ out' = Tail(out))
    PROVE  out' \in Seq(Message) /\ \A i \in 1..Outs' : out'[i].call.id <= calls
  <1>1. TypeOK /\ calls \in Nat /\ \A i \in 1..Outs : out[i].call.id <= calls
    BY TimeFacts DEF BasicInv, Numbered
  <1>2. CASE out' = out
    BY <1>1, <1>2 DEF TypeOK, Message, Outs
  <1>3. ASSUME NEW m \in {Abort, Nack}, out' = Append(out, m)
        PROVE  out' \in Seq(Message) /\ \A i \in 1..Outs' : out'[i].call.id <= calls
    <2>1. m \in Message /\ m.call.id = 0
      BY MessageFacts
    <2>2. /\ out' \in Seq(Message) /\ Outs \in Nat /\ Outs' = Outs + 1 /\ out'[Outs + 1] = m
          /\ \A i \in 1..Outs : out'[i] = out[i]
      BY <1>1, <1>3, <2>1, OutAppended
    <2>3. ASSUME NEW i \in 1..Outs' PROVE out'[i].call.id <= calls
      <3>1. CASE i \in 1..Outs
        BY <1>1, <2>2, <3>1
      <3>2. CASE i = Outs + 1
        BY <1>1, <2>1, <2>2, <3>2
      <3>3. QED
        BY <2>2, <3>1, <3>2
    <2>4. QED
      BY <2>2, <2>3
  <1>4. CASE out # <<>> /\ out' = SubSeq(out, 1, Len(out) - 1)
    <2>1. /\ out' \in Seq(Message) /\ Outs \in Nat /\ Outs' = Outs - 1
          /\ \A i \in 1..Outs' : out'[i] = out[i]
      BY <1>1, <1>4, OutFront
    <2>2. ASSUME NEW i \in 1..Outs' PROVE out'[i].call.id <= calls
      <3>1. i \in 1..Outs
        BY <2>1
      <3>2. QED
        BY <1>1, <2>1, <3>1
    <2>3. QED
      BY <2>1, <2>2
  <1>5. CASE out # <<>> /\ out' = Tail(out)
    <2>1. /\ out' \in Seq(Message) /\ Outs \in Nat /\ Outs' = Outs - 1
          /\ \A i \in 1..Outs' : out'[i] = out[i + 1]
      BY <1>1, <1>5, OutTaken
    <2>2. ASSUME NEW i \in 1..Outs' PROVE out'[i].call.id <= calls
      <3>1. i + 1 \in 1..Outs
        BY <2>1
      <3>2. QED
        BY <1>1, <2>1, <3>1
    <2>3. QED
      BY <2>1, <2>2
  <1>6. QED
    BY <1>2, <1>3, <1>4, <1>5

LEMMA InKept ==
    ASSUME BasicInv, in' = in \/ (in # <<>> /\ in' = Tail(in))
    PROVE  in' \in Seq(Packet) /\ \A i \in 1..Ins' : in'[i].call.id <= calls
  <1>1. TypeOK /\ \A i \in 1..Ins : in[i].call.id <= calls
    BY DEF BasicInv, Numbered
  <1>2. CASE in' = in
    BY <1>1, <1>2 DEF TypeOK, Ins
  <1>3. CASE in # <<>> /\ in' = Tail(in)
    <2>1. in' \in Seq(Packet) /\ Ins \in Nat /\ Ins' = Ins - 1 /\ \A i \in 1..Ins' : in'[i] = in[i + 1]
      BY <1>1, <1>3, InTaken
    <2>2. ASSUME NEW i \in 1..Ins' PROVE in'[i].call.id <= calls
      <3>1. i + 1 \in 1..Ins
        BY <2>1
      <3>2. QED
        BY <1>1, <2>1, <3>1
    <2>3. QED
      BY <2>1, <2>2
  <1>4. QED
    BY <1>2, <1>3

LEMMA AfterFacts ==
    ASSUME BasicInv, NEW o, NEW f, Return(o, f)
    PROVE  /\ stage' = CASE stage = "dummy" -> "firmware"
                         [] stage = "firmware" -> IF o = "payload" THEN "parameters" ELSE "closed"
                         [] stage = "parameters" -> IF o = "payload" THEN "open" ELSE "closed"
                         [] stage = "closing" -> "closed"
                         [] OTHER -> stage
           /\ stage' \in {"closed", "dummy", "firmware", "parameters", "open", "closing"}
  <1>1. stage \in {"closed", "dummy", "firmware", "parameters", "open", "closing"}
    BY DEF BasicInv, TypeOK
  <1>2. stage' = CASE stage = "dummy" -> "firmware"
                   [] stage = "firmware" -> IF o = "payload" THEN "parameters" ELSE "closed"
                   [] stage = "parameters" -> IF o = "payload" THEN "open" ELSE "closed"
                   [] stage = "closing" -> "closed"
                   [] OTHER -> stage
    BY DEF Return, After
  <1>3. QED
    BY <1>1, <1>2

LEMMA ReturnBasic ==
    ASSUME BasicInv, NEW o \in Outcome, NEW f \in Call \cup {Nil}, Return(o, f),
           UNCHANGED <<me, timeout, last_command, run, last, calls, aborts>>,
           out' \in Seq(Message), \A i \in 1..Outs' : out'[i].call.id <= calls,
           in' \in Seq(Packet), \A i \in 1..Ins' : in'[i].call.id <= calls,
           abort_flag' \in BOOLEAN, waited' \in Nat, ended' \in 0..MaxAborts, faults' \in 0..MaxFaults, AbortsOK',
           o = "ETIMEOUT" => waited' = Short
    PROVE  BasicInv'
  <1>1. /\ pc' = "idle" /\ remaining_time' = 0 /\ usb_timeout' = 0
        /\ result' \in [call : Call \cup {Nil}, outcome : Outcome, from : Call \cup {Nil}] /\ result'.outcome = o
    BY DEF Return, BasicInv, TypeOK
  <1>2. failed' \in BOOLEAN
    BY Zenon DEF Return
  <1>3. 0 \in 0..Slice /\ 0 \in Int
    BY UsbAssumption
  <1>4. TypeOK'
    BY <1>1, <1>2, <1>3, AfterFacts DEF BasicInv, TypeOK, Message
  <1>5. WaitOK' /\ CallOK'
    BY <1>1 DEF WaitOK, CallOK, Short
  <1>6. Numbered'
    BY DEF BasicInv, Numbered
  <1>7. QED
    BY <1>4, <1>5, <1>6 DEF BasicInv

LEMMA OutcomeFacts == {"payload", "EIO", "ETIMEOUT", "EUSB", "EOPABORTED"} \subseteq Outcome /\ Nil \in Call \cup {Nil}
  BY DEF Outcome

LEMMA AckTimeoutBasic ==
    ASSUME BasicInv, ack_timeout \/ io_error
    PROVE  BasicInv'
  <1>1. /\ Return("EUSB", Nil) /\ (in' = in \/ (in # <<>> /\ in' = Tail(in)))
        /\ UNCHANGED <<me, timeout, last_command, abort_flag, run, last, waited, calls, aborts, ended>>
        /\ \/ out' = out \/ out' = Append(out, Abort)
           \/ out # <<>> /\ out' = SubSeq(out, 1, Len(out) - 1)
        /\ faults' = faults \/ (faults < MaxFaults /\ faults' = faults + 1)
    <2>1. CASE ack_timeout
      BY <2>1 DEF ack_timeout, chipVars
    <2>2. CASE io_error
      <3>1. out' \in {out, Append(out, Abort)}
            \/ out' \in (IF out # <<>> /\ out[Len(out)] = Frame(me) THEN {SubSeq(out, 1, Len(out) - 1)} ELSE {})
        BY <2>2 DEF io_error
      <3>2. QED
        BY <2>2, <3>1 DEF io_error
    <2>3. QED
      BY <2>1, <2>2
  <1>2. faults \in 0..MaxFaults /\ MaxFaults \in Nat
    BY UsbAssumption DEF BasicInv, TypeOK
  <1>3. faults' \in 0..MaxFaults
    BY <1>1, <1>2
  <1>4. abort_flag' \in BOOLEAN /\ waited' \in Nat /\ ended' \in 0..MaxAborts /\ AbortsOK'
    BY <1>1 DEF BasicInv, TypeOK, AbortsOK
  <1>5. QED
    BY <1>1, <1>3, <1>4, OutKept, InKept, OutcomeFacts, ReturnBasic

LEMMA ReadReplyBasic ==
    ASSUME BasicInv, read_reply
    PROVE  BasicInv'
  <1>1. /\ in # <<>> /\ in' = Tail(in)
        /\ UNCHANGED <<me, timeout, last_command, abort_flag, out, run, last, waited, calls, aborts, ended, faults>>
    BY DEF read_reply
  <1>2. abort_flag' \in BOOLEAN /\ waited' \in Nat /\ ended' \in 0..MaxAborts /\ faults' \in 0..MaxFaults /\ AbortsOK'
    BY <1>1 DEF BasicInv, TypeOK, AbortsOK
  <1>3. Head(in).call \in Call \cup {Nil}
    BY <1>1, InTaken DEF BasicInv, Packet
  <1>4. CASE Return("payload", Head(in).call)
    BY <1>1, <1>2, <1>3, <1>4, OutKept, InKept, OutcomeFacts, ReturnBasic
  <1>5. CASE Return("EIO", Nil)
    BY <1>1, <1>2, <1>5, OutKept, InKept, OutcomeFacts, ReturnBasic
  <1>6. QED
    BY <1>4, <1>5 DEF read_reply

LEMMA ReadAckBasic ==
    ASSUME BasicInv, read_ack
    PROVE  BasicInv'
  <1>1. /\ pc = "ack" /\ in # <<>> /\ in' = Tail(in) /\ last_command' = me.cmd /\ remaining_time' = timeout
        /\ waited' = 0 /\ pc' = "pass" /\ (out' = out \/ out' = Append(out, Nack))
        /\ UNCHANGED <<stage, me, timeout, usb_timeout, abort_flag, run, last, result, failed, calls, aborts, ended, faults>>
    BY DEF read_ack
  <1>2. out' \in Seq(Message) /\ \A i \in 1..Outs' : out'[i].call.id <= calls
    BY <1>1, OutKept
  <1>3. in' \in Seq(Packet) /\ \A i \in 1..Ins' : in'[i].call.id <= calls
    BY <1>1, InKept
  <1>4. me.cmd \in Cmd \cup {"none"} /\ timeout \in Nat
    BY MessageFacts, TimeFacts DEF BasicInv, TypeOK
  <1>5. TypeOK'
    BY <1>1, <1>2, <1>3, <1>4 DEF BasicInv, TypeOK, Message
  <1>6. WaitOK'
    BY <1>1, TimeFacts DEF BasicInv, WaitOK, Short
  <1>7. AbortsOK' /\ CallOK'
    BY <1>1 DEF BasicInv, AbortsOK, CallOK
  <1>8. Numbered'
    BY <1>1, <1>2, <1>3 DEF BasicInv, Numbered
  <1>9. QED
    BY <1>5, <1>6, <1>7, <1>8 DEF BasicInv

\* The arithmetic of a pass: with t for the time-out, s for a slice, w for what was
\* waited and r for remaining_time
LEMMA PassTime ==
    ASSUME NEW t \in Nat, NEW s \in Nat, s >= 1, NEW w \in Nat, NEW r \in Int, NEW u, NEW total,
           total = IF t > s THEN t - s ELSE 0,
           w + (IF r > s THEN r - s ELSE 0) = total
    PROVE  /\ r - s <= 0 => w = total
           /\ r - s > 0 => w + (r - s) = total
  OBVIOUS

LEMMA ReadTime ==
    ASSUME NEW s \in Nat, s >= 1, NEW w \in Nat, NEW r \in Int, NEW u \in Int, NEW total \in Int,
           r > 0, w + r = total, u = IF r < s THEN r ELSE s
    PROVE  (w + u) + (IF r > s THEN r - s ELSE 0) = total
  OBVIOUS

LEMMA NextPassBasic ==
    ASSUME BasicInv, next_pass
    PROVE  BasicInv'
  <1>1. /\ pc = "pass"
        /\ UNCHANGED <<me, timeout, last_command, abort_flag, out, in, run, last, waited, calls, aborts, ended, faults>>
    BY DEF next_pass, chipVars
  <1>2. /\ timeout \in Nat /\ Slice \in Nat /\ Slice >= 1 /\ remaining_time \in Int /\ waited \in Nat
    BY TimeFacts DEF BasicInv
  <1>3. abort_flag' \in BOOLEAN /\ waited' \in Nat /\ ended' \in 0..MaxAborts /\ faults' \in 0..MaxFaults /\ AbortsOK'
    BY <1>1 DEF BasicInv, TypeOK, AbortsOK
  <1>4. timeout # 0 => waited + (IF remaining_time > Slice THEN remaining_time - Slice ELSE 0) = Short
    BY <1>1 DEF BasicInv, WaitOK
  <1>5. CASE timeout # 0 /\ remaining_time - Slice <= 0 /\ Return("ETIMEOUT", Nil)
    <2>1. waited' = Short
      BY <1>1, <1>2, <1>4, <1>5, PassTime DEF Short
    <2>2. QED
      BY <1>1, <1>3, <1>5, <2>1, OutKept, InKept, OutcomeFacts, ReturnBasic
  <1>6. CASE \/ timeout = 0 /\ usb_timeout' = Slice /\ pc' = "read" /\ UNCHANGED <<remaining_time, stage, result, failed>>
             \/ /\ timeout # 0 /\ remaining_time - Slice > 0 /\ remaining_time' = remaining_time - Slice
                /\ usb_timeout' = IF remaining_time' < Slice THEN remaining_time' ELSE Slice
                /\ pc' = "read" /\ UNCHANGED <<stage, result, failed>>
    <2>1. pc' = "read" /\ UNCHANGED <<stage, result, failed>> /\ remaining_time' \in Int /\ usb_timeout' \in 0..Slice
      BY <1>2, <1>6
    <2>2. TypeOK'
      BY <1>1, <2>1 DEF BasicInv, TypeOK
    <2>3. ASSUME timeout # 0
          PROVE  /\ remaining_time' > 0 /\ waited + remaining_time' = Short
                 /\ usb_timeout' = IF remaining_time' < Slice THEN remaining_time' ELSE Slice
      <3>1. waited + (remaining_time - Slice) = Short
        BY <1>2, <1>4, <1>6, <2>3, PassTime DEF Short
      <3>2. QED
        BY <1>2, <1>6, <2>3, <3>1
    <2>4. WaitOK' /\ CallOK' /\ Numbered'
      BY <1>1, <2>1, <2>3 DEF BasicInv, WaitOK, Short, CallOK, Numbered, Ins, Outs
    <2>5. QED
      BY <1>3, <2>2, <2>4 DEF BasicInv
  <1>7. QED
    BY <1>5, <1>6 DEF next_pass

LEMMA ReadTimeoutBasic ==
    ASSUME BasicInv, read_timeout
    PROVE  BasicInv'
  <1>1. /\ pc = "read" /\ waited' = IF timeout = 0 THEN 0 ELSE waited + usb_timeout
        /\ UNCHANGED <<me, timeout, last_command, in, run, last, calls, aborts, faults>>
    BY DEF read_timeout, chipVars
  <1>2. /\ timeout \in Nat /\ Slice \in Nat /\ Slice >= 1 /\ remaining_time \in Int /\ waited \in Nat
        /\ usb_timeout \in 0..Slice /\ aborts \in 0..MaxAborts /\ ended \in 0..MaxAborts /\ MaxAborts \in Nat
    BY TimeFacts DEF BasicInv
  <1>3. waited' \in Nat /\ faults' \in 0..MaxFaults
    BY <1>1, <1>2 DEF BasicInv, TypeOK
  <1>4. CASE abort_flag /\ abort_flag' = FALSE /\ ended' = ended + 1 /\ out' = Append(out, Abort) /\ Return("EOPABORTED", Nil)
    <2>1. ended + 1 <= aborts
      BY <1>4 DEF BasicInv, AbortsOK
    <2>2. ended' \in 0..MaxAborts
      BY <1>2, <1>4, <2>1
    <2>3. abort_flag' \in BOOLEAN /\ ~abort_flag'
      BY <1>4, Zenon
    <2>4. AbortsOK'
      BY <1>1, <1>2, <1>4, <2>1, <2>3 DEF AbortsOK
    <2>5. QED
      BY <1>1, <1>3, <1>4, <2>2, <2>3, <2>4, OutKept, InKept, OutcomeFacts, ReturnBasic
  <1>5. CASE pc' = "pass" /\ UNCHANGED <<remaining_time, usb_timeout, abort_flag, ended, out, stage, result, failed>>
    <2>1. TypeOK'
      BY <1>1, <1>3, <1>5 DEF BasicInv, TypeOK
    <2>2. ASSUME timeout # 0 PROVE waited' + (IF remaining_time > Slice THEN remaining_time - Slice ELSE 0) = Short
      <3>1. /\ remaining_time > 0 /\ waited + remaining_time = Short
            /\ usb_timeout = IF remaining_time < Slice THEN remaining_time ELSE Slice
        BY <1>1, <2>2 DEF BasicInv, WaitOK
      <3>2. Short \in Int /\ usb_timeout \in Int
        BY <1>2 DEF Short
      <3>3. QED
        BY <1>1, <1>2, <2>2, <3>1, <3>2, ReadTime
    <2>3. WaitOK'
      BY <1>1, <1>5, <2>2 DEF WaitOK, Short
    <2>4. AbortsOK' /\ CallOK' /\ Numbered'
      BY <1>1, <1>5 DEF BasicInv, AbortsOK, CallOK, Numbered, Ins, Outs
    <2>5. QED
      BY <2>1, <2>3, <2>4 DEF BasicInv
  <1>6. QED
    BY <1>4, <1>5 DEF read_timeout

LEMMA AbortBasic ==
    ASSUME BasicInv, abort_command
    PROVE  BasicInv'
  <1>1. /\ aborts < MaxAborts /\ aborts' = aborts + 1
        /\ UNCHANGED <<stage, pc, me, timeout, last_command, remaining_time, usb_timeout, result, waited, failed, ended,
                       out, in, run, last, calls, faults>>
    BY DEF abort_command, hostVars, chipVars
  <1>2. abort_flag' \in BOOLEAN
    BY Zenon DEF abort_command
  <1>3. aborts \in 0..MaxAborts /\ ended \in 0..MaxAborts /\ MaxAborts \in Nat
    BY TimeFacts DEF BasicInv
  <1>4. aborts' \in 0..MaxAborts
    BY <1>1, <1>3
  <1>5. TypeOK'
    BY <1>1, <1>2, <1>4 DEF BasicInv, TypeOK
  <1>6. AbortsOK'
    <2>1. ended <= aborts
      BY <1>3 DEF BasicInv, AbortsOK
    <2>2. QED
      BY <1>1, <1>3, <2>1 DEF AbortsOK
  <1>7. WaitOK' /\ CallOK' /\ Numbered'
    BY <1>1 DEF BasicInv, WaitOK, Short, CallOK, Numbered, Ins, Outs
  <1>8. QED
    BY <1>5, <1>6, <1>7 DEF BasicInv

\* A step of the chip
LEMMA ChipBasic ==
    ASSUME BasicInv, UNCHANGED <<hostVars, abort_flag, calls, aborts, faults>>,
           run' \in Call \cup {Nil}, last' \in Call \cup {Nil}, run'.id <= calls, last'.id <= calls,
           out' \in Seq(Message), \A i \in 1..Outs' : out'[i].call.id <= calls,
           in' \in Seq(Packet), \A i \in 1..Ins' : in'[i].call.id <= calls
    PROVE  BasicInv'
  <1>1. UNCHANGED <<stage, pc, me, timeout, last_command, remaining_time, usb_timeout, result, waited, failed, ended>>
    BY DEF hostVars
  <1>2. TypeOK'
    BY <1>1 DEF BasicInv, TypeOK, Message
  <1>3. WaitOK' /\ AbortsOK' /\ CallOK'
    BY <1>1 DEF BasicInv, WaitOK, Short, AbortsOK, CallOK
  <1>4. Numbered'
    BY <1>1 DEF BasicInv, Numbered
  <1>5. QED
    BY <1>2, <1>3, <1>4 DEF BasicInv

LEMMA InAppendKept ==
    ASSUME BasicInv, NEW p \in Packet, p.call.id <= calls
    PROVE  in' = Append(in, p) => in' \in Seq(Packet) /\ \A i \in 1..Ins' : in'[i].call.id <= calls
  <1>1. \A i \in 1..Ins : in[i].call.id <= calls
    BY DEF BasicInv, Numbered
  <1>2. ASSUME in' = Append(in, p)
        PROVE  /\ in' \in Seq(Packet) /\ Ins \in Nat /\ Ins' = Ins + 1 /\ in'[Ins + 1] = p
               /\ \A i \in 1..Ins : in'[i] = in[i]
    BY <1>2, InAppended DEF BasicInv
  <1>3. ASSUME /\ in' \in Seq(Packet) /\ Ins \in Nat /\ Ins' = Ins + 1 /\ in'[Ins + 1] = p
               /\ \A i \in 1..Ins : in'[i] = in[i],
               NEW i \in 1..Ins'
        PROVE  in'[i].call.id <= calls
    <2>1. CASE i \in 1..Ins
      BY <1>1, <1>3, <2>1
    <2>2. CASE i = Ins + 1
      <3>1. in'[i] = p
        BY <1>3, <2>2
      <3>2. QED
        BY <3>1
    <2>3. QED
      BY <1>3, <2>1, <2>2
  <1>4. QED
    BY <1>2, <1>3

\* What the chip's steps do, case by case
TakeFrame(f) ==
    /\ f.kind = "frame" /\ run' = f.call /\ last' = last
    /\ \/ in' = Append(in, Ack(f.call))
       \/ run # Nil /\ in' = in
TakeAbort(f) == f.kind = "ack" /\ run' = Nil /\ last' = last /\ (in' = in \/ in' = <<>>)
TakeNack(f) ==
    /\ f.kind = "nack" /\ UNCHANGED <<run, last>>
    /\ \/ (run # Nil \/ last = Nil) /\ in' = in
       \/ run = Nil /\ last # Nil /\ in' = Append(in, Reply(last))

LEMMA TakeCases ==
    ASSUME BasicInv, chip_take
    PROVE  /\ out # <<>> /\ out' = Tail(out) /\ UNCHANGED <<hostVars, abort_flag, calls, aborts, faults>>
           /\ out[1] \in Message /\ Outs \in Nat /\ Outs >= 1 /\ Outs' = Outs - 1
           /\ \A i \in 1..Outs' : out'[i] = out[i + 1]
           /\ TakeFrame(out[1]) \/ TakeAbort(out[1]) \/ TakeNack(out[1])
  <1>1. out # <<>> /\ out' = Tail(out) /\ UNCHANGED <<hostVars, abort_flag, calls, aborts, faults>>
    BY DEF chip_take
  <1>2. /\ out[1] \in Message /\ Head(out) = out[1] /\ Outs \in Nat /\ Outs >= 1 /\ Outs' = Outs - 1
        /\ \A i \in 1..Outs' : out'[i] = out[i + 1]
    BY <1>1, OutTaken DEF BasicInv
  <1>3. \/ TakeFrame(Head(out)) \/ TakeAbort(Head(out)) \/ TakeNack(Head(out))
    <2> DEFINE f == Head(out)
    <2>1. CASE f.kind = "frame" /\ run' = f.call /\ UNCHANGED last
               /\ in' \in {Append(in, Ack(f.call))} \cup (IF run = Nil THEN {} ELSE {in})
      BY <2>1 DEF TakeFrame
    <2>2. CASE f.kind = "ack" /\ run' = Nil /\ in' \in {in, <<>>} /\ UNCHANGED last
      BY <2>2 DEF TakeAbort
    <2>3. CASE f.kind = "nack" /\ UNCHANGED <<run, last>>
               /\ in' \in IF run # Nil \/ last = Nil THEN {in} ELSE {Append(in, Reply(last))}
      BY <2>3 DEF TakeNack
    <2>4. QED
      BY <2>1, <2>2, <2>3 DEF chip_take
  <1>4. QED
    BY <1>1, <1>2, <1>3

LEMMA ChipTakeBasic ==
    ASSUME BasicInv, chip_take
    PROVE  BasicInv'
  <1>1. /\ out # <<>> /\ out' = Tail(out) /\ UNCHANGED <<hostVars, abort_flag, calls, aborts, faults>>
        /\ out[1] \in Message /\ Outs \in Nat /\ Outs >= 1
        /\ TakeFrame(out[1]) \/ TakeAbort(out[1]) \/ TakeNack(out[1])
    BY TakeCases
  <1>2. out' \in Seq(Message) /\ \A i \in 1..Outs' : out'[i].call.id <= calls
    BY <1>1, OutKept
  <1>3. /\ out[1].call \in Call \cup {Nil} /\ out[1].call.id <= calls
        /\ run \in Call \cup {Nil} /\ last \in Call \cup {Nil} /\ run.id <= calls /\ last.id <= calls
        /\ Nil \in Call \cup {Nil} /\ Nil.id <= calls
    BY <1>1, MessageFacts, TimeFacts DEF BasicInv, TypeOK, Numbered, Message
  <1>4. CASE TakeFrame(out[1])
    <2>1. run' = out[1].call /\ last' = last
      BY <1>4 DEF TakeFrame
    <2>2. Ack(out[1].call) \in Packet /\ Ack(out[1].call).call = out[1].call
      BY <1>3, MessageFacts
    <2>3. in' \in Seq(Packet) /\ \A i \in 1..Ins' : in'[i].call.id <= calls
      <3>1. CASE in' = in
        BY <3>1, InKept
      <3>2. CASE in' = Append(in, Ack(out[1].call))
        BY <1>3, <2>2, <3>2, InAppendKept
      <3>3. QED
        BY <1>4, <3>1, <3>2 DEF TakeFrame
    <2>4. QED
      BY <1>1, <1>2, <1>3, <2>1, <2>3, ChipBasic
  <1>5. CASE TakeAbort(out[1])
    <2>1. run' = Nil /\ last' = last /\ run'.id <= calls
      BY <1>3, <1>5 DEF TakeAbort
    <2>2. in' \in Seq(Packet) /\ \A i \in 1..Ins' : in'[i].call.id <= calls
      <3>1. CASE in' = in
        BY <3>1, InKept
      <3>2. CASE in' = <<>>
        BY <3>2, InCleared
      <3>3. QED
        BY <1>5, <3>1, <3>2 DEF TakeAbort
    <2>3. QED
      BY <1>1, <1>2, <1>3, <2>1, <2>2, ChipBasic
  <1>6. CASE TakeNack(out[1])
    <2>1. run' = run /\ last' = last
      BY <1>6 DEF TakeNack
    <2>2. Reply(last) \in Packet /\ Reply(last).call = last
      BY <1>3, MessageFacts
    <2>3. in' \in Seq(Packet) /\ \A i \in 1..Ins' : in'[i].call.id <= calls
      <3>1. CASE in' = in
        BY <3>1, InKept
      <3>2. CASE in' = Append(in, Reply(last))
        BY <1>3, <2>2, <3>2, InAppendKept
      <3>3. QED
        BY <1>6, <3>1, <3>2 DEF TakeNack
    <2>4. QED
      BY <1>1, <1>2, <1>3, <2>1, <2>3, ChipBasic
  <1>7. QED
    BY <1>1, <1>4, <1>5, <1>6

LEMMA ChipReplyBasic ==
    ASSUME BasicInv, chip_reply
    PROVE  BasicInv'
  <1>1. /\ run # Nil /\ in' = Append(in, Reply(run)) /\ last' = run /\ run' = Nil
        /\ UNCHANGED <<hostVars, abort_flag, out, calls, aborts, faults>>
    BY DEF chip_reply
  <1>2. run \in Call \cup {Nil} /\ run.id <= calls /\ Nil \in Call \cup {Nil} /\ Nil.id <= calls
    BY MessageFacts, TimeFacts DEF BasicInv, TypeOK, Numbered
  <1>3. Reply(run) \in Packet /\ Reply(run).call = run
    BY <1>2, MessageFacts
  <1>4. in' \in Seq(Packet) /\ \A i \in 1..Ins' : in'[i].call.id <= calls
    BY <1>1, <1>2, <1>3, InAppendKept
  <1>5. out' \in Seq(Message) /\ \A i \in 1..Outs' : out'[i].call.id <= calls
    BY <1>1, OutKept
  <1>6. last'.id <= calls /\ run'.id <= calls /\ last' \in Call \cup {Nil} /\ run' \in Call \cup {Nil}
    BY <1>1, <1>2
  <1>7. QED
    BY <1>1, <1>4, <1>5, <1>6, ChipBasic

LEMMA CallBasic ==
    ASSUME BasicInv, open_command \/ \E c \in AppCmd, t \in Timeout : transceive(c, t)
    PROVE  BasicInv'
  <1>1. \A c \in AppCmd \cup {"GetFirmwareVersion", "SetParameters"} : c \in Cmd
    BY DEF Cmd
  <1>2. CASE open_command
    <2>1. UNCHANGED <<stage, abort_flag>>
      BY <1>2 DEF open_command
    <2>2. CASE stage \in {"dummy", "firmware"} /\ Begin("GetFirmwareVersion", Default)
      BY <1>1, <2>1, <2>2, BeginBasic
    <2>3. CASE stage = "parameters" /\ Begin("SetParameters", Default)
      BY <1>1, <2>1, <2>3, BeginBasic
    <2>4. QED
      BY <1>2, <2>2, <2>3 DEF open_command
  <1>3. ASSUME NEW c \in AppCmd, NEW t \in Timeout, transceive(c, t) PROVE BasicInv'
    BY <1>1, <1>3, BeginBasic DEF transceive
  <1>4. QED
    BY <1>2, <1>3

LEMMA NextBasic ==
    ASSUME BasicInv, [Next]_vars
    PROVE  BasicInv'
  <1>1. CASE UNCHANGED vars
    BY <1>1 DEF vars, hostVars, chipVars, BasicInv, TypeOK, WaitOK, Short, AbortsOK, CallOK, Numbered, Ins, Outs
  <1>2. CASE Next
    BY <1>2, OpenBasic, CallBasic, CloseBasic, ReadAckBasic, AckTimeoutBasic, NextPassBasic, ReadTimeoutBasic,
       ReadReplyBasic, AbortBasic, ChipTakeBasic, ChipReplyBasic DEF Next, Host, Chip
  <1>3. QED
    BY <1>1, <1>2

-----------------------------------------------------------------------------
(* LinkInv: the steps of the chip                                          *)

SameIn == Ins' = Ins /\ \A i \in 1..Ins : in'[i] = in[i]
TakenIn == Ins >= 1 /\ Ins' = Ins - 1 /\ \A i \in 1..Ins' : in'[i] = in[i + 1]
GrownIn(p) == Ins' = Ins + 1 /\ in'[Ins'] = p /\ \A i \in 1..Ins : in'[i] = in[i]

SameOut == Outs' = Outs /\ \A i \in 1..Outs : out'[i] = out[i]
TakenOut == Outs >= 1 /\ Outs' = Outs - 1 /\ \A i \in 1..Outs' : out'[i] = out[i + 1]
GrownOut(m) == Outs' = Outs + 1 /\ out'[Outs'] = m /\ \A i \in 1..Outs : out'[i] = out[i]
CutOut == Outs >= 1 /\ Outs' = Outs - 1 /\ (\A i \in 1..Outs' : out'[i] = out[i]) /\ out[Outs].kind = "frame"

LEMMA MessageIs ==
    /\ \A m \in Message : /\ m.call \in Call \cup {Nil}
                          /\ m.kind = "frame" => m = Frame(m.call)
                          /\ m.kind = "nack" \/ m.kind = "frame" => m # Abort
    /\ \A p \in Packet : /\ p.call \in Call \cup {Nil}
                         /\ p.kind = "reply" => p = Reply(p.call)
  BY DEF Message, Packet, Frame, Reply, Abort

\* The five ways the chip goes on
LEMMA ChipCases ==
    ASSUME BasicInv, Chip
    PROVE  /\ UNCHANGED <<stage, pc, me, result, failed>>
           /\ \/ /\ TakenOut /\ out[1].kind = "frame" /\ run' = out[1].call /\ last' = last
                 /\ GrownIn(Ack(out[1].call)) \/ (run # Nil /\ SameIn)
              \/ TakenOut /\ out[1].kind = "ack" /\ run' = Nil /\ last' = last /\ (SameIn \/ Ins' = 0)
              \/ TakenOut /\ out[1].kind = "nack" /\ run' = run /\ last' = last /\ (run # Nil \/ last = Nil) /\ SameIn
              \/ TakenOut /\ out[1].kind = "nack" /\ run' = run /\ last' = last /\ run = Nil /\ GrownIn(Reply(last))
              \/ SameOut /\ run # Nil /\ GrownIn(Reply(run)) /\ last' = run /\ run' = Nil
  <1>1. UNCHANGED hostVars
    BY DEF Chip, chip_take, chip_reply
  <1>2. \A p \in Packet : in' = Append(in, p) => GrownIn(p)
    BY InAppended DEF BasicInv, GrownIn
  <1>3. in' = in => SameIn
    BY DEF SameIn, Ins
  <1>4. in' = <<>> => Ins' = 0
    BY InCleared
  <1>5. run \in Call \cup {Nil} /\ last \in Call \cup {Nil}
    BY DEF BasicInv, TypeOK
  <1>6. CASE chip_reply
    <2>1. SameOut
      BY <1>6 DEF chip_reply, SameOut, Outs
    <2>2. QED
      BY <1>1, <1>2, <1>5, <1>6, <2>1, MessageFacts DEF chip_reply, hostVars
  <1>7. CASE chip_take
    <2>1. TakenOut /\ out[1] \in Message
      BY <1>7, TakeCases DEF TakenOut
    <2>2. out[1].call \in Call \cup {Nil}
      BY <2>1, MessageIs
    <2>3. CASE TakeFrame(out[1])
      BY <1>1, <1>2, <1>3, <2>1, <2>2, <2>3, MessageFacts DEF TakeFrame, hostVars
    <2>4. CASE TakeAbort(out[1])
      BY <1>1, <1>3, <1>4, <2>1, <2>4 DEF TakeAbort, hostVars
    <2>5. CASE TakeNack(out[1])
      BY <1>1, <1>2, <1>3, <1>5, <2>1, <2>5, MessageFacts DEF TakeNack, hostVars
    <2>6. QED
      BY <1>7, <2>3, <2>4, <2>5, TakeCases
  <1>8. QED
    BY <1>6, <1>7 DEF Chip
\* An endpoint that is settled stays so.
LEMMA ChipSettled ==
    ASSUME BasicInv, Chip, Settled \/ Ins = 0, Settled \/ Ins' > 0
    PROVE  Settled'
  <1>1. /\ Ins \in Nat /\ Outs \in Nat
        /\ \A i \in 1..Outs : out[i] \in Message
    BY EndpointFacts DEF BasicInv
  <1>2. out[1].kind \in {"frame", "nack"} => ~AbortNext
    BY <1>1, MessageIs DEF AbortNext
  <1>3. CASE run' = Nil
    BY <1>3 DEF Settled
  <1>4. CASE TakenOut /\ out[1].kind = "nack" /\ run' = run /\ SameIn
    BY <1>1, <1>2, <1>4 DEF Settled, EndsAck, SameIn
  <1>5. CASE TakenOut /\ out[1].kind = "frame" /\ run # Nil /\ SameIn
    BY <1>1, <1>2, <1>5 DEF Settled, EndsAck, SameIn
  <1>6. CASE TakenOut /\ GrownIn(Ack(out[1].call))
    <2>1. out[1].call \in Call \cup {Nil}
      BY <1>1, <1>6, MessageIs DEF TakenOut
    <2>2. QED
      BY <1>1, <1>6, <2>1, MessageFacts DEF Settled, EndsAck, GrownIn
  <1>7. QED
    BY <1>3, <1>4, <1>5, <1>6, ChipCases

LEMMA ChipOpening ==
    ASSUME BasicInv, OpeningOK, Chip
    PROVE  OpeningOK'
  <1>1. UNCHANGED <<stage, pc, me, result, failed>>
    BY ChipCases
  <1> SUFFICES ASSUME Opening PROVE (StaleOK /\ NackOK /\ SentOK)' /\ (Ins > 0 => Settled)'
                     /\ (stage = "parameters" /\ pc \in {"idle", "ack"} => Settled)'
    BY <1>1 DEF OpeningOK, Opening
  <1> DEFINE Frm == /\ TakenOut /\ out[1].kind = "frame" /\ run' = out[1].call /\ last' = last
                    /\ GrownIn(Ack(out[1].call)) \/ (run # Nil /\ SameIn)
             Abt == TakenOut /\ out[1].kind = "ack" /\ run' = Nil /\ last' = last /\ (SameIn \/ Ins' = 0)
             Nck == TakenOut /\ out[1].kind = "nack" /\ run' = run /\ last' = last /\ (run # Nil \/ last = Nil) /\ SameIn
             Again == TakenOut /\ out[1].kind = "nack" /\ run' = run /\ last' = last /\ run = Nil /\ GrownIn(Reply(last))
             Rep == SameOut /\ run # Nil /\ GrownIn(Reply(run)) /\ last' = run /\ run' = Nil
  <1>2. Frm \/ Abt \/ Nck \/ Again \/ Rep
    BY ChipCases
  <1>3. /\ Ins \in Nat /\ Outs \in Nat
        /\ \A i \in 1..Ins : in[i] \in Packet
        /\ \A i \in 1..Outs : out[i] \in Message
    BY EndpointFacts DEF BasicInv
  <1>4. run \in Call \cup {Nil} /\ last \in Call \cup {Nil}
    BY DEF BasicInv, TypeOK
  <1>5. \A c : Stale(c)' = Stale(c)
    BY <1>1 DEF Stale
  <1>6. Depth' = Depth /\ Depth \in Nat
    BY <1>1 DEF Depth
  <1>7. ~Stale(Nil)
    BY MessageFacts DEF Stale
  <1>8. out[1].kind \in {"frame", "nack"} => ~AbortNext
    BY <1>3, MessageIs DEF AbortNext
  <1>9. StaleOK /\ NackOK /\ SentOK /\ (Ins > 0 => Settled) /\ (stage = "parameters" /\ pc \in {"idle", "ack"} => Settled)
    BY DEF OpeningOK
  <1>10. ASSUME NEW i \in 1..Ins', in'[i].kind # "ack", Stale(in'[i].call) PROVE i <= Depth
    <2>1. CASE Frm
      BY <1>3, <1>4, <1>6, <1>9, <1>10, <2>1, MessageFacts, MessageIs DEF StaleOK, SameIn, GrownIn, TakenOut
    <2>2. CASE Abt
      <3>1. CASE SameIn
        BY <1>3, <1>6, <1>9, <1>10, <3>1 DEF StaleOK, SameIn
      <3>2. CASE Ins' = 0
        BY <1>10, <3>2
      <3>3. QED
        BY <2>2, <3>1, <3>2
    <2>3. CASE Nck
      BY <1>3, <1>6, <1>9, <1>10, <2>3 DEF StaleOK, SameIn
    <2>4. CASE Again
      <3>1. ~Stale(last)
        BY <1>3, <1>9, <2>4 DEF NackOK, TakenOut
      <3>2. QED
        BY <1>3, <1>4, <1>6, <1>9, <1>10, <2>4, <3>1, MessageFacts DEF StaleOK, GrownIn
    <2>5. CASE Rep
      <3>1. Stale(run) => Ins + 1 <= Depth
        BY <1>3, <1>6, <1>9 DEF StaleOK
      <3>2. QED
        BY <1>3, <1>4, <1>6, <1>9, <1>10, <2>5, <3>1, MessageFacts DEF StaleOK, GrownIn
    <2>6. QED
      BY <1>2, <2>1, <2>2, <2>3, <2>4, <2>5
  <1>11. Stale(run') => AbortNext' /\ Ins' < Depth
    <2>1. CASE Frm
      BY <1>3, <1>9, <2>1 DEF StaleOK, TakenOut
    <2>2. CASE Abt \/ Rep
      BY <1>7, <2>2
    <2>3. CASE Nck \/ Again
      BY <1>8, <1>9, <2>3 DEF StaleOK
    <2>4. QED
      BY <1>2, <2>1, <2>2, <2>3
  <1>12. TakenOut \/ SameOut
    BY <1>2
  <1>13. ASSUME NEW i \in 1..Outs', out'[i].kind = "frame" PROVE out'[i].call # Nil /\ ~Stale(out'[i].call)
    <2>1. CASE TakenOut
      <3>1. i + 1 \in 1..Outs /\ out'[i] = out[i + 1]
        BY <1>3, <2>1 DEF TakenOut
      <3>2. QED
        BY <1>9, <1>13, <3>1 DEF StaleOK
    <2>2. CASE SameOut
      BY <1>9, <1>13, <2>2 DEF StaleOK, SameOut
    <2>3. QED
      BY <1>12, <2>1, <2>2
  <1>14. StaleOK'
    <2>1. (pc # "idle" => ~Stale(me))'
      BY <1>1, <1>5, <1>9 DEF StaleOK
    <2>2. (\A i \in 1..Ins : in[i].kind # "ack" /\ Stale(in[i].call) => i <= Depth)'
      BY <1>5, <1>6, <1>10
    <2>3. (Stale(run) => AbortNext /\ Ins < Depth)'
      BY <1>5, <1>6, <1>11
    <2>4. (\A i \in 1..Outs : out[i].kind = "frame" => out[i].call # Nil /\ ~Stale(out[i].call))'
      BY <1>5, <1>13
    <2>5. QED
      BY <2>1, <2>2, <2>3, <2>4 DEF StaleOK
  <1>15. NackOK'
    <2>1. ASSUME NEW i \in 2..Outs', out'[i].kind = "nack" PROVE out'[i - 1].kind = "frame"
      <3>1. CASE TakenOut
        <4>1. i + 1 \in 2..Outs /\ out'[i] = out[i + 1] /\ out'[i - 1] = out[i]
          BY <1>3, <3>1 DEF TakenOut
        <4>2. i + 1 - 1 = i
          BY <1>3
        <4>3. QED
          BY <1>9, <2>1, <4>1, <4>2 DEF NackOK
      <3>2. CASE SameOut
        BY <1>3, <1>9, <2>1, <3>2 DEF NackOK, SameOut
      <3>3. QED
        BY <1>12, <3>1, <3>2
    <2>2. ASSUME Outs' > 0, out'[1].kind = "nack" PROVE run' # Nil \/ ~Stale(last')
      <3>1. CASE TakenOut
        <4>1. 2 \in 2..Outs /\ out'[1] = out[2] /\ 2 - 1 = 1 /\ 1 \in 1..Outs
          BY <1>3, <2>2, <3>1 DEF TakenOut
        <4>2. out[1].kind = "frame"
          BY <1>9, <2>2, <4>1 DEF NackOK
        <4>3. CASE Frm
          BY <1>9, <4>1, <4>2, <4>3 DEF StaleOK
        <4>4. CASE Rep
          BY <1>3, <3>1, <4>4 DEF SameOut, TakenOut
        <4>5. QED
          BY <1>2, <4>2, <4>3, <4>4
      <3>2. CASE SameOut
        <4>1. Rep
          BY <1>2, <1>3, <3>2 DEF SameOut, TakenOut
        <4>2. out'[1] = out[1]
          BY <1>3, <2>2, <3>2 DEF SameOut
        <4>3. QED
          BY <1>8, <1>9, <2>2, <4>1, <4>2 DEF StaleOK
      <3>3. QED
        BY <1>12, <3>1, <3>2
    <2>3. (Outs > 0 /\ out[1].kind = "nack" => run # Nil \/ ~Stale(last))'
      BY <1>5, <2>2
    <2>4. QED
      BY <2>1, <2>3 DEF NackOK
  <1>16. SentOK'
    <2> SUFFICES ASSUME pc = "ack" PROVE (Outs' > 0 /\ out'[Outs'] = Frame(me))
                                        \/ (Outs' = 0 /\ (run' = me \/ (run' = Nil /\ last' = me)))
      BY <1>1 DEF SentOK, Frame
    <2>1. (Outs > 0 /\ out[Outs] = Frame(me)) \/ (Outs = 0 /\ (run = me \/ (run = Nil /\ last = me)))
      BY <1>9 DEF SentOK
    <2>2. CASE TakenOut
      <3>1. CASE Outs > 1
        BY <1>3, <2>1, <2>2, <3>1 DEF TakenOut
      <3>2. CASE Outs = 1
        <4>1. out[1] = Frame(me) /\ me \in Call \cup {Nil}
          BY <2>1, <3>2 DEF BasicInv, TypeOK
        <4>2. out[1].kind = "frame" /\ out[1].call = me
          BY <4>1, MessageFacts
        <4>3. CASE Frm
          BY <1>3, <2>2, <3>2, <4>2, <4>3 DEF TakenOut
        <4>4. CASE Rep
          BY <1>3, <2>2, <4>4 DEF SameOut, TakenOut
        <4>5. QED
          BY <1>2, <4>2, <4>3, <4>4
      <3>3. QED
        BY <1>3, <2>2, <3>1, <3>2 DEF TakenOut
    <2>3. CASE SameOut
      <3>1. Rep
        BY <1>2, <1>3, <2>3 DEF SameOut, TakenOut
      <3>2. QED
        BY <1>3, <2>1, <3>1 DEF SameOut
    <2>4. QED
      BY <1>12, <2>2, <2>3
  <1>17. (Ins > 0 => Settled)' /\ (stage = "parameters" /\ pc \in {"idle", "ack"} => Settled)'
    BY <1>1, <1>3, <1>9, ChipSettled
  <1>18. QED
    BY <1>14, <1>15, <1>16, <1>17
\* Calls, and the packets about them, are told apart.
LEMMA Distinct ==
    /\ \A c, d \in Call \cup {Nil} : (Frame(c) = Frame(d) => c = d) /\ (Reply(c) = Reply(d) => c = d) /\ Ack(c) # Reply(d)
    /\ \A c \in Call \cup {Nil} : Frame(c) # Nack /\ Frame(c) # Abort
    /\ Abort # Nack
  BY DEF Frame, Reply, Ack, Nack, Abort

LEMMA ChipParameters ==
    ASSUME BasicInv, OpeningOK, ParametersOK, Chip
    PROVE  ParametersOK'
  <1>1. UNCHANGED <<stage, pc, me, result, failed>>
    BY ChipCases
  <1> SUFFICES ASSUME Opening, stage = "parameters", pc # "idle"
               PROVE  (Waiting => WaitingOK)' /\ (~Waiting => TakenOK)'
    BY <1>1 DEF ParametersOK, Opening
  <1> DEFINE Frm == /\ TakenOut /\ out[1].kind = "frame" /\ run' = out[1].call /\ last' = last
                    /\ GrownIn(Ack(out[1].call)) \/ (run # Nil /\ SameIn)
             Abt == TakenOut /\ out[1].kind = "ack" /\ run' = Nil /\ last' = last /\ (SameIn \/ Ins' = 0)
             Nck == TakenOut /\ out[1].kind = "nack" /\ run' = run /\ last' = last /\ (run # Nil \/ last = Nil) /\ SameIn
             Again == TakenOut /\ out[1].kind = "nack" /\ run' = run /\ last' = last /\ run = Nil /\ GrownIn(Reply(last))
             Rep == SameOut /\ run # Nil /\ GrownIn(Reply(run)) /\ last' = run /\ run' = Nil
  <1>2. Frm \/ Abt \/ Nck \/ Again \/ Rep
    BY ChipCases
  <1>3. /\ Ins \in Nat /\ Outs \in Nat
        /\ \A i \in 1..Ins : in[i] \in Packet
        /\ \A i \in 1..Outs : out[i] \in Message
    BY EndpointFacts DEF BasicInv
  <1>4. /\ run \in Call \cup {Nil} /\ last \in Call \cup {Nil} /\ me \in Call \cup {Nil} /\ me # Nil
        /\ Nil \in Call \cup {Nil}
    BY DEF BasicInv, TypeOK, CallOK
  <1>5. /\ Frame(me)' = Frame(me) /\ Reply(me)' = Reply(me) /\ Nack' = Nack
    BY <1>1 DEF Frame, Reply, Nack
  <1>6. SentOK /\ (Waiting => WaitingOK) /\ (~Waiting => TakenOK)
    BY DEF OpeningOK, ParametersOK
  <1>7. CASE Waiting /\ Rep
    <2>1. Waiting' /\ NackPending' = NackPending
      BY <1>3, <1>5, <1>7 DEF Waiting, NackPending, SameOut
    <2>2. WaitingOK
      BY <1>6, <1>7
    <2>3. ASSUME NEW i \in 1..Ins' PROVE in'[i] # Reply(me)
      <3>1. CASE i \in 1..Ins
        BY <1>7, <2>2, <3>1 DEF WaitingOK, GrownIn
      <3>2. CASE i = Ins + 1
        <4>1. in'[i] = Reply(run)
          BY <1>7, <3>2 DEF GrownIn
        <4>2. QED
          BY <1>4, <2>2, <4>1, Distinct DEF WaitingOK
      <3>3. QED
        BY <1>3, <1>7, <3>1, <3>2 DEF GrownIn
    <2>4. \A i \in 1..Outs' : out'[i] = Frame(me) => i = Outs' \/ (i = Outs' - 1 /\ out'[Outs'] = Nack)
      BY <1>3, <1>7, <2>2 DEF WaitingOK, SameOut
    <2>5. run' # me /\ last' # me /\ Settled'
      BY <1>4, <1>7, <2>2 DEF WaitingOK, Settled
    <2>6. WaitingOK'
      BY <1>1, <1>5, <2>3, <2>4, <2>5 DEF WaitingOK
    <2>7. QED
      BY <2>1, <2>6
  <1>8. CASE Waiting /\ TakenOut /\ out[1] = Frame(me)
    <2>1. WaitingOK
      BY <1>6, <1>8
    <2>2. Outs >= 1 /\ Outs' = Outs - 1 /\ 1 \in 1..Outs
      BY <1>3, <1>8 DEF TakenOut
    <2>3. Outs = 1 \/ (Outs = 2 /\ out[2] = Nack)
      BY <1>3, <1>8, <2>1, <2>2 DEF WaitingOK
    <2>4. Outs' = 0 \/ (Outs' = 1 /\ out'[1] = Nack /\ Outs = 2 /\ out[2] = Nack)
      BY <1>3, <1>8, <2>2, <2>3 DEF TakenOut
    <2>5. ~Waiting'
      BY <1>3, <1>4, <1>5, <2>4, Distinct DEF Waiting
    <2>6. Outs = 2 /\ out[2] = Nack => pc # "ack"
      BY <1>4, <1>6, Distinct DEF SentOK
    <2>7. out[1].kind = "frame" /\ out[1].call = me
      BY <1>4, <1>8, MessageFacts
    <2>8. Frm
      BY <1>2, <1>3, <1>8, <2>7 DEF TakenOut, SameOut
    <2>9. run' = me
      BY <2>7, <2>8
    <2>10. ASSUME NEW i \in 1..Ins' PROVE in'[i] # Reply(me)
      <3>1. CASE SameIn
        BY <2>1, <3>1 DEF WaitingOK, SameIn
      <3>2. CASE GrownIn(Ack(me))
        <4>1. CASE i \in 1..Ins
          BY <2>1, <3>2, <4>1 DEF WaitingOK, GrownIn
        <4>2. CASE i = Ins + 1
          BY <1>3, <1>4, <3>2, <4>2, Distinct DEF GrownIn
        <4>3. QED
          BY <1>3, <3>2, <4>1, <4>2 DEF GrownIn
      <3>3. QED
        BY <2>7, <2>8, <3>1, <3>2
    <2>11. ASSUME pc = "ack" \/ (Outs' = 1 /\ out'[1] = Nack) PROVE HasAck'
      <3>1. Settled
        BY <1>3, <2>1, <2>2, <2>3, <2>4, <2>11 DEF WaitingOK, NackPending
      <3>2. CASE GrownIn(Ack(me))
        BY <1>3, <1>4, <3>2, MessageFacts DEF HasAck, GrownIn
      <3>3. CASE run # Nil /\ SameIn
        <4>1. ~AbortNext
          BY <1>4, <1>8, Distinct DEF AbortNext
        <4>2. QED
          BY <1>3, <3>1, <3>3, <4>1 DEF Settled, EndsAck, HasAck, SameIn
      <3>4. QED
        BY <2>7, <2>8, <3>2, <3>3
    <2>12. NackPending' => Outs' = 1 /\ out'[1] = Nack
      BY <1>5, <2>4 DEF NackPending
    <2>13. TakenOK'
      BY <1>1, <1>4, <1>5, <2>4, <2>6, <2>9, <2>10, <2>11, <2>12 DEF TakenOK
    <2>14. QED
      BY <2>5, <2>13
  <1>9. CASE Waiting /\ TakenOut /\ out[1] # Frame(me)
    <2>1. WaitingOK
      BY <1>6, <1>9
    <2>2. Outs >= 1 /\ Outs' = Outs - 1 /\ 1 \in 1..Outs /\ out[1] \in Message
      BY <1>3, <1>9 DEF TakenOut
    <2>3. Outs' >= 1 /\ out'[Outs'] = out[Outs]
      BY <1>3, <1>9 DEF TakenOut, Waiting
    <2>4. out[Outs] = Frame(me) => Waiting'
      BY <1>3, <1>5, <2>2, <2>3 DEF Waiting
    <2>5. ASSUME Outs > 1, out[Outs] = Nack, out[Outs - 1] = Frame(me) PROVE Waiting'
      <3>1. Outs > 2
        BY <1>3, <1>9, <2>5
      <3>2. Outs' > 1 /\ out'[Outs' - 1] = out[Outs - 1]
        BY <1>3, <1>9, <3>1 DEF TakenOut
      <3>3. QED
        BY <1>5, <2>3, <2>5, <3>2 DEF Waiting
    <2>6. Waiting'
      BY <1>9, <2>4, <2>5 DEF Waiting
    <2>7. run' # me /\ last' # me
      <3>1. CASE Frm
        <4>1. out[1] = Frame(out[1].call)
          BY <2>2, <3>1, MessageIs
        <4>2. QED
          BY <1>9, <2>1, <3>1, <4>1 DEF WaitingOK
      <3>2. CASE Abt \/ Nck \/ Again
        BY <1>4, <2>1, <3>2 DEF WaitingOK
      <3>3. QED
        BY <1>2, <1>3, <1>9, <3>1, <3>2 DEF TakenOut, SameOut
    <2>8. ASSUME NEW i \in 1..Ins' PROVE in'[i] # Reply(me)
      <3>1. CASE SameIn
        BY <2>1, <3>1 DEF WaitingOK, SameIn
      <3>2. ASSUME NEW p, GrownIn(p), p # Reply(me) PROVE in'[i] # Reply(me)
        <4>1. CASE i \in 1..Ins
          BY <2>1, <3>2, <4>1 DEF WaitingOK, GrownIn
        <4>2. CASE i = Ins + 1
          BY <3>2, <4>2 DEF GrownIn
        <4>3. QED
          BY <1>3, <3>2, <4>1, <4>2 DEF GrownIn
      <3>3. CASE Frm
        <4>1. out[1].call \in Call \cup {Nil}
          BY <2>2, MessageIs
        <4>2. Ack(out[1].call) # Reply(me)
          BY <1>4, <4>1, Distinct
        <4>3. QED
          BY <3>1, <3>2, <3>3, <4>2
      <3>4. CASE Again
        <4>1. Reply(last) # Reply(me)
          BY <1>4, <2>1, Distinct DEF WaitingOK
        <4>2. QED
          BY <3>2, <3>4, <4>1
      <3>5. CASE Abt \/ Nck
        BY <3>1, <3>5
      <3>6. QED
        BY <1>2, <1>3, <1>9, <3>3, <3>4, <3>5 DEF TakenOut, SameOut
    <2>9. ASSUME NEW i \in 1..Outs', out'[i] = Frame(me) PROVE i = Outs' \/ (i = Outs' - 1 /\ out'[Outs'] = Nack)
      <3>1. i + 1 \in 1..Outs /\ out[i + 1] = Frame(me)
        BY <1>3, <1>9, <2>9 DEF TakenOut
      <3>2. i + 1 = Outs \/ (i + 1 = Outs - 1 /\ out[Outs] = Nack)
        BY <2>1, <3>1 DEF WaitingOK
      <3>3. QED
        BY <1>3, <2>2, <2>3, <3>2
    <2>10. ASSUME pc = "ack" \/ NackPending' PROVE Settled'
      <3>1. pc = "ack" \/ NackPending
        BY <1>3, <1>5, <2>2, <2>3, <2>10 DEF NackPending
      <3>2. QED
        BY <2>1, <3>1, ChipSettled DEF WaitingOK
    <2>11. WaitingOK'
      BY <1>1, <1>5, <2>7, <2>8, <2>9, <2>10 DEF WaitingOK
    <2>12. QED
      BY <2>6, <2>11
  <1>10. CASE ~Waiting /\ Rep
    <2>1. TakenOK
      BY <1>6, <1>10
    <2>2. run = me /\ run' = Nil /\ last' = me
      BY <1>10, <2>1 DEF TakenOK
    <2>3. ~Waiting' /\ NackPending' = NackPending
      BY <1>3, <1>5, <1>10 DEF Waiting, NackPending, SameOut
    <2>4. Outs' = 0 \/ (Outs' = 1 /\ out'[1] = Nack /\ pc # "ack")
      BY <1>3, <1>10, <2>1 DEF TakenOK, SameOut
    <2>5. ASSUME NEW i \in 1..Ins', NEW j \in 1..Ins', i < j, in'[i] = Reply(me) PROVE FALSE
      <3>1. i \in 1..Ins
        BY <1>3, <1>10, <2>5 DEF GrownIn
      <3>2. QED
        BY <1>10, <2>1, <2>2, <2>5, <3>1 DEF TakenOK, GrownIn
    <2>6. HasAck => HasAck'
      BY <1>3, <1>10 DEF HasAck, GrownIn
    <2>7. TakenOK'
      BY <1>1, <1>4, <1>5, <2>1, <2>2, <2>3, <2>4, <2>5, <2>6 DEF TakenOK
    <2>8. QED
      BY <2>3, <2>7
  <1>11. CASE ~Waiting /\ TakenOut
    <2>1. TakenOK
      BY <1>6, <1>11
    <2>2. Outs = 1 /\ out[1] = Nack /\ pc # "ack" /\ Outs' = 0
      BY <1>3, <1>11, <2>1 DEF TakenOK, TakenOut
    <2>3. ~Waiting' /\ ~NackPending'
      BY <2>2 DEF Waiting, NackPending
    <2>4. out[1].kind = "nack"
      BY <2>2, MessageFacts
    <2>5. HasAck
      BY <2>1, <2>2 DEF TakenOK, NackPending
    <2>6. CASE Nck
      <3>1. run = me
        BY <1>4, <2>1, <2>6 DEF TakenOK
      <3>2. \A i \in 1..Ins' : in'[i] # Reply(me)
        BY <2>1, <2>6, <3>1 DEF TakenOK, SameIn
      <3>3. TakenOK'
        BY <1>1, <1>4, <1>5, <2>2, <2>3, <2>6, <3>1, <3>2 DEF TakenOK
      <3>4. QED
        BY <2>3, <3>3
    <2>7. CASE Again
      <3>1. last = me
        BY <1>4, <2>1, <2>7 DEF TakenOK
      <3>2. HasAck'
        BY <1>3, <2>5, <2>7 DEF HasAck, GrownIn
      <3>3. ASSUME NEW i \in 1..Ins', NEW j \in 1..Ins', i < j, in'[i] = Reply(me) PROVE in'[j] = Reply(me)
        <4>1. CASE j = Ins + 1
          BY <2>7, <3>1, <4>1 DEF GrownIn
        <4>2. CASE j \in 1..Ins
          <5>1. i \in 1..Ins
            BY <1>3, <3>3, <4>2
          <5>2. QED
            BY <2>1, <2>7, <3>3, <4>2, <5>1 DEF TakenOK, GrownIn
        <4>3. QED
          BY <1>3, <2>7, <4>1, <4>2 DEF GrownIn
      <3>4. TakenOK'
        BY <1>1, <1>4, <1>5, <2>2, <2>3, <2>7, <3>1, <3>2, <3>3 DEF TakenOK
      <3>5. QED
        BY <2>3, <3>4
    <2>8. QED
      BY <1>2, <1>3, <1>11, <2>4, <2>6, <2>7 DEF TakenOut, SameOut
  <1>12. QED
    BY <1>2, <1>7, <1>8, <1>9, <1>10, <1>11

LEMMA ChipRunning ==
    ASSUME BasicInv, RunningOK, Chip
    PROVE  RunningOK'
  <1>1. UNCHANGED <<stage, pc, me, result, failed>>
    BY ChipCases
  <1>2. /\ Ins \in Nat /\ Outs \in Nat
        /\ run \in Call \cup {Nil} /\ last \in Call \cup {Nil} /\ me \in Call \cup {Nil}
        /\ Frame(me)' = Frame(me) /\ Reply(me)' = Reply(me)
    BY <1>1, EndpointFacts DEF BasicInv, TypeOK, Frame, Reply
  <1>3. pc # "idle" => me # Nil
    BY DEF BasicInv, CallOK
  <1> SUFFICES ASSUME stage = "open", ~failed
               PROVE  /\ pc = "idle" => FALSE
                      /\ pc = "ack" => \/ Outs' = 0 /\ Ins' = 1 /\ in'[1].kind = "ack" /\ run' = me
                                       \/ Outs' = 0 /\ Ins' = 2 /\ in'[1].kind = "ack" /\ in'[2] = Reply(me) /\ run' = Nil
                      /\ pc \in {"pass", "read"} => Outs' = 0 /\ Ins' = 1 /\ in'[1] = Reply(me) /\ run' = Nil
    BY <1>1, <1>2 DEF RunningOK
  <1>4. CASE pc = "idle"
    BY <1>2, <1>4, ChipCases DEF RunningOK, TakenOut
  <1>5. CASE pc = "ack"
    <2>1. CASE Outs = 1 /\ out[1] = Frame(me) /\ Ins = 0 /\ run = Nil
      <3>1. out[1].kind = "frame" /\ out[1].call = me
        BY <1>2, <2>1, MessageFacts
      <3>2. TakenOut /\ run' = me /\ GrownIn(Ack(me))
        BY <2>1, <3>1, ChipCases
      <3>3. QED
        BY <1>2, <1>5, <2>1, <3>2, MessageFacts DEF TakenOut, GrownIn
    <2>2. CASE Outs = 0 /\ Ins = 1 /\ in[1].kind = "ack" /\ run = me
      <3>1. SameOut /\ run' = Nil /\ GrownIn(Reply(me))
        BY <2>2, ChipCases DEF TakenOut
      <3>2. QED
        BY <1>2, <1>5, <2>2, <3>1 DEF SameOut, GrownIn
    <2>3. CASE Outs = 0 /\ Ins = 2 /\ run = Nil
      BY <1>2, <2>3, ChipCases DEF TakenOut
    <2>4. QED
      BY <1>5, <2>1, <2>2, <2>3 DEF RunningOK
  <1>6. CASE pc \in {"pass", "read"}
    <2>1. CASE Outs = 0 /\ Ins = 0 /\ run = me
      <3>1. SameOut /\ run' = Nil /\ GrownIn(Reply(me))
        BY <2>1, ChipCases DEF TakenOut
      <3>2. QED
        BY <1>2, <1>6, <2>1, <3>1 DEF SameOut, GrownIn
    <2>2. CASE Outs = 0 /\ run = Nil
      BY <1>2, <2>2, ChipCases DEF TakenOut
    <2>3. QED
      BY <1>6, <2>1, <2>2 DEF RunningOK
  <1>7. QED
    BY <1>4, <1>5, <1>6
LEMMA ChipLink ==
    ASSUME BasicInv, LinkInv, Chip
    PROVE  LinkInv'
  BY ChipOpening, ChipParameters, ChipRunning DEF LinkInv

-----------------------------------------------------------------------------
(* LinkInv: the steps of the host                                          *)

\* Away from an open device in good standing there is nothing to show.
LEMMA LinkVacuous ==
    ASSUME failed' \/ stage' \in {"closed", "closing"}
    PROVE  LinkInv'
  BY DEF LinkInv, OpeningOK, ParametersOK, RunningOK, Opening

\* Nothing but the place in the loop of pn53x_usb_receive changes.
LEMMA LinkKept ==
    ASSUME LinkInv, pc' = pc \/ {pc, pc'} \subseteq {"pass", "read"},
           UNCHANGED <<stage, me, result, failed, in, out, run, last>>
    PROVE  LinkInv'
  <1>1. Ins' = Ins /\ Outs' = Outs
    BY DEF Ins, Outs
  <1>2. (pc' = "idle" <=> pc = "idle") /\ (pc' = "ack" <=> pc = "ack") /\ (pc' \in {"idle", "ack"} <=> pc \in {"idle", "ack"})
        /\ (pc' \in {"pass", "read"} <=> pc \in {"pass", "read"})
    OBVIOUS
  <1>3. \A c : Stale(c)' = Stale(c)
    BY <1>2 DEF Stale
  <1>4. Depth' = Depth
    BY <1>2 DEF Depth
  <1>5. EndsAck' = EndsAck /\ HasAck' = HasAck /\ AbortNext' = AbortNext /\ Opening' = Opening
    BY <1>1 DEF EndsAck, HasAck, AbortNext, Opening, Abort
  <1>6. Settled' = Settled
    BY <1>5 DEF Settled
  <1>7. Waiting' = Waiting /\ NackPending' = NackPending
    BY <1>1 DEF Waiting, NackPending, Frame, Nack
  <1>8. StaleOK => StaleOK'
    BY <1>1, <1>2, <1>3, <1>4, <1>5 DEF StaleOK
  <1>9. NackOK => NackOK'
    BY <1>1, <1>3 DEF NackOK
  <1>10. SentOK => SentOK'
    BY <1>1, <1>2 DEF SentOK, Frame
  <1>11. OpeningOK'
    BY <1>1, <1>2, <1>5, <1>6, <1>8, <1>9, <1>10 DEF LinkInv, OpeningOK
  <1>12. WaitingOK => WaitingOK'
    BY <1>1, <1>2, <1>6, <1>7 DEF WaitingOK, Reply, Frame, Nack
  <1>13. TakenOK => TakenOK'
    BY <1>1, <1>2, <1>5, <1>7 DEF TakenOK, Reply, Nack
  <1>14. ParametersOK'
    BY <1>2, <1>5, <1>7, <1>12, <1>13 DEF LinkInv, ParametersOK
  <1>15. RunningOK'
    BY <1>1, <1>2 DEF LinkInv, RunningOK, Reply, Frame
  <1>16. QED
    BY <1>11, <1>14, <1>15 DEF LinkInv

LEMMA OpenLink ==
    ASSUME BasicInv, open
    PROVE  LinkInv'
  <1>1. stage' = "dummy" /\ pc = "idle" /\ pc' = "idle" /\ out' = Append(out, Abort) /\ in' = in
    BY DEF open, chipVars
  <1>2. ~failed' => out = <<>> /\ ~(Len(in) > 2)
    BY DEF open
  <1>3. /\ Outs \in Nat /\ Outs' = Outs + 1 /\ out'[Outs + 1] = Abort
        /\ Ins \in Nat /\ (out = <<>> <=> Outs = 0)
    BY <1>1, OutAppended, MessageFacts, EndpointFacts DEF BasicInv
  <1>4. CASE failed'
    BY <1>4, LinkVacuous
  <1>5. CASE ~failed'
    <2>1. Outs' = 1 /\ out'[1] = Abort /\ Ins' = Ins /\ Ins <= 2
      BY <1>1, <1>2, <1>3, <1>5 DEF Ins
    <2>2. Depth' = 3 /\ AbortNext' /\ Settled'
      BY <1>1, <2>1 DEF Depth, AbortNext, Settled, Abort
    <2>3. StaleOK'
      <3>1. (\A i \in 1..Ins : in[i].kind # "ack" /\ Stale(in[i].call) => i <= Depth)'
        BY <1>3, <2>1, <2>2
      <3>2. (Stale(run) => AbortNext /\ Ins < Depth)'
        BY <1>3, <2>1, <2>2
      <3>3. (\A i \in 1..Outs : out[i].kind = "frame" => out[i].call # Nil /\ ~Stale(out[i].call))'
        BY <2>1, MessageFacts
      <3>4. QED
        BY <1>1, <3>1, <3>2, <3>3 DEF StaleOK
    <2>4. NackOK' /\ SentOK'
      BY <1>1, <2>1, MessageFacts DEF NackOK, SentOK
    <2>5. QED
      BY <1>1, <2>2, <2>3, <2>4 DEF LinkInv, OpeningOK, ParametersOK, RunningOK
  <1>6. QED
    BY <1>4, <1>5

\* Writing the frame of a command of the opening
LEMMA BeginOpening ==
    ASSUME BasicInv, OpeningOK, Opening, pc = "idle", pc' = "ack", GrownOut(Frame(me')),
           UNCHANGED <<stage, failed, in, run, last>>, me' \in Call, me' # Nil,
           \A c \in Call \cup {Nil} : Stale(c)' => Stale(c), ~Stale(me)'
    PROVE  OpeningOK' /\ (Settled => Settled')
  <1>1. /\ Ins \in Nat /\ Outs \in Nat /\ Ins' = Ins
        /\ \A i \in 1..Ins : in[i] \in Packet
        /\ \A i \in 1..Outs : out[i] \in Message
        /\ run \in Call \cup {Nil} /\ last \in Call \cup {Nil}
    BY EndpointFacts DEF BasicInv, TypeOK, Ins
  <1>2. Outs' = Outs + 1 /\ out'[Outs'] = Frame(me') /\ \A i \in 1..Outs : out'[i] = out[i]
    BY DEF GrownOut
  <1>3. Frame(me').kind = "frame" /\ Frame(me').call = me'
    BY MessageFacts
  <1>4. Depth' = Depth
    BY DEF Depth
  <1>5. AbortNext => AbortNext'
    BY <1>1, <1>2 DEF AbortNext, Abort
  <1>6. StaleOK /\ NackOK /\ (Ins > 0 => Settled) /\ (stage = "parameters" => Settled)
    BY DEF OpeningOK
  <1>7. Settled => Settled'
    BY <1>1, <1>5 DEF Settled, EndsAck
  <1>8. StaleOK'
    <2>1. (\A i \in 1..Ins : in[i].kind # "ack" /\ Stale(in[i].call) => i <= Depth)'
      <3>1. ASSUME NEW i \in 1..Ins, in[i].kind # "ack", Stale(in[i].call)' PROVE i <= Depth
        <4>1. in[i].call \in Call \cup {Nil}
          BY <1>1, MessageIs
        <4>2. Stale(in[i].call)
          BY <3>1, <4>1 DEF Stale
        <4>3. QED
          BY <1>6, <3>1, <4>2 DEF StaleOK
      <3>2. QED
        BY <1>1, <1>4, <3>1 DEF Stale
    <2>2. (Stale(run) => AbortNext /\ Ins < Depth)'
      <3>1. Stale(run)' => Stale(run)
        BY <1>1 DEF Stale
      <3>2. QED
        BY <1>1, <1>4, <1>5, <1>6, <3>1 DEF StaleOK
    <2>3. ASSUME NEW i \in 1..Outs', out'[i].kind = "frame"
          PROVE  out'[i].call # Nil /\ ~(out'[i].call.cmd = "SetParameters" /\ ~(stage' = "parameters" /\ out'[i].call = me'))
      <3>1. CASE i = Outs + 1
        BY <1>2, <1>3, <3>1 DEF Stale
      <3>2. CASE i \in 1..Outs
        <4>1. out[i].call \in Call \cup {Nil} /\ out'[i] = out[i] /\ out[i].kind = "frame"
          BY <1>1, <1>2, <2>3, <3>2, MessageIs
        <4>2. out[i].call # Nil /\ ~Stale(out[i].call)
          BY <1>6, <3>2, <4>1 DEF StaleOK
        <4>3. QED
          BY <4>1, <4>2 DEF Stale
      <3>3. QED
        BY <1>1, <1>2, <3>1, <3>2
    <2>4. (\A i \in 1..Outs : out[i].kind = "frame" => out[i].call # Nil /\ ~Stale(out[i].call))'
      BY <2>3 DEF Stale
    <2>5. QED
      BY <2>1, <2>2, <2>4 DEF StaleOK
  <1>9. NackOK'
    <2>1. ASSUME NEW i \in 2..Outs', out'[i].kind = "nack" PROVE out'[i - 1].kind = "frame"
      <3>1. i # Outs + 1
        BY <1>2, <1>3, <2>1
      <3>2. i \in 2..Outs /\ out'[i] = out[i] /\ out'[i - 1] = out[i - 1]
        BY <1>1, <1>2, <3>1
      <3>3. QED
        BY <1>6, <2>1, <3>2 DEF NackOK
    <2>2. ASSUME out'[1].kind = "nack" PROVE run # Nil \/ ~Stale(last)
      <3>1. Outs > 0 /\ out'[1] = out[1]
        BY <1>1, <1>2, <1>3, <2>2
      <3>2. QED
        BY <1>6, <2>2, <3>1 DEF NackOK
    <2>3. Stale(last)' => Stale(last)
      BY <1>1 DEF Stale
    <2>4. QED
      BY <2>1, <2>2, <2>3 DEF NackOK
  <1>10. SentOK'
    BY <1>1, <1>2 DEF SentOK
  <1>11. QED
    BY <1>1, <1>6, <1>7, <1>8, <1>9, <1>10 DEF OpeningOK
\* A new call is in no packet.
LEMMA Fresh ==
    ASSUME BasicInv, calls' = calls + 1, me' \in Call, me'.id = calls'
    PROVE  /\ run # me' /\ last # me'
           /\ \A i \in 1..Ins : in[i] # Reply(me')
           /\ \A i \in 1..Outs : out[i] # Frame(me')
  <1>1. calls \in Nat /\ ~(calls' <= calls)
    BY TimeFacts DEF BasicInv
  <1>2. Reply(me').call = me' /\ Frame(me').call = me'
    BY MessageFacts
  <1>3. QED
    BY <1>1, <1>2 DEF BasicInv, Numbered

LEMMA BeganFacts ==
    ASSUME BasicInv, NEW c \in Cmd, NEW t, Begin(c, t)
    PROVE  /\ pc = "idle" /\ pc' = "ack" /\ GrownOut(Frame(me')) /\ UNCHANGED <<in, run, last, failed, result>>
           /\ me' \in Call /\ me' # Nil /\ me'.cmd = c
           /\ run # me' /\ last # me'
           /\ \A i \in 1..Ins : in[i] # Reply(me')
           /\ \A i \in 1..Outs : out[i] # Frame(me')
  <1>1. /\ pc = "idle" /\ pc' = "ack" /\ calls < MaxCalls /\ calls' = calls + 1 /\ me' = [cmd |-> c, id |-> calls + 1]
        /\ out' = Append(out, Frame(me')) /\ UNCHANGED <<in, run, last, failed, result>>
    BY DEF Begin, chipVars
  <1>2. me' \in Call /\ me' # Nil /\ me'.cmd = c /\ me'.id = calls' /\ Frame(me') \in Message
    BY <1>1, NewCall
  <1>3. GrownOut(Frame(me'))
    BY <1>1, <1>2, OutAppended DEF BasicInv, GrownOut
  <1>4. QED
    BY <1>1, <1>2, <1>3, Fresh

LEMMA OpenCommandLink ==
    ASSUME BasicInv, LinkInv, open_command
    PROVE  LinkInv'
  <1>1. UNCHANGED stage /\ {"GetFirmwareVersion", "SetParameters"} \subseteq Cmd
    BY DEF open_command, Cmd
  <1>2. CASE stage \in {"dummy", "firmware"} /\ Begin("GetFirmwareVersion", Default)
    <2>1. /\ pc = "idle" /\ pc' = "ack" /\ GrownOut(Frame(me')) /\ UNCHANGED <<in, run, last, failed, result>>
          /\ me' \in Call /\ me' # Nil /\ me'.cmd = "GetFirmwareVersion"
      BY <1>1, <1>2, BeganFacts
    <2>2. (\A c \in Call \cup {Nil} : Stale(c)' => Stale(c)) /\ ~Stale(me)'
      BY <1>1, <1>2, <2>1 DEF Stale
    <2>3. CASE failed
      BY <2>1, <2>3, LinkVacuous
    <2>4. CASE ~failed
      <3>1. Opening
        BY <1>2, <2>4 DEF Opening
      <3>2. OpeningOK'
        BY <1>1, <2>1, <2>2, <3>1, BeginOpening DEF LinkInv
      <3>3. QED
        BY <1>1, <1>2, <3>2 DEF LinkInv, ParametersOK, RunningOK
    <2>5. QED
      BY <2>3, <2>4
  <1>3. CASE stage = "parameters" /\ Begin("SetParameters", Default)
    <2>1. /\ pc = "idle" /\ pc' = "ack" /\ GrownOut(Frame(me')) /\ UNCHANGED <<in, run, last, failed, result>>
          /\ me' \in Call /\ me' # Nil /\ me'.cmd = "SetParameters"
          /\ run # me' /\ last # me'
          /\ \A i \in 1..Ins : in[i] # Reply(me')
          /\ \A i \in 1..Outs : out[i] # Frame(me')
      BY <1>1, <1>3, BeganFacts
    <2>2. (\A c \in Call \cup {Nil} : Stale(c)' => Stale(c)) /\ ~Stale(me)'
      BY <1>1, <1>3, <2>1 DEF Stale
    <2>3. CASE failed
      BY <2>1, <2>3, LinkVacuous
    <2>4. CASE ~failed
      <3>1. Opening /\ Settled
        BY <1>3, <2>1, <2>4 DEF Opening, LinkInv, OpeningOK
      <3>2. OpeningOK' /\ Settled'
        BY <1>1, <2>1, <2>2, <3>1, BeginOpening DEF LinkInv
      <3>3. Ins' = Ins /\ Outs \in Nat /\ Outs' = Outs + 1 /\ out'[Outs'] = Frame(me') /\ \A i \in 1..Outs : out'[i] = out[i]
        BY <2>1, EndpointFacts DEF BasicInv, Ins, GrownOut
      <3>4. Waiting'
        BY <3>3 DEF Waiting
      <3>5. (\A i \in 1..Outs : out[i] = Frame(me) => i = Outs \/ (i = Outs - 1 /\ out[Outs] = Nack))'
        BY <2>1, <3>3
      <3>6. WaitingOK'
        BY <2>1, <3>2, <3>3, <3>5 DEF WaitingOK
      <3>7. ParametersOK'
        BY <2>1, <3>4, <3>6 DEF ParametersOK
      <3>8. QED
        BY <1>1, <1>3, <3>2, <3>7 DEF LinkInv, RunningOK
    <2>5. QED
      BY <2>3, <2>4
  <1>4. QED
    BY <1>2, <1>3 DEF open_command

LEMMA TransceiveLink ==
    ASSUME BasicInv, LinkInv, NEW c \in AppCmd, NEW t, transceive(c, t)
    PROVE  LinkInv'
  <1>1. c \in Cmd /\ stage = "open" /\ Begin(c, t) /\ stage' = stage
    BY DEF Cmd, transceive
  <1>2. pc = "idle" /\ pc' = "ack" /\ GrownOut(Frame(me')) /\ UNCHANGED <<in, run, last, failed, result>>
    BY <1>1, BeganFacts
  <1>3. Ins' = Ins /\ Outs \in Nat
    BY <1>2, EndpointFacts DEF BasicInv, Ins
  <1>4. RunningOK'
    BY <1>1, <1>2, <1>3 DEF LinkInv, RunningOK, GrownOut
  <1>5. QED
    BY <1>1, <1>4 DEF LinkInv, OpeningOK, ParametersOK, Opening

\* Reading a packet for the ACK
LEMMA ReadAckFacts ==
    ASSUME BasicInv, read_ack
    PROVE  /\ pc = "ack" /\ pc' = "pass" /\ TakenIn /\ in[1] \in Packet /\ UNCHANGED <<stage, me, run, last, result, failed>>
           /\ (in[1].kind = "ack" /\ SameOut) \/ (in[1].kind # "ack" /\ GrownOut(Nack))
           /\ me \in Call \cup {Nil} /\ me # Nil
  <1>1. pc = "ack" /\ in # <<>> /\ in' = Tail(in) /\ pc' = "pass" /\ UNCHANGED <<stage, me, run, last, result, failed>>
        /\ out' = IF Head(in).kind = "ack" THEN out ELSE Append(out, Nack)
    BY DEF read_ack
  <1>2. Head(in) = in[1] /\ in[1] \in Packet /\ TakenIn
    BY <1>1, InTaken DEF BasicInv, TakenIn
  <1>3. CASE in[1].kind = "ack"
    BY <1>1, <1>2, <1>3 DEF SameOut, Outs, BasicInv, CallOK, TypeOK
  <1>4. CASE in[1].kind # "ack"
    <2>1. out' = Append(out, Nack)
      BY <1>1, <1>2, <1>4
    <2>2. GrownOut(Nack)
      BY <2>1, OutAppended, MessageFacts DEF GrownOut, BasicInv
    <2>3. QED
      BY <1>1, <1>2, <1>4, <2>2 DEF BasicInv, CallOK, TypeOK
  <1>5. QED
    BY <1>3, <1>4

LEMMA ReadAckOpening ==
    ASSUME BasicInv, OpeningOK, read_ack
    PROVE  OpeningOK'
  <1>1. /\ pc = "ack" /\ pc' = "pass" /\ TakenIn /\ UNCHANGED <<stage, me, run, last, result, failed>>
        /\ SameOut \/ GrownOut(Nack)
        /\ me \in Call \cup {Nil} /\ me # Nil
    BY ReadAckFacts
  <1> SUFFICES ASSUME Opening PROVE (StaleOK /\ NackOK /\ SentOK)' /\ (Ins > 0 => Settled)'
    BY <1>1 DEF OpeningOK, Opening
  <1>2. /\ Ins \in Nat /\ Outs \in Nat
        /\ \A i \in 1..Outs : out[i] \in Message
    BY EndpointFacts DEF BasicInv
  <1>3. StaleOK /\ NackOK /\ SentOK /\ (Ins > 0 => Settled)
    BY DEF OpeningOK
  <1>4. \A c : Stale(c)' = Stale(c)
    BY <1>1 DEF Stale
  <1>5. Depth \in Nat /\ Depth' \in Nat /\ Depth - 1 <= Depth'
    BY <1>1 DEF Depth, Opening
  <1>6. AbortNext => AbortNext'
    BY <1>1, <1>2 DEF AbortNext, SameOut, GrownOut, Abort
  <1>7. Ins >= 1 /\ Ins' = Ins - 1 /\ \A i \in 1..Ins' : in'[i] = in[i + 1]
    BY <1>1 DEF TakenIn
  <1>8. StaleOK'
    <2>1. ASSUME NEW i \in 1..Ins', in'[i].kind # "ack", Stale(in'[i].call) PROVE i <= Depth'
      <3>1. i + 1 \in 1..Ins /\ in'[i] = in[i + 1]
        BY <1>2, <1>7
      <3>2. i + 1 <= Depth
        BY <1>3, <2>1, <3>1 DEF StaleOK
      <3>3. QED
        BY <1>5, <3>2
    <2>2. Stale(run) => AbortNext' /\ Ins' < Depth'
      BY <1>2, <1>3, <1>5, <1>6, <1>7 DEF StaleOK
    <2>3. ASSUME NEW i \in 1..Outs', out'[i].kind = "frame" PROVE out'[i].call # Nil /\ ~Stale(out'[i].call)
      <3>1. i \in 1..Outs /\ out'[i] = out[i]
        <4>1. CASE SameOut
          BY <4>1 DEF SameOut
        <4>2. CASE GrownOut(Nack)
          <5>1. i # Outs'
            BY <2>3, <4>2, MessageFacts DEF GrownOut
          <5>2. QED
            BY <1>2, <4>2, <5>1 DEF GrownOut
        <4>3. QED
          BY <1>1, <4>1, <4>2
      <3>2. QED
        BY <1>3, <2>3, <3>1 DEF StaleOK
    <2>4. (\A i \in 1..Ins : in[i].kind # "ack" /\ Stale(in[i].call) => i <= Depth)'
      BY <1>4, <2>1
    <2>5. (Stale(run) => AbortNext /\ Ins < Depth)' /\ (pc # "idle" => ~Stale(me))'
      BY <1>1, <1>3, <1>4, <2>2 DEF StaleOK
    <2>6. (\A i \in 1..Outs : out[i].kind = "frame" => out[i].call # Nil /\ ~Stale(out[i].call))'
      BY <1>4, <2>3
    <2>7. QED
      BY <2>4, <2>5, <2>6 DEF StaleOK
  <1>9. NackOK'
    <2>1. CASE SameOut
      <3>1. (\A i \in 2..Outs : out[i].kind = "nack" => out[i - 1].kind = "frame")'
        BY <1>2, <1>3, <2>1 DEF NackOK, SameOut
      <3>2. (Outs > 0 /\ out[1].kind = "nack" => run # Nil \/ ~Stale(last))'
        BY <1>1, <1>2, <1>3, <1>4, <2>1 DEF NackOK, SameOut
      <3>3. QED
        BY <3>1, <3>2 DEF NackOK
    <2>2. CASE GrownOut(Nack)
      <3>1. Outs' = Outs + 1 /\ out'[Outs'] = Nack /\ \A i \in 1..Outs : out'[i] = out[i]
        BY <2>2 DEF GrownOut
      <3>2. ASSUME NEW i \in 2..Outs', out'[i].kind = "nack" PROVE out'[i - 1].kind = "frame"
        <4>1. CASE i = Outs + 1
          <5>1. Outs > 0 /\ i - 1 = Outs /\ out'[Outs] = out[Outs]
            BY <1>2, <3>1, <4>1
          <5>2. out[Outs] = Frame(me)
            BY <1>1, <1>2, <1>3, <5>1 DEF SentOK
          <5>3. QED
            BY <1>1, <5>1, <5>2, MessageFacts
        <4>2. CASE i \in 2..Outs
          BY <1>2, <1>3, <3>1, <3>2, <4>2 DEF NackOK
        <4>3. QED
          BY <1>2, <3>1, <4>1, <4>2
      <3>3. ASSUME out'[1].kind = "nack" PROVE run # Nil \/ ~Stale(last)
        <4>1. CASE Outs = 0
          BY <1>1, <1>3, <4>1 DEF SentOK, StaleOK
        <4>2. CASE Outs > 0
          BY <1>2, <1>3, <3>1, <3>3, <4>2 DEF NackOK
        <4>3. QED
          BY <1>2, <4>1, <4>2
      <3>4. (Outs > 0 /\ out[1].kind = "nack" => run # Nil \/ ~Stale(last))'
        BY <1>1, <1>4, <3>3
      <3>5. QED
        BY <3>2, <3>4 DEF NackOK
    <2>3. QED
      BY <1>1, <2>1, <2>2
  <1>10. (Ins > 0 => Settled)'
    BY <1>1, <1>2, <1>3, <1>6, <1>7 DEF Settled, EndsAck
  <1>11. QED
    BY <1>1, <1>8, <1>9, <1>10 DEF SentOK
LEMMA ReadAckParameters ==
    ASSUME BasicInv, OpeningOK, ParametersOK, read_ack
    PROVE  ParametersOK'
  <1>1. /\ pc = "ack" /\ pc' = "pass" /\ TakenIn /\ UNCHANGED <<stage, me, run, last, result, failed>>
        /\ (in[1].kind = "ack" /\ SameOut) \/ (in[1].kind # "ack" /\ GrownOut(Nack))
        /\ me \in Call \cup {Nil} /\ me # Nil
    BY ReadAckFacts
  <1> SUFFICES ASSUME Opening, stage = "parameters"
               PROVE  (Waiting => WaitingOK)' /\ (~Waiting => TakenOK)'
    BY <1>1 DEF ParametersOK, Opening
  <1>2. /\ Ins \in Nat /\ Outs \in Nat
        /\ Ins >= 1 /\ Ins' = Ins - 1 /\ \A i \in 1..Ins' : i + 1 \in 1..Ins /\ in'[i] = in[i + 1]
    BY <1>1, EndpointFacts DEF BasicInv, TakenIn
  <1>3. SentOK /\ (Waiting => WaitingOK) /\ (~Waiting => TakenOK)
    BY <1>1 DEF OpeningOK, ParametersOK
  <1>4. Frame(me)' = Frame(me) /\ Reply(me)' = Reply(me) /\ Nack' = Nack /\ Abort' = Abort
    BY <1>1 DEF Frame, Reply, Nack, Abort
  <1>5. Frame(me) # Nack
    BY <1>1, Distinct
  <1>6. CASE Waiting
    <2>1. WaitingOK /\ Outs > 0 /\ out[Outs] = Frame(me)
      BY <1>1, <1>2, <1>3, <1>6 DEF Waiting, SentOK
    <2>2. \A i \in 1..Outs : out[i] = Frame(me) => i = Outs
      BY <1>5, <2>1 DEF WaitingOK
    <2>3. \A i \in 1..Ins' : in'[i] # Reply(me)
      BY <1>2, <2>1 DEF WaitingOK
    <2>4. CASE SameOut
      <3>1. Outs' = Outs /\ out'[Outs'] = Frame(me) /\ \A i \in 1..Outs' : out'[i] = Frame(me) => i = Outs'
        BY <1>2, <2>1, <2>2, <2>4 DEF SameOut
      <3>2. Waiting' /\ ~NackPending'
        BY <1>4, <1>5, <2>1, <3>1 DEF Waiting, NackPending
      <3>3. WaitingOK'
        BY <1>1, <1>4, <2>1, <2>3, <3>1, <3>2 DEF WaitingOK
      <3>4. QED
        BY <3>2, <3>3
    <2>5. CASE in[1].kind # "ack" /\ GrownOut(Nack)
      <3>1. Outs' = Outs + 1 /\ out'[Outs'] = Nack /\ out'[Outs' - 1] = Frame(me) /\ \A i \in 1..Outs : out'[i] = out[i]
        BY <1>2, <2>1, <2>5 DEF GrownOut
      <3>2. Waiting'
        BY <1>2, <1>4, <2>1, <3>1 DEF Waiting
      <3>3. ASSUME NEW i \in 1..Outs', out'[i] = Frame(me) PROVE i = Outs' - 1
        <4>1. i # Outs'
          BY <1>5, <3>1, <3>3
        <4>2. i \in 1..Outs
          BY <1>2, <3>1, <4>1
        <4>3. QED
          BY <1>2, <2>2, <3>1, <3>3, <4>2
      <3>4. Settled'
        <4>1. Settled
          BY <1>1, <2>1 DEF WaitingOK
        <4>2. AbortNext => AbortNext'
          BY <1>2, <1>4, <2>1, <3>1 DEF AbortNext
        <4>3. EndsAck => EndsAck'
          BY <1>2, <2>5 DEF EndsAck
        <4>4. QED
          BY <1>1, <4>1, <4>2, <4>3 DEF Settled
      <3>5. WaitingOK'
        BY <1>1, <1>4, <2>1, <2>3, <3>1, <3>3, <3>4 DEF WaitingOK
      <3>6. QED
        BY <3>2, <3>5
    <2>6. QED
      BY <1>1, <2>4, <2>5
  <1>7. CASE ~Waiting
    <2>1. TakenOK /\ Outs = 0 /\ HasAck
      BY <1>1, <1>3, <1>7 DEF TakenOK
    <2>2. Outs' = 0 \/ (Outs' = 1 /\ out'[1] = Nack /\ in[1].kind # "ack")
      BY <1>1, <2>1 DEF SameOut, GrownOut
    <2>3. ~Waiting'
      BY <1>4, <1>5, <2>2 DEF Waiting
    <2>4. run = me => \A i \in 1..Ins' : in'[i] # Reply(me)
      BY <1>2, <2>1 DEF TakenOK
    <2>5. ASSUME NEW i \in 1..Ins', NEW j \in 1..Ins', i < j, in'[i] = Reply(me) PROVE FALSE
      <3>1. i + 1 \in 1..Ins /\ j + 1 \in 1..Ins /\ i + 1 < j + 1 /\ in[i + 1] = Reply(me)
        BY <1>2, <2>5
      <3>2. QED
        BY <1>1, <2>1, <3>1 DEF TakenOK
    <2>6. ASSUME NackPending' PROVE HasAck'
      <3>1. in[1].kind # "ack"
        BY <2>2, <2>6 DEF NackPending
      <3>2. PICK k \in 1..Ins : in[k].kind = "ack"
        BY <2>1 DEF HasAck
      <3>3. k - 1 \in 1..Ins' /\ in'[k - 1] = in[k]
        BY <1>2, <3>1, <3>2
      <3>4. QED
        BY <3>2, <3>3 DEF HasAck
    <2>7. TakenOK'
      BY <1>1, <1>4, <2>1, <2>2, <2>4, <2>5, <2>6 DEF TakenOK
    <2>8. QED
      BY <2>3, <2>7
  <1>8. QED
    BY <1>6, <1>7

LEMMA ReadAckLink ==
    ASSUME BasicInv, LinkInv, read_ack
    PROVE  LinkInv'
  <1>1. /\ pc = "ack" /\ pc' = "pass" /\ TakenIn /\ UNCHANGED <<stage, me, run, last, result, failed>>
        /\ (in[1].kind = "ack" /\ SameOut) \/ (in[1].kind # "ack" /\ GrownOut(Nack))
    BY ReadAckFacts
  <1>2. RunningOK'
    <2> SUFFICES ASSUME stage = "open", ~failed
                 PROVE  \/ Outs' = 0 /\ Ins' = 0 /\ run' = me'
                        \/ Outs' = 0 /\ Ins' = 1 /\ in'[1] = Reply(me') /\ run' = Nil
      BY <1>1 DEF LinkInv, RunningOK
    <2>1. Ins \in Nat /\ Outs \in Nat /\ Ins >= 1 /\ Ins' = Ins - 1 /\ \A i \in 1..Ins' : in'[i] = in[i + 1]
      BY <1>1, EndpointFacts DEF BasicInv, TakenIn
    <2>2. CASE Outs = 0 /\ Ins = 1 /\ in[1].kind = "ack" /\ run = me
      BY <1>1, <2>1, <2>2 DEF SameOut
    <2>3. CASE Outs = 0 /\ Ins = 2 /\ in[1].kind = "ack" /\ in[2] = Reply(me) /\ run = Nil
      BY <1>1, <2>1, <2>3 DEF SameOut
    <2>4. QED
      BY <1>1, <2>1, <2>2, <2>3 DEF LinkInv, RunningOK
  <1>3. QED
    BY <1>2, ReadAckOpening, ReadAckParameters DEF LinkInv

-----------------------------------------------------------------------------
(* LinkInv: the returns                                                    *)

\* The dummy command of pn53x_usb_init ends, well or not.
LEMMA DummyLink ==
    ASSUME BasicInv, LinkInv, stage = "dummy", stage' = "firmware", pc' = "idle", UNCHANGED <<run, last, failed>>,
           SameIn \/ TakenIn, SameOut \/ GrownOut(Abort) \/ CutOut
    PROVE  LinkInv'
  <1>1. CASE failed
    BY <1>1, LinkVacuous
  <1>2. CASE ~failed
    <2>1. StaleOK /\ NackOK /\ (Ins > 0 => Settled)
      BY <1>2 DEF LinkInv, OpeningOK, Opening
    <2>2. /\ Ins \in Nat /\ Outs \in Nat
          /\ \A i \in 1..Outs : out[i] \in Message
      BY EndpointFacts DEF BasicInv
    <2>3. \A c : Stale(c)' = Stale(c)
      BY DEF Stale
    <2>4. Depth = 3 /\ Depth' = 3
      BY DEF Depth
    <2>5. Outs' \in Nat /\ Ins' \in Nat /\ Ins' <= Ins
      BY <2>2 DEF SameOut, GrownOut, CutOut, SameIn, TakenIn
    <2>6. ASSUME NEW i \in 1..Outs', out'[i] # Abort PROVE i \in 1..Outs /\ out'[i] = out[i]
      BY <2>2, <2>6 DEF SameOut, GrownOut, CutOut
    <2>7. AbortNext => AbortNext'
      <3>1. SUFFICES ASSUME Outs > 0, out[1] = Abort PROVE Outs' > 0 /\ out'[1] = Abort
        BY DEF AbortNext, Abort
      <3>2. CASE SameOut \/ GrownOut(Abort)
        BY <2>2, <3>1, <3>2 DEF SameOut, GrownOut
      <3>3. CASE CutOut
        <4>1. Outs # 1
          BY <3>1, <3>3, MessageFacts DEF CutOut
        <4>2. QED
          BY <2>2, <3>1, <3>3, <4>1 DEF CutOut
      <3>4. QED
        BY <3>2, <3>3
    <2>8. ASSUME Ins' > 0 PROVE Settled'
      <3>1. Settled
        BY <2>1, <2>2, <2>5, <2>8
      <3>2. in'[Ins'] = in[Ins]
        BY <2>2, <2>8 DEF SameIn, TakenIn
      <3>3. QED
        BY <2>2, <2>7, <2>8, <3>1, <3>2 DEF Settled, EndsAck
    <2>9. StaleOK'
      <3>1. ASSUME NEW i \in 1..Ins', in'[i].kind # "ack", Stale(in'[i].call) PROVE i <= 3
        <4>1. CASE SameIn
          BY <2>1, <2>4, <3>1, <4>1 DEF StaleOK, SameIn
        <4>2. CASE TakenIn
          <5>1. i + 1 \in 1..Ins /\ in'[i] = in[i + 1]
            BY <2>2, <4>2 DEF TakenIn
          <5>2. i + 1 <= 3
            BY <2>1, <2>4, <3>1, <5>1 DEF StaleOK
          <5>3. QED
            BY <5>2
        <4>3. QED
          BY <4>1, <4>2
      <3>2. Stale(run) => AbortNext' /\ Ins' < 3
        BY <2>1, <2>2, <2>4, <2>5, <2>7 DEF StaleOK
      <3>3. ASSUME NEW i \in 1..Outs', out'[i].kind = "frame" PROVE out'[i].call # Nil /\ ~Stale(out'[i].call)
        <4>1. out'[i] # Abort
          BY <3>3, MessageFacts
        <4>2. QED
          BY <2>1, <2>6, <3>3, <4>1 DEF StaleOK
      <3>4. (\A i \in 1..Ins : in[i].kind # "ack" /\ Stale(in[i].call) => i <= Depth)'
        BY <2>3, <2>4, <3>1
      <3>5. (Stale(run) => AbortNext /\ Ins < Depth)'
        BY <2>3, <2>4, <3>2
      <3>6. (\A i \in 1..Outs : out[i].kind = "frame" => out[i].call # Nil /\ ~Stale(out[i].call))'
        BY <2>3, <3>3
      <3>7. QED
        BY <3>4, <3>5, <3>6 DEF StaleOK
    <2>10. NackOK'
      <3>1. ASSUME NEW i \in 2..Outs', out'[i].kind = "nack" PROVE out'[i - 1].kind = "frame"
        <4>1. out'[i] # Abort /\ i \in 1..Outs'
          BY <2>5, <3>1, MessageFacts
        <4>2. i \in 2..Outs /\ out'[i] = out[i] /\ i - 1 \in 1..Outs'
          BY <2>2, <2>5, <2>6, <4>1
        <4>3. out[i - 1].kind = "frame"
          BY <2>1, <3>1, <4>2 DEF NackOK
        <4>4. out'[i - 1] = out[i - 1]
          BY <2>2, <4>2 DEF SameOut, GrownOut, CutOut
        <4>5. QED
          BY <4>3, <4>4
      <3>2. ASSUME Outs' > 0, out'[1].kind = "nack" PROVE run # Nil \/ ~Stale(last)
        <4>1. out'[1] # Abort /\ 1 \in 1..Outs'
          BY <2>5, <3>2, MessageFacts
        <4>2. Outs > 0 /\ out'[1] = out[1]
          BY <2>2, <2>6, <4>1
        <4>3. QED
          BY <2>1, <3>2, <4>2 DEF NackOK
      <3>3. (Outs > 0 /\ out[1].kind = "nack" => run # Nil \/ ~Stale(last))'
        BY <2>3, <3>2
      <3>4. QED
        BY <3>1, <3>3 DEF NackOK
    <2>11. QED
      BY <2>8, <2>9, <2>10 DEF LinkInv, OpeningOK, SentOK, ParametersOK, RunningOK
  <1>3. QED
    BY <1>1, <1>2

\* A call returns without a payload.
LEMMA FailLink ==
    ASSUME BasicInv, LinkInv, NEW o, NEW f, Return(o, f), o # "payload", UNCHANGED <<run, last>>,
           SameIn \/ TakenIn, SameOut \/ GrownOut(Abort) \/ CutOut
    PROVE  LinkInv'
  <1>1. CASE stage = "dummy"
    <2>1. stage' = "firmware" /\ pc' = "idle"
      BY <1>1, AfterFacts DEF Return
    <2>2. failed' = failed
      BY <1>1, Zenon DEF Return, BasicInv, TypeOK
    <2>3. QED
      BY <1>1, <2>1, <2>2, DummyLink
  <1>2. CASE stage # "dummy"
    <2>1. stage \in {"closed", "firmware", "parameters", "open", "closing"}
      BY <1>2 DEF BasicInv, TypeOK
    <2>2. stage = "open" => failed'
      BY DEF Return
    <2>3. stage # "open" => stage' = "closed"
      BY <2>1 DEF Return, After
    <2>4. QED
      BY <2>2, <2>3, LinkVacuous
  <1>3. QED
    BY <1>1, <1>2

\* pn53x_usb_receive hands a packet to the caller.
LEMMA PayloadLink ==
    ASSUME BasicInv, LinkInv, pc = "read", TakenIn, SameOut, UNCHANGED <<me, run, last>>,
           in[1] \in Packet, in[1].kind = "reply", in[1].call.cmd = last_command, Return("payload", in[1].call)
    PROVE  LinkInv'
  <1>1. /\ pc' = "idle" /\ result'.outcome = "payload" /\ result'.call = me /\ result'.from = in[1].call
        /\ stage \in {"closed", "dummy", "firmware", "parameters", "open", "closing"}
    BY DEF Return, BasicInv, TypeOK
  <1>2. /\ stage' = CASE stage = "dummy" -> "firmware"
                      [] stage = "firmware" -> "parameters"
                      [] stage = "parameters" -> "open"
                      [] stage = "closing" -> "closed"
                      [] OTHER -> stage
    BY AfterFacts
  <1>3. failed' = failed
    BY Zenon DEF Return, BasicInv, TypeOK
  <1>4. /\ Ins \in Nat /\ Outs \in Nat /\ Outs' = Outs /\ Ins >= 1 /\ Ins' = Ins - 1
        /\ \A i \in 1..Ins' : i + 1 \in 1..Ins /\ in'[i] = in[i + 1]
        /\ \A i \in 1..Outs : out'[i] = out[i]
    BY EndpointFacts DEF BasicInv, SameOut, TakenIn
  <1>5. CASE failed
    BY <1>3, <1>5, LinkVacuous
  <1>6. CASE stage = "dummy"
    BY <1>1, <1>2, <1>3, <1>6, DummyLink
  <1>7. CASE stage = "firmware" /\ ~failed
    <2>1. StaleOK /\ NackOK /\ Settled
      BY <1>4, <1>7 DEF LinkInv, OpeningOK, Opening
    <2>2. \A c : Stale(c)' = Stale(c)
      BY <1>1, <1>7 DEF Stale
    <2>3. stage' = "parameters" /\ Depth = 2 /\ Depth' = 1
      BY <1>1, <1>2, <1>7 DEF Depth
    <2>4. AbortNext' = AbortNext
      BY <1>4 DEF AbortNext, Abort
    <2>5. Settled'
      <3>1. EndsAck => EndsAck'
        BY <1>4 DEF EndsAck
      <3>2. QED
        BY <2>1, <2>4, <3>1 DEF Settled
    <2>6. StaleOK'
      <3>1. ASSUME NEW i \in 1..Ins', in'[i].kind # "ack", Stale(in'[i].call) PROVE i <= 1
        <4>1. i + 1 <= 2
          BY <1>4, <2>1, <2>3, <3>1 DEF StaleOK
        <4>2. QED
          BY <4>1
      <3>2. (\A i \in 1..Ins : in[i].kind # "ack" /\ Stale(in[i].call) => i <= Depth)'
        BY <2>2, <2>3, <3>1
      <3>3. (Stale(run) => AbortNext /\ Ins < Depth)'
        BY <1>4, <2>1, <2>2, <2>3, <2>4 DEF StaleOK
      <3>4. (\A i \in 1..Outs : out[i].kind = "frame" => out[i].call # Nil /\ ~Stale(out[i].call))'
        BY <1>4, <2>1, <2>2 DEF StaleOK
      <3>5. QED
        BY <1>1, <3>2, <3>3, <3>4 DEF StaleOK
    <2>7. NackOK'
      <3>1. (\A i \in 2..Outs : out[i].kind = "nack" => out[i - 1].kind = "frame")'
        BY <1>4, <2>1 DEF NackOK
      <3>2. (Outs > 0 /\ out[1].kind = "nack" => run # Nil \/ ~Stale(last))'
        BY <1>4, <2>1, <2>2 DEF NackOK
      <3>3. QED
        BY <3>1, <3>2 DEF NackOK
    <2>8. QED
      BY <1>1, <2>3, <2>5, <2>6, <2>7 DEF LinkInv, OpeningOK, SentOK, ParametersOK, RunningOK
  <1>8. CASE stage = "parameters" /\ ~failed
    <2>1. /\ StaleOK /\ me.cmd = "SetParameters" /\ (Waiting => WaitingOK) /\ (~Waiting => TakenOK)
          /\ last_command = me.cmd
      BY <1>8 DEF LinkInv, OpeningOK, ParametersOK, Opening, BasicInv, CallOK
    <2>2. Depth = 0 /\ stage' = "open"
      BY <1>2, <1>8 DEF Depth
    <2>3. ~Stale(in[1].call)
      BY <1>4, <2>1, <2>2 DEF StaleOK
    <2>4. in[1].call = me /\ in[1] = Reply(me)
      BY <2>1, <2>3, MessageIs DEF Stale
    <2>5. TakenOK
      BY <1>4, <2>1, <2>4 DEF WaitingOK
    <2>6. run = Nil
      BY <1>4, <2>4, <2>5 DEF TakenOK
    <2>7. ~HasAck
      <3>1. SUFFICES ASSUME NEW k \in 1..Ins, in[k].kind = "ack" PROVE FALSE
        BY DEF HasAck
      <3>2. k # 1
        BY <3>1
      <3>3. 1 \in 1..Ins /\ 1 < k
        BY <1>4, <3>2
      <3>4. in[k] = Reply(me)
        BY <2>4, <2>5, <3>3 DEF TakenOK
      <3>5. QED
        BY <2>4, <3>1, <3>4
    <2>8. Ins = 1
      <3>1. SUFFICES ASSUME Ins # 1 PROVE FALSE
        OBVIOUS
      <3>2. 1 \in 1..Ins /\ 2 \in 1..Ins /\ 1 < 2
        BY <1>4, <3>1
      <3>3. QED
        BY <2>4, <2>5, <2>7, <3>2 DEF TakenOK
    <2>9. Outs = 0
      BY <2>5, <2>7 DEF TakenOK, NackPending
    <2>10. QED
      BY <1>1, <1>4, <2>2, <2>4, <2>6, <2>8, <2>9 DEF LinkInv, OpeningOK, Opening, ParametersOK, RunningOK
  <1>9. CASE stage = "open" /\ ~failed
    <2>1. Outs = 0 /\ Ins = 1 /\ in[1] = Reply(me) /\ run = Nil
      BY <1>4, <1>9 DEF LinkInv, RunningOK
    <2>2. in[1].call = me
      BY <2>1, MessageFacts DEF BasicInv, TypeOK
    <2>3. stage' = "open"
      BY <1>2, <1>9
    <2>4. QED
      BY <1>1, <1>4, <2>1, <2>2, <2>3 DEF LinkInv, OpeningOK, Opening, ParametersOK, RunningOK
  <1>10. CASE stage \in {"closed", "closing"}
    <2>1. stage' = "closed"
      BY <1>2, <1>10
    <2>2. QED
      BY <2>1, LinkVacuous
  <1>11. QED
    BY <1>1, <1>5, <1>6, <1>7, <1>8, <1>9, <1>10

LEMMA ReadReplyLink ==
    ASSUME BasicInv, LinkInv, read_reply
    PROVE  LinkInv'
  <1>1. pc = "read" /\ in # <<>> /\ in' = Tail(in) /\ UNCHANGED <<me, last_command, out, run, last>>
    BY DEF read_reply
  <1>2. Head(in) = in[1] /\ in[1] \in Packet /\ TakenIn
    BY <1>1, InTaken DEF BasicInv, TakenIn
  <1>3. SameOut
    BY <1>1 DEF SameOut, Outs
  <1>4. CASE in[1].kind = "reply" /\ in[1].call.cmd = last_command
    <2>1. Return("payload", in[1].call)
      BY <1>2, <1>4 DEF read_reply
    <2>2. QED
      BY <1>1, <1>2, <1>3, <1>4, <2>1, PayloadLink
  <1>5. CASE ~(in[1].kind = "reply" /\ in[1].call.cmd = last_command)
    <2>1. Return("EIO", Nil)
      BY <1>2, <1>5 DEF read_reply
    <2>2. QED
      BY <1>1, <1>2, <1>3, <2>1, FailLink
  <1>6. QED
    BY <1>4, <1>5

LEMMA AckTimeoutLink ==
    ASSUME BasicInv, LinkInv, ack_timeout \/ io_error
    PROVE  LinkInv'
  <1>1. out' = Append(out, Abort) => GrownOut(Abort)
    BY OutAppended, MessageFacts DEF BasicInv, GrownOut
  <1>2. out' = out => SameOut
    BY DEF SameOut, Outs
  <1>3. in' = in => SameIn
    BY DEF SameIn, Ins
  <1>4. CASE ack_timeout
    <2>1. Return("EUSB", Nil) /\ UNCHANGED <<in, run, last>> /\ out' = Append(out, Abort)
      BY <1>4 DEF ack_timeout, chipVars
    <2>2. QED
      BY <1>1, <1>3, <2>1, FailLink
  <1>5. CASE io_error
    <2>1. Return("EUSB", Nil) /\ UNCHANGED <<run, last>>
      BY <1>5 DEF io_error
    <2>2. SameIn \/ TakenIn
      <3>1. in # <<>> /\ in' = Tail(in) => TakenIn
        BY InTaken DEF BasicInv, TakenIn
      <3>2. QED
        BY <1>3, <1>5, <3>1 DEF io_error
    <2>3. SameOut \/ GrownOut(Abort) \/ CutOut
      <3>1. ASSUME out # <<>>, out[Len(out)] = Frame(me), out' = SubSeq(out, 1, Len(out) - 1) PROVE CutOut
        <4>1. Outs >= 1 /\ Outs' = Outs - 1 /\ \A i \in 1..Outs' : out'[i] = out[i]
          BY <3>1, OutFront DEF BasicInv
        <4>2. out[Outs].kind = "frame"
          BY <3>1, MessageFacts DEF Outs, BasicInv, TypeOK
        <4>3. QED
          BY <4>1, <4>2 DEF CutOut
      <3>2. QED
        BY <1>1, <1>2, <1>5, <3>1 DEF io_error
    <2>4. QED
      BY <2>1, <2>2, <2>3, FailLink
  <1>6. QED
    BY <1>4, <1>5

LEMMA PassLink ==
    ASSUME BasicInv, LinkInv, next_pass \/ read_timeout
    PROVE  LinkInv'
  <1>1. out' = Append(out, Abort) => GrownOut(Abort)
    BY OutAppended, MessageFacts DEF BasicInv, GrownOut
  <1>2. (out' = out => SameOut) /\ (in' = in => SameIn)
    BY DEF SameOut, Outs, SameIn, Ins
  <1>3. CASE next_pass
    <2>1. pc = "pass" /\ UNCHANGED <<me, in, out, run, last>>
      BY <1>3 DEF next_pass, chipVars
    <2>2. CASE Return("ETIMEOUT", Nil)
      BY <1>2, <2>1, <2>2, FailLink
    <2>3. CASE pc' = "read" /\ UNCHANGED <<stage, result, failed>>
      BY <2>1, <2>3, LinkKept
    <2>4. QED
      BY <1>3, <2>2, <2>3 DEF next_pass
  <1>4. CASE read_timeout
    <2>1. pc = "read" /\ UNCHANGED <<me, in, run, last>>
      BY <1>4 DEF read_timeout, chipVars
    <2>2. CASE out' = Append(out, Abort) /\ Return("EOPABORTED", Nil)
      BY <1>1, <1>2, <2>1, <2>2, FailLink
    <2>3. CASE pc' = "pass" /\ UNCHANGED <<stage, result, failed, out>>
      BY <2>1, <2>3, LinkKept
    <2>4. QED
      BY <1>4, <2>2, <2>3 DEF read_timeout
  <1>5. QED
    BY <1>3, <1>4

LEMMA InitLink == Init => LinkInv
  BY DEF Init, LinkInv, OpeningOK, ParametersOK, RunningOK, Opening

LEMMA NextLink ==
    ASSUME BasicInv, LinkInv, [Next]_vars
    PROVE  LinkInv'
  <1>1. CASE UNCHANGED vars \/ abort_command
    <2>1. UNCHANGED <<stage, pc, me, result, failed, in, out, run, last>>
      BY <1>1 DEF vars, hostVars, chipVars, abort_command
    <2>2. QED
      BY <2>1, LinkKept
  <1>2. CASE close
    <2>1. stage' = "closing"
      BY <1>2 DEF close
    <2>2. QED
      BY <2>1, LinkVacuous
  <1>3. CASE Next
    BY <1>1, <1>2, <1>3, OpenLink, OpenCommandLink, TransceiveLink, ReadAckLink, AckTimeoutLink, PassLink, ReadReplyLink,
       ChipLink DEF Next, Host
  <1>4. QED
    BY <1>1, <1>3

-----------------------------------------------------------------------------
(* The theorems                                                            *)

\* The inductive invariant of the driver and its chip, for every set of commands
\* and time-outs, any slice, and any number of calls, aborts and failing
\* transfers: the accounting of waits and aborts, and what can be under way in
\* the two endpoints at each stage of pn53x_usb_open and of a call.
THEOREM UsbInductive == Spec => [](BasicInv /\ LinkInv)
  <1>1. Init => BasicInv /\ LinkInv
    BY InitBasic, InitLink
  <1>2. BasicInv /\ LinkInv /\ [Next]_vars => (BasicInv /\ LinkInv)'
    BY NextBasic, NextLink
  <1>3. QED
    BY <1>1, <1>2, PTL DEF Spec

\* pn53x_usb_open hands out a device only when host and chip are in step, however
\* many programs, sessions and failed openings came before, so long as its
\* endpoints hold no more than two unread packets; calls on it then leave nothing
\* behind and return the chip's answer to them, until one fails.
THEOREM InStepUnlessFailedHolds == Spec => []InStepUnlessFailed
  <1>1. BasicInv /\ LinkInv => InStepUnlessFailed
    <2> SUFFICES ASSUME BasicInv, LinkInv, stage = "open", ~failed
                 PROVE  (pc = "idle" => AtRest) /\ (result.outcome = "payload" => result.from = result.call)
      BY DEF InStepUnlessFailed
    <2>1. (in = <<>> <=> Ins = 0) /\ (out = <<>> <=> Outs = 0)
      BY EndpointFacts DEF BasicInv
    <2>2. QED
      BY <2>1 DEF LinkInv, RunningOK, AtRest
  <1>2. QED
    BY <1>1, UsbInductive, PTL

\* A call that pn53x_usb_receive gives up has waited for its time-out less one
\* slice, and an abort ends at most one call.
THEOREM WaitsLessASliceHolds == Spec => []WaitsLessASlice
  <1>1. BasicInv => WaitsLessASlice
    BY DEF BasicInv, WaitsLessASlice, WaitOK, AbortsOK, Short
  <1>2. QED
    BY <1>1, UsbInductive, PTL
=============================================================================
