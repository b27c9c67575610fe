------------------------------ MODULE UartProofs ------------------------------
(***************************************************************************)
(* A PN532 on a serial line answers each call with that call's own reply,  *)
(* and is as awake as the host takes it to be, for any number of calls,    *)
(* losses and aborts: what it takes for that to break is a call that       *)
(* failed or was aborted, and for a foreign reply a hasty caller as well.  *)
(***************************************************************************)
EXTENDS Pn532Uart, SequenceTheorems, TLAPS

-----------------------------------------------------------------------------
(* The invariant                                                           *)

Txs == Len(tx)
Wires == Len(wire)
Depth == Len(stack)
Run == chip.run
Ack(c) == [kind |-> "ack", call |-> c]
Reply(c) == [kind |-> "reply", call |-> c]

\* Only the send of a call that found low-VBat mode nests another one, and by
\* then the host takes the chip for awake.
StackOK ==
    /\ pc \in {"idle", "crashed"} => Depth = 0
    /\ Busy => Depth \in 1..2
    /\ pc = "frame" => Depth = 1
    /\ Depth = 2 => stack[1].cmd = "SAMConfiguration" /\ power_mode = "NORMAL"
    /\ pc = "receive" => last_command = stack[1].cmd

NoCommand == \A i \in 1..Txs : tx[i].kind # "frame"
NoAck == \A i \in 1..Wires : wire[i].kind # "ack"

\* The only command on its way is that of the call that waits for its ACK, and
\* until the chip has it there is no ACK.  Behind the ACK is the call's own answer.
AwaitsAck ==
    /\ \A i \in 1..Txs : tx[i].kind = "frame" => tx[i].call = stack[1] /\ NoAck
    /\ \A i, j \in 1..Txs : tx[i].kind = "frame" /\ tx[j].kind = "frame" => i = j
    /\ NoCommand => \A i \in 1..Wires : wire[i].kind = "ack" =>
                      /\ Run \in {stack[1], Nil}
                      /\ \A j \in i + 1 .. Wires : wire[j] = Reply(stack[1])

AwaitsReply == Run \in {stack[1], Nil} /\ \A i \in 1..Wires : wire[i] \in {Reply(stack[1]), Junk}

\* When every call let the line settle, an old answer can only come before the
\* ACK, where it is not taken for one.
SettledOK ==
    ~hasty =>
      /\ OwnReply
      /\ pc \in {"send", "frame", "receive", "rest"} => NoCommand
      /\ pc = "frame" => NoAck
      /\ pc = "ack" => AwaitsAck
      /\ pc \in {"receive", "rest"} => AwaitsReply

\* The power of a chip that has answered the call
Answered == chip.power = IF stack[1].cmd = "PowerDown" THEN "lowvbat" ELSE "awake"

Nothing == Txs = 0 /\ Wires = 0 /\ Run = Nil

SteadyAck ==
    /\ power_mode = "NORMAL"
    /\ \/ /\ Wires = 0 /\ Run = Nil
          /\ \/ Txs = 1 /\ tx[1] = Command(stack[1])
             \/ Txs = 2 /\ tx[1] = Wake /\ tx[2] = Command(stack[1])
       \/ /\ Txs = 0
          /\ Wires <= 2 /\ (Run # Nil => Wires <= 1)
          /\ Wires = 2 => wire[2] = Reply(stack[1])
          /\ Run \in {stack[1], Nil}
          /\ \A i \in 1..Wires : wire[i] = Reply(stack[1]) => Run = Nil /\ Answered

SteadyReply ==
    /\ stack[1].cmd # "TgInitAsTarget" => power_mode = "NORMAL"
    /\ Txs = 0 /\ Wires <= 1 /\ (Run # Nil => Wires = 0)
    /\ Wires = 1 /\ wire[1] = Reply(stack[1]) => Answered

\* Until a call fails or is aborted, at most one exchange is under way and the
\* host knows the power of the chip.
SteadyOK ==
    ~failed /\ aborts = 0 =>
      /\ ~hasty /\ ~signalled /\ abort_pc = "idle" /\ pc # "crashed"
      /\ pc = "idle" => Nothing /\ (power_mode = "NORMAL" => chip.power = "awake")
      /\ pc = "send" /\ Depth = 1 => Nothing /\ (power_mode = "NORMAL" => chip.power = "awake")
      /\ pc = "send" /\ Depth = 2 => Wires = 0 /\ Run = Nil /\ (Txs = 0 \/ (Txs = 1 /\ tx[1] = Wake))
      /\ pc = "frame" => Nothing /\ power_mode = "NORMAL"
      /\ pc = "ack" => SteadyAck
      /\ pc = "receive" => SteadyReply
      /\ pc = "rest" => Nothing

UartInv == TypeOK /\ StackOK /\ SettledOK /\ SteadyOK

-----------------------------------------------------------------------------
(* Lines, frame by frame                                                   *)

LEMMA NoFrames ==
    ASSUME NEW S
    PROVE  <<>> \in Seq(S) /\ Len(<<>>) = 0
  OBVIOUS

LEMMA LenFacts ==
    ASSUME NEW S, NEW s \in Seq(S)
    PROVE  Len(s) \in Nat /\ (s = <<>> <=> Len(s) = 0) /\ \A i \in 1..Len(s) : s[i] \in S
  OBVIOUS

LEMMA TailFacts ==
    ASSUME NEW S, NEW s \in Seq(S), s # <<>>
    PROVE  /\ Tail(s) \in Seq(S) /\ Head(s) = s[1] /\ Len(Tail(s)) = Len(s) - 1
           /\ \A i \in 1..Len(s) - 1 : Tail(s)[i] = s[i + 1]
  <1>1. Tail(s) \in Seq(S) /\ Head(s) = s[1]
    OBVIOUS
  <1>2. Len(Tail(s)) = Len(s) - 1
    OBVIOUS
  <1>3. \A i \in 1..Len(s) - 1 : Tail(s)[i] = s[i + 1]
    OBVIOUS
  <1> QED BY <1>1, <1>2, <1>3

LEMMA AppendFacts ==
    ASSUME NEW S, NEW s \in Seq(S), NEW e \in S
    PROVE  /\ Append(s, e) \in Seq(S) /\ Len(Append(s, e)) = Len(s) + 1
           /\ Append(s, e)[Len(s) + 1] = e /\ \A i \in 1..Len(s) : Append(s, e)[i] = s[i]
  OBVIOUS

LEMMA PairFacts ==
    ASSUME NEW S, NEW s \in Seq(S), NEW a \in S, NEW b \in S
    PROVE  /\ s \o <<a, b>> \in Seq(S) /\ Len(s \o <<a, b>>) = Len(s) + 2
           /\ (s \o <<a, b>>)[Len(s) + 1] = a /\ (s \o <<a, b>>)[Len(s) + 2] = b
           /\ \A i \in 1..Len(s) : (s \o <<a, b>>)[i] = s[i]
  OBVIOUS

LEMMA PrependFacts ==
    ASSUME NEW S, NEW s \in Seq(S), NEW e \in S
    PROVE  /\ <<e>> \o s \in Seq(S) /\ Len(<<e>> \o s) = Len(s) + 1 /\ (<<e>> \o s)[1] = e
           /\ \A i \in 1..Len(s) : (<<e>> \o s)[i + 1] = s[i]
  OBVIOUS

LEMMA SuffixFacts ==
    ASSUME NEW S, NEW s \in Seq(S), NEW k \in 0..Len(s)
    PROVE  SubSeq(s, k + 1, Len(s)) \in Seq(S)
  <1> DEFINE l == Len(s)
  <1>1. l \in Nat /\ \A i \in 1..l : s[i] \in S
    BY LenFacts
  <1>2. k \in 0..l
    OBVIOUS
  <1> HIDE DEF l
  <1>3. k + 1 \in Int /\ l \in Int /\ \A i \in k + 1 .. l : s[i] \in S
    BY <1>1, <1>2
  <1>4. SubSeq(s, k + 1, l) \in Seq(S)
    BY <1>3, SubSeqProperties
  <1> QED BY <1>4 DEF l

LEMMA Constants ==
    /\ Wake \in ToChip /\ Abort \in ToChip /\ Junk \in Frame /\ Wake.kind = "wake" /\ Abort.kind = "ack" /\ Junk.kind = "junk"
    /\ Wake.call = Nil /\ Junk.call = Nil /\ Nil \notin Call
    /\ \A c \in Call : /\ Command(c) \in ToChip /\ Command(c).kind = "frame" /\ Command(c).call = c
                       /\ Ack(c) \in Frame /\ Ack(c).kind = "ack" /\ Ack(c).call = c
                       /\ Reply(c) \in Frame /\ Reply(c).kind = "reply" /\ Reply(c).call = c /\ c # Nil
    /\ \A f \in Frame : f.kind # "junk" => f.call \in Call
    /\ \A f \in Frame : f.call \in Call \cup {Nil} /\ f.kind \in {"ack", "reply", "junk"}
    /\ \A m \in ToChip : m.kind \in {"frame", "wake", "ack"} /\ (m.kind = "frame" => m.call \in Call)
  <1>1. Nil \notin Call
    <2>1. Nil.cmd = "none" /\ "none" \notin Cmd
      BY LinkAssumption DEF Nil, Cmd
    <2> QED BY <2>1 DEF Call
  <1>2. /\ Wake \in ToChip /\ Abort \in ToChip /\ Junk \in Frame /\ Wake.kind = "wake" /\ Abort.kind = "ack" /\ Junk.kind = "junk"
        /\ Wake.call = Nil /\ Junk.call = Nil
    BY DEF Wake, Abort, Junk, ToChip, Frame
  <1>3. ASSUME NEW c \in Call
        PROVE  /\ Command(c) \in ToChip /\ Command(c).kind = "frame" /\ Command(c).call = c
               /\ Ack(c) \in Frame /\ Ack(c).kind = "ack" /\ Ack(c).call = c
               /\ Reply(c) \in Frame /\ Reply(c).kind = "reply" /\ Reply(c).call = c /\ c # Nil
    BY <1>1 DEF ToChip, Frame, Command, Ack, Reply
  <1>4. ASSUME NEW f \in Frame
        PROVE  /\ f.kind # "junk" => f.call \in Call
               /\ f.call \in Call \cup {Nil} /\ f.kind \in {"ack", "reply", "junk"}
    BY DEF Frame
  <1>5. ASSUME NEW m \in ToChip
        PROVE  m.kind \in {"frame", "wake", "ack"} /\ (m.kind = "frame" => m.call \in Call)
    BY DEF ToChip
  <1> QED BY <1>1, <1>2, <1>3, <1>4, <1>5

LEMMA LineFacts ==
    ASSUME TypeOK
    PROVE  /\ Wires \in Nat /\ Txs \in Nat /\ Depth \in 0..2
           /\ (wire = <<>> <=> Wires = 0) /\ (tx = <<>> <=> Txs = 0) /\ (stack = <<>> <=> Depth = 0)
           /\ \A i \in 1..Wires : wire[i] \in Frame
           /\ \A i \in 1..Txs : tx[i] \in ToChip
           /\ \A i \in 1..Depth : stack[i] \in Call
           /\ Run \in Call \cup {Nil}
  <1>1. wire \in Seq(Frame) /\ tx \in Seq(ToChip) /\ stack \in Seq(Call) /\ Len(stack) <= 2
    BY DEF TypeOK
  <1>2. Run \in Call \cup {Nil}
    BY DEF TypeOK, Run
  <1>3. Depth \in Nat /\ Depth <= 2
    BY <1>1, LenFacts DEF Depth
  <1>4. Wires \in Nat /\ (wire = <<>> <=> Wires = 0) /\ \A i \in 1..Wires : wire[i] \in Frame
    BY <1>1, LenFacts DEF Wires
  <1>5. Txs \in Nat /\ (tx = <<>> <=> Txs = 0) /\ \A i \in 1..Txs : tx[i] \in ToChip
    BY <1>1, LenFacts DEF Txs
  <1>6. (stack = <<>> <=> Depth = 0) /\ \A i \in 1..Depth : stack[i] \in Call
    BY <1>1, LenFacts DEF Depth
  <1> QED BY <1>2, <1>3, <1>4, <1>5, <1>6

LEMMA WireTaken ==
    ASSUME TypeOK, wire # <<>>, wire' = Tail(wire)
    PROVE  /\ wire' \in Seq(Frame) /\ Head(wire) = wire[1] /\ wire[1] \in Frame /\ Wires \in Nat /\ Wires >= 1
           /\ Wires' = Wires - 1 /\ \A i \in 1..Wires' : wire'[i] = wire[i + 1]
  <1>1. wire \in Seq(Frame)
    BY DEF TypeOK
  <1>2. Wires \in Nat /\ Wires >= 1 /\ wire[1] \in Frame
    BY LineFacts
  <1>3. /\ wire' \in Seq(Frame) /\ Head(wire) = wire[1] /\ Wires' = Wires - 1
        /\ \A i \in 1..Wires - 1 : wire'[i] = wire[i + 1]
    BY <1>1, TailFacts DEF Wires
  <1> QED BY <1>2, <1>3

LEMMA WireCut ==
    ASSUME TypeOK, wire # <<>>, wire' = <<Junk>> \o Tail(wire)
    PROVE  /\ wire' \in Seq(Frame) /\ Wires \in Nat /\ Wires >= 1
           /\ Wires' = Wires /\ wire'[1] = Junk /\ \A i \in 2..Wires : wire'[i] = wire[i]
  <1> DEFINE t == Tail(wire)
             n == Len(t)
  <1>1. wire \in Seq(Frame) /\ Junk \in Frame
    BY Constants DEF TypeOK
  <1>2. Wires \in Nat /\ Wires >= 1
    BY LineFacts
  <1>3. t \in Seq(Frame) /\ n = Wires - 1 /\ \A i \in 1..Wires - 1 : t[i] = wire[i + 1]
    BY <1>1, TailFacts DEF Wires
  <1> HIDE DEF t
  <1>4. /\ wire' \in Seq(Frame) /\ Wires' = n + 1 /\ wire'[1] = Junk /\ \A i \in 1..n : wire'[i + 1] = t[i]
    BY <1>1, <1>3, PrependFacts DEF Wires, t
  <1> HIDE DEF n
  <1>5. Wires' = Wires
    BY <1>2, <1>3, <1>4
  <1>6. ASSUME NEW i \in 2..Wires PROVE wire'[i] = wire[i]
    <2>1. i - 1 \in 1..n /\ i - 1 + 1 = i /\ i - 1 \in 1..Wires - 1
      BY <1>2, <1>3
    <2> QED BY <1>3, <1>4, <2>1
  <1> QED BY <1>2, <1>4, <1>5, <1>6

LEMMA WireGrown ==
    ASSUME TypeOK, NEW p \in Frame, wire' = Append(wire, p)
    PROVE  /\ wire' \in Seq(Frame) /\ Wires \in Nat /\ Wires' = Wires + 1 /\ wire'[Wires + 1] = p
           /\ \A i \in 1..Wires : wire'[i] = wire[i]
  BY LineFacts, AppendFacts DEF TypeOK, Wires

LEMMA WireCleared ==
    ASSUME wire' = <<>>
    PROVE  wire' \in Seq(Frame) /\ Wires' = 0
  BY NoFrames DEF Wires

LEMMA TxTaken ==
    ASSUME TypeOK, tx # <<>>, tx' = Tail(tx)
    PROVE  /\ tx' \in Seq(ToChip) /\ Head(tx) = tx[1] /\ tx[1] \in ToChip /\ Txs \in Nat /\ Txs >= 1
           /\ Txs' = Txs - 1 /\ \A i \in 1..Txs' : tx'[i] = tx[i + 1]
  <1>1. tx \in Seq(ToChip)
    BY DEF TypeOK
  <1>2. Txs \in Nat /\ Txs >= 1 /\ tx[1] \in ToChip
    BY LineFacts
  <1>3. /\ tx' \in Seq(ToChip) /\ Head(tx) = tx[1] /\ Txs' = Txs - 1
        /\ \A i \in 1..Txs - 1 : tx'[i] = tx[i + 1]
    BY <1>1, TailFacts DEF Txs
  <1> QED BY <1>2, <1>3

LEMMA TxGrown ==
    ASSUME TypeOK, NEW m \in ToChip, tx' = Append(tx, m)
    PROVE  /\ tx' \in Seq(ToChip) /\ Txs \in Nat /\ Txs' = Txs + 1 /\ tx'[Txs + 1] = m
           /\ \A i \in 1..Txs : tx'[i] = tx[i]
  BY LineFacts, AppendFacts DEF TypeOK, Txs

LEMMA TxGrownTwice ==
    ASSUME TypeOK, NEW a \in ToChip, NEW b \in ToChip, tx' = tx \o <<a, b>>
    PROVE  /\ tx' \in Seq(ToChip) /\ Txs \in Nat /\ Txs' = Txs + 2 /\ tx'[Txs + 1] = a /\ tx'[Txs + 2] = b
           /\ \A i \in 1..Txs : tx'[i] = tx[i]
  BY LineFacts, PairFacts DEF TypeOK, Txs

\* uart_flush_input leaves frames, and none where nothing is under way.
LEMMA Flushed ==
    ASSUME TypeOK, flush_input
    PROVE  wire' \in Seq(Frame) /\ (~hasty /\ pc = "send" => wire' = <<>>)
  <1>1. wire \in Seq(Frame) /\ Junk \in Frame /\ <<>> \in Seq(Frame)
    BY Constants, NoFrames DEF TypeOK
  <1>2. ASSUME NEW k \in 0..Len(wire),
               wire' \in {SubSeq(wire, k + 1, Len(wire))}
                         \cup (IF SubSeq(wire, k + 1, Len(wire)) = <<>> THEN {}
                               ELSE {<<Junk>> \o Tail(SubSeq(wire, k + 1, Len(wire)))})
        PROVE  wire' \in Seq(Frame)
    <2> DEFINE r == SubSeq(wire, k + 1, Len(wire))
    <2>1. r \in Seq(Frame)
      BY <1>1, SuffixFacts
    <2>2. wire' = r \/ (r # <<>> /\ wire' = <<Junk>> \o Tail(r))
      BY <1>2
    <2> HIDE DEF r
    <2>3. r # <<>> => Tail(r) \in Seq(Frame)
      BY <2>1, TailFacts
    <2> QED BY <1>1, <2>1, <2>2, <2>3, PrependFacts
  <1>3. wire' \in Seq(Frame)
    BY <1>1, <1>2 DEF flush_input
  <1> QED BY <1>3 DEF flush_input

-----------------------------------------------------------------------------
(* What the calls leave                                                    *)

LEMMA OneCall ==
    ASSUME NEW c \in Call
    PROVE  <<c>> \in Seq(Call) /\ Len(<<c>>) = 1 /\ <<c>>[1] = c
  OBVIOUS

LEMMA BusyFacts ==
    ASSUME TypeOK, StackOK, Busy
    PROVE  Depth \in 1..2 /\ stack # <<>> /\ Me = stack[1] /\ stack[1] \in Call /\ stack[Depth] \in Call
  <1>1. Depth \in 1..2 /\ stack # <<>> /\ stack[1] \in Call /\ stack[Depth] \in Call
    BY LineFacts DEF StackOK
  <1>2. Me = stack[1]
    BY <1>1, TailFacts DEF TypeOK, Me
  <1> QED BY <1>1, <1>2

\* After a call that fails nothing is left to show.
LEMMA FailedStep ==
    ASSUME pc' \in {"idle", "crashed"}, stack' = <<>>, failed' = TRUE, OwnReply'
    PROVE  StackOK' /\ SettledOK' /\ SteadyOK'
  <1>1. Depth' = 0
    BY NoFrames DEF Depth
  <1>2. StackOK'
    BY <1>1 DEF StackOK, Busy
  <1>3. SettledOK'
    BY DEF SettledOK
  <1>4. SteadyOK'
    BY DEF SteadyOK
  <1> QED BY <1>2, <1>3, <1>4

LEMMA FailsFacts ==
    ASSUME TypeOK, StackOK, Busy, NEW err \in Outcome \ {"payload"}, Fails(err)
    PROVE  /\ StackOK' /\ SettledOK' /\ SteadyOK'
           /\ stack' \in Seq(Call) /\ Len(stack') <= 2 /\ pc' = "idle" /\ failed' \in BOOLEAN
           /\ result' \in [call : Call \cup {Nil}, outcome : Outcome, from : Call \cup {Nil}]
  <1>1. stack[Len(stack)] \in Call
    BY BusyFacts DEF Depth
  <1>2. result' = [call |-> stack[Len(stack)], outcome |-> err, from |-> Nil] /\ pc' = "idle" /\ stack' = <<>>
    BY DEF Fails
  <1>3. result' \in [call : Call \cup {Nil}, outcome : Outcome, from : Call \cup {Nil}] /\ result'.outcome # "payload"
    BY <1>1, <1>2
  <1>4. stack' \in Seq(Call) /\ Len(stack') <= 2
    BY <1>2, NoFrames
  <1>5. failed' = TRUE
    BY DEF Fails
  <1>6. failed' \in BOOLEAN
    BY <1>5, Zenon
  <1>7. OwnReply'
    BY <1>3 DEF OwnReply
  <1> QED BY <1>2, <1>3, <1>4, <1>5, <1>6, <1>7, FailedStep

\* The call leaves the stack, and the power mode is one of the three.
LEMMA SucceedsFacts ==
    ASSUME TypeOK, StackOK, Busy, NEW o \in Outcome, NEW f, f.call \in Call \cup {Nil}, Succeeds(o, f)
    PROVE  /\ stack' \in Seq(Call) /\ Len(stack') <= 2 /\ pc' \in {"idle", "frame"} /\ failed' \in BOOLEAN
           /\ result' \in [call : Call \cup {Nil}, outcome : Outcome, from : Call \cup {Nil}]
           /\ power_mode' \in {"NORMAL", "POWERDOWN", "LOWVBAT"}
           /\ StackOK'
           /\ Depth = 2 => pc' = "frame" /\ result' = result /\ power_mode' = "NORMAL"
           /\ Depth = 1 => /\ pc' = "idle" /\ result' = [call |-> stack[1], outcome |-> o, from |-> f.call]
                           /\ power_mode' = "NORMAL" => stack[1].cmd # "PowerDown"
  <1>1. Depth \in 1..2 /\ stack # <<>> /\ Me = stack[1] /\ stack[1] \in Call /\ stack \in Seq(Call)
    BY BusyFacts DEF TypeOK
  <1>2. power_mode \in {"NORMAL", "POWERDOWN", "LOWVBAT"} /\ failed \in BOOLEAN
    BY DEF TypeOK
  <1>3. failed' \in BOOLEAN
    <2>1. failed' = failed
      BY DEF Succeeds
    <2> QED BY <1>2, <2>1, Zenon
  <1>4. CASE Depth = 2
    <2>1. pc' = "frame" /\ stack' = Tail(stack) /\ result' = result
      BY <1>4 DEF Succeeds, Depth
    <2>2. stack' \in Seq(Call) /\ Depth' = Depth - 1
      BY <1>1, <2>1, TailFacts DEF Depth
    <2>3. Depth' = 1
      BY <1>4, <2>2
    <2>4. Len(stack') <= 2
      BY <2>3 DEF Depth
    <2>5. power_mode' = "NORMAL"
      BY <1>1, <1>4 DEF Succeeds, StackOK
    <2>6. StackOK'
      BY <2>1, <2>3 DEF StackOK, Busy
    <2>7. result' \in [call : Call \cup {Nil}, outcome : Outcome, from : Call \cup {Nil}]
      BY <2>1 DEF TypeOK
    <2> QED BY <1>3, <1>4, <2>1, <2>2, <2>4, <2>5, <2>6, <2>7
  <1>5. CASE Depth = 1
    <2>1. pc' = "idle" /\ stack' = <<>> /\ result' = [call |-> stack[1], outcome |-> o, from |-> f.call]
      BY <1>1, <1>5 DEF Succeeds, Depth
    <2>2. stack' \in Seq(Call) /\ Len(stack') = 0 /\ Depth' = 0
      BY <2>1, NoFrames DEF Depth
    <2>3. power_mode' \in {"NORMAL", "POWERDOWN", "LOWVBAT"} /\ (power_mode' = "NORMAL" => stack[1].cmd # "PowerDown")
      BY <1>1, <1>2 DEF Succeeds
    <2>4. StackOK'
      BY <2>1, <2>2 DEF StackOK, Busy
    <2>5. result' \in [call : Call \cup {Nil}, outcome : Outcome, from : Call \cup {Nil}]
      BY <1>1, <2>1
    <2>6. Len(stack') <= 2
      BY <2>2
    <2> QED BY <1>3, <1>5, <2>1, <2>2, <2>3, <2>4, <2>5, <2>6
  <1> QED BY <1>1, <1>4, <1>5

-----------------------------------------------------------------------------
(* The host                                                                *)

LEMMA InitUart == Init => UartInv
  <1> SUFFICES ASSUME Init PROVE UartInv
    OBVIOUS
  <1>1. /\ stack = <<>> /\ tx = <<>> /\ wire = <<>> /\ pc = "idle" /\ power_mode = "LOWVBAT"
        /\ chip = [power |-> "lowvbat", run |-> Nil] /\ calls = 0 /\ aborts = 0 /\ lost = 0
        /\ result = [call |-> Nil, outcome |-> "empty", from |-> Nil] /\ abort_pc = "idle" /\ last_command = "none"
    BY DEF Init
  <1>2. failed = FALSE /\ hasty = FALSE /\ signalled = FALSE
    BY DEF Init
  <1>3. failed \in BOOLEAN /\ hasty \in BOOLEAN /\ signalled \in BOOLEAN
    BY <1>2, Zenon
  <1>4. Txs = 0 /\ Wires = 0 /\ Depth = 0 /\ Run = Nil
    BY <1>1, NoFrames DEF Txs, Wires, Depth, Run
  <1>5. stack \in Seq(Call) /\ Len(stack) <= 2 /\ tx \in Seq(ToChip) /\ wire \in Seq(Frame)
    BY <1>1, NoFrames
  <1>6. TypeOK
    BY <1>1, <1>3, <1>5, LinkAssumption DEF TypeOK, Outcome
  <1>7. StackOK
    BY <1>1, <1>4 DEF StackOK, Busy
  <1>8. SettledOK
    BY <1>1 DEF SettledOK, OwnReply
  <1>9. SteadyOK
    BY <1>1, <1>2, <1>4 DEF SteadyOK, Nothing
  <1> QED BY <1>6, <1>7, <1>8, <1>9 DEF UartInv

LEMMA TransceiveStep ==
    ASSUME UartInv, NEW c \in AppCmd, transceive(c)
    PROVE  UartInv'
  <1>0. TypeOK /\ StackOK /\ SettledOK /\ SteadyOK
    BY DEF UartInv
  <1>1. /\ pc = "idle" /\ pc' = "send" /\ calls < MaxCalls /\ calls' = calls + 1
        /\ stack' = <<[cmd |-> c, id |-> calls + 1]>>
    BY DEF transceive
  <1>2. UNCHANGED <<power_mode, last_command, result, failed, abort_pc, aborts, signalled, tx, wire, chip, lost>>
    BY DEF transceive, abortVars
  <1>3. [cmd |-> c, id |-> calls + 1] \in Call
    BY <1>0, <1>1, LinkAssumption DEF TypeOK, Call, Cmd
  <1>4. stack' \in Seq(Call) /\ Len(stack') = 1
    BY <1>1, <1>3, OneCall
  <1>5. Depth' = 1 /\ Txs' = Txs /\ Wires' = Wires /\ Run' = Run
    BY <1>2, <1>4 DEF Depth, Txs, Wires, Run
  <1>6. hasty' \in BOOLEAN
    <2>1. hasty' = (hasty \/ ~Quiet)
      BY DEF transceive
    <2> QED BY <2>1, Zenon
  <1>7. hasty' <=> (hasty \/ ~Quiet)
    BY DEF transceive
  <1>8. TypeOK'
    <2>1. calls' \in 0..MaxCalls
      BY <1>0, <1>1, LinkAssumption DEF TypeOK
    <2>2. Len(stack') <= 2
      BY <1>4
    <2> QED BY <1>0, <1>1, <1>2, <1>4, <1>6, <2>1, <2>2 DEF TypeOK
  <1>9. StackOK'
    BY <1>1, <1>5 DEF StackOK, Busy
  <1>10. SettledOK'
    <2> SUFFICES ASSUME ~hasty' PROVE OwnReply' /\ NoCommand'
      BY <1>1 DEF SettledOK
    <2>1. Txs = 0 /\ OwnReply
      BY <1>0, <1>7, LineFacts DEF Quiet, SettledOK
    <2> QED BY <1>2, <1>5, <2>1 DEF OwnReply, NoCommand
  <1>11. SteadyOK'
    <2> SUFFICES ASSUME ~failed', aborts' = 0 PROVE SteadyOK'
      BY DEF SteadyOK
    <2>1. /\ ~hasty /\ ~signalled /\ abort_pc = "idle" /\ Nothing
          /\ power_mode = "NORMAL" => chip.power = "awake"
      BY <1>0, <1>1, <1>2 DEF SteadyOK
    <2>2. Quiet
      BY <1>0, <2>1, LineFacts DEF Quiet, Nothing, Run
    <2>3. ~hasty' /\ ~signalled' /\ abort_pc' = "idle"
      BY <1>2, <1>7, <2>1, <2>2
    <2>4. Nothing' /\ (power_mode' = "NORMAL" => chip'.power = "awake")
      BY <1>2, <1>5, <2>1 DEF Nothing
    <2> QED BY <1>1, <1>5, <2>3, <2>4 DEF SteadyOK
  <1> QED BY <1>8, <1>9, <1>10, <1>11 DEF UartInv

\* Behind what the host had sent stands nothing but the command of the call.
LEMMA FrameSent ==
    ASSUME UartInv, pc \in {"send", "frame"}, pc' = "ack", ~hasty, stack' = stack, NoAck', Txs' >= 1, Txs' \in Nat,
           tx'[Txs'] = Command(stack[1]), stack[1] \in Call,
           \A i \in 1..Txs' - 1 : tx'[i].kind # "frame"
    PROVE  AwaitsAck'
  <1>1. Command(stack[1]).kind = "frame" /\ Command(stack[1]).call = stack[1]
    BY Constants
  <1>2. ~NoCommand'
    BY <1>1 DEF NoCommand
  <1>3. ASSUME NEW i \in 1..Txs', tx'[i].kind = "frame" PROVE i = Txs' /\ tx'[i].call = stack'[1]
    BY <1>1, <1>3
  <1> QED BY <1>2, <1>3 DEF AwaitsAck

LEMMA SendStep ==
    ASSUME UartInv, send
    PROVE  UartInv'
  <1>0. TypeOK /\ StackOK /\ SettledOK /\ SteadyOK
    BY DEF UartInv
  <1>1. pc = "send" /\ flush_input /\ power_mode' = "NORMAL"
    BY DEF send
  <1>2. UNCHANGED <<hasty, last_command, result, failed, abort_pc, aborts, signalled, chip, calls, lost>>
    BY DEF send, abortVars
  <1>3. Depth \in 1..2 /\ Me = stack[1] /\ stack[1] \in Call /\ stack \in Seq(Call)
    BY <1>0, <1>1, BusyFacts DEF Busy, TypeOK
  <1>4. wire' \in Seq(Frame) /\ (~hasty => wire' = <<>> /\ Wires' = 0)
    BY <1>0, <1>1, Flushed, WireCleared
  <1>5. Command(stack[1]) \in ToChip /\ Wake \in ToChip /\ Wake.kind = "wake" /\ tx \in Seq(ToChip)
        /\ Txs \in Nat /\ Txs = Len(tx)
    BY <1>0, <1>3, Constants, LineFacts DEF TypeOK, Txs
  <1>6. ~hasty => NoCommand /\ OwnReply' /\ NoAck'
    BY <1>0, <1>1, <1>2, <1>4 DEF SettledOK, OwnReply, NoAck
  <1>7. Run' = Run
    BY <1>2 DEF Run
  <1>8. ~failed /\ aborts = 0 => ~hasty /\ ~signalled /\ abort_pc = "idle" /\ Run = Nil
                                 /\ (Txs = 0 \/ (Depth = 2 /\ Txs = 1 /\ tx[1] = Wake))
    BY <1>0, <1>1, <1>3 DEF SteadyOK, Nothing
  <1>9. power_mode \in {"LOWVBAT", "POWERDOWN", "NORMAL"}
    BY <1>0 DEF TypeOK
  <1>10. CASE power_mode = "LOWVBAT"
    <2>1. tx' = Append(tx, Wake) /\ pc' = "send" /\ stack' = <<[cmd |-> "SAMConfiguration", id |-> Me.id]>> \o stack
      BY <1>10 DEF send
    <2>2. Depth = 1
      BY <1>0, <1>3, <1>10 DEF StackOK
    <2>3. [cmd |-> "SAMConfiguration", id |-> Me.id] \in Call
      BY <1>3 DEF Call, Cmd
    <2>4. stack' \in Seq(Call) /\ Depth' = Depth + 1 /\ stack'[1] = [cmd |-> "SAMConfiguration", id |-> Me.id]
      BY <1>3, <2>1, <2>3, PrependFacts DEF Depth
    <2>5. Depth' = 2 /\ Len(stack') <= 2
      <3>1. Depth' = 2
        BY <2>2, <2>4
      <3> QED BY <3>1 DEF Depth
    <2>6. tx' \in Seq(ToChip) /\ Txs' = Txs + 1 /\ tx'[Txs + 1] = Wake /\ \A i \in 1..Txs : tx'[i] = tx[i]
      BY <1>0, <1>5, <2>1, TxGrown
    <2>7. TypeOK'
      BY <1>0, <1>1, <1>2, <1>4, <2>1, <2>4, <2>5, <2>6 DEF TypeOK
    <2>8. StackOK'
      BY <1>1, <2>1, <2>4, <2>5 DEF StackOK, Busy
    <2>9. ASSUME ~hasty PROVE NoCommand'
      BY <1>5, <1>6, <2>6, <2>9 DEF NoCommand
    <2>10. SettledOK'
      BY <1>2, <1>6, <2>1, <2>9 DEF SettledOK
    <2>11. SteadyOK'
      BY <1>2, <1>4, <1>5, <1>7, <1>8, <2>1, <2>2, <2>5, <2>6 DEF SteadyOK
    <2> QED BY <2>7, <2>8, <2>10, <2>11 DEF UartInv
  <1>11. CASE power_mode \in {"POWERDOWN", "NORMAL"}
    <2>1. pc' = "ack" /\ stack' = stack /\ Depth' = Depth
      BY <1>11 DEF send, Depth
    <2>2. /\ power_mode = "POWERDOWN" => tx' = tx \o <<Wake, Command(stack[1])>>
          /\ power_mode = "NORMAL" => tx' = Append(tx, Command(stack[1]))
      BY <1>3, <1>11 DEF send
    <2>3. /\ tx' \in Seq(ToChip) /\ \A i \in 1..Txs : tx'[i] = tx[i]
          /\ power_mode = "POWERDOWN" => Txs' = Txs + 2 /\ tx'[Txs + 1] = Wake /\ tx'[Txs + 2] = Command(stack[1])
          /\ power_mode = "NORMAL" => Txs' = Txs + 1 /\ tx'[Txs + 1] = Command(stack[1])
      BY <1>0, <1>5, <1>11, <2>2, TxGrown, TxGrownTwice
    <2>4. TypeOK'
      BY <1>0, <1>1, <1>2, <1>4, <2>1, <2>3 DEF TypeOK
    <2>5. StackOK'
      BY <1>0, <1>1, <1>3, <2>1 DEF StackOK, Busy
    <2>6. SettledOK'
      <3> SUFFICES ASSUME ~hasty PROVE OwnReply' /\ AwaitsAck'
        BY <1>2, <2>1 DEF SettledOK
      <3>1. Txs' \in Nat /\ Txs' >= 1 /\ tx'[Txs'] = Command(stack[1])
        BY <1>5, <1>11, <2>3
      <3>2. \A i \in 1..Txs' - 1 : tx'[i].kind # "frame"
        BY <1>5, <1>6, <1>11, <2>3 DEF NoCommand
      <3> QED BY <1>1, <1>3, <1>6, <2>1, <3>1, <3>2, FrameSent
    <2>7. SteadyOK'
      <3> SUFFICES ASSUME ~failed, aborts = 0 PROVE SteadyAck'
        BY <1>2, <1>8, <2>1 DEF SteadyOK
      <3>1. Wires' = 0 /\ Run' = Nil
        BY <1>4, <1>7, <1>8
      <3>2. power_mode = "POWERDOWN" => Depth = 1
        BY <1>0, <1>3 DEF StackOK
      <3>3. \/ Txs' = 1 /\ tx'[1] = Command(stack[1])
            \/ Txs' = 2 /\ tx'[1] = Wake /\ tx'[2] = Command(stack[1])
        BY <1>5, <1>8, <1>11, <2>3, <3>2
      <3> QED BY <1>1, <2>1, <3>1, <3>3 DEF SteadyAck
    <2> QED BY <2>4, <2>5, <2>6, <2>7 DEF UartInv
  <1> QED BY <1>9, <1>10, <1>11

LEMMA SendFrameStep ==
    ASSUME UartInv, send_frame
    PROVE  UartInv'
  <1>0. TypeOK /\ StackOK /\ SettledOK /\ SteadyOK
    BY DEF UartInv
  <1>1. pc = "frame" /\ pc' = "ack" /\ tx' = Append(tx, Command(Me))
    BY DEF send_frame
  <1>2. UNCHANGED <<hasty, power_mode, last_command, stack, result, failed, abort_pc, aborts, signalled, wire, chip, calls, lost>>
    BY DEF send_frame, abortVars
  <1>3. Depth \in 1..2 /\ Me = stack[1] /\ stack[1] \in Call
    BY <1>0, <1>1, BusyFacts DEF Busy
  <1>4. Command(stack[1]) \in ToChip
    BY <1>3, Constants
  <1>5. /\ tx' \in Seq(ToChip) /\ Txs \in Nat /\ Txs' = Txs + 1 /\ tx'[Txs + 1] = Command(stack[1])
        /\ \A i \in 1..Txs : tx'[i] = tx[i]
    BY <1>0, <1>1, <1>3, <1>4, TxGrown
  <1>6. Depth' = Depth /\ Wires' = Wires /\ Run' = Run
    BY <1>2 DEF Depth, Wires, Run
  <1>7. TypeOK'
    BY <1>0, <1>1, <1>2, <1>5 DEF TypeOK
  <1>8. StackOK'
    BY <1>0, <1>1, <1>2, <1>3, <1>6 DEF StackOK, Busy
  <1>9. SettledOK'
    <2> SUFFICES ASSUME ~hasty PROVE OwnReply' /\ AwaitsAck'
      BY <1>1, <1>2 DEF SettledOK
    <2>1. OwnReply /\ NoCommand /\ NoAck
      BY <1>0, <1>1 DEF SettledOK
    <2>2. OwnReply' /\ NoAck'
      BY <1>2, <1>6, <2>1 DEF OwnReply, NoAck
    <2>3. Txs' \in Nat /\ Txs' >= 1 /\ tx'[Txs'] = Command(stack[1])
      BY <1>5
    <2>4. \A i \in 1..Txs' - 1 : tx'[i].kind # "frame"
      BY <1>5, <2>1 DEF NoCommand
    <2> QED BY <1>1, <1>2, <1>3, <2>2, <2>3, <2>4, FrameSent
  <1>10. SteadyOK'
    <2> SUFFICES ASSUME ~failed, aborts = 0 PROVE SteadyOK'
      BY <1>2 DEF SteadyOK
    <2>1. ~hasty /\ ~signalled /\ abort_pc = "idle" /\ Nothing /\ power_mode = "NORMAL"
      BY <1>0, <1>1 DEF SteadyOK
    <2>2. SteadyAck'
      BY <1>2, <1>5, <1>6, <2>1 DEF SteadyAck, Nothing
    <2> QED BY <1>1, <1>2, <2>1, <2>2 DEF SteadyOK
  <1> QED BY <1>7, <1>8, <1>9, <1>10 DEF UartInv

LEMMA RecvAckStep ==
    ASSUME UartInv, recv_ack
    PROVE  UartInv'
  <1>0. TypeOK /\ StackOK /\ SettledOK /\ SteadyOK
    BY DEF UartInv
  <1>1. pc = "ack" /\ wire # <<>>
    BY DEF recv_ack
  <1>2. UNCHANGED <<hasty, abort_pc, aborts, tx, chip, calls, lost>>
    BY DEF recv_ack, abortVars
  <1>3. Busy /\ Depth \in 1..2 /\ Me = stack[1] /\ stack[1] \in Call
    BY <1>0, <1>1, BusyFacts DEF Busy
  <1>4. wire \in Seq(Frame) /\ Head(wire) = wire[1] /\ wire[1] \in Frame /\ Wires \in Nat /\ Wires >= 1
    BY <1>0, <1>1, LineFacts, TailFacts DEF TypeOK
  <1>5. CASE wire[1].kind = "ack"
    <2>1. /\ wire' = Tail(wire) /\ last_command' = stack[1].cmd /\ pc' = "receive"
          /\ power_mode' = IF stack[1].cmd = "TgInitAsTarget" THEN "POWERDOWN" ELSE power_mode
          /\ UNCHANGED <<stack, result, failed>>
      BY <1>3, <1>4, <1>5 DEF recv_ack
    <2>2. wire' \in Seq(Frame) /\ Wires' = Wires - 1 /\ \A i \in 1..Wires' : wire'[i] = wire[i + 1]
      BY <1>0, <1>1, <2>1, WireTaken
    <2>3. signalled' \in BOOLEAN
      <3>1. signalled' = (abort_pc = "closed")
        BY <1>4, <1>5 DEF recv_ack
      <3> QED BY <3>1, Zenon
    <2>4. signalled' <=> abort_pc = "closed"
      BY <1>4, <1>5 DEF recv_ack
    <2>5. Depth' = Depth /\ Txs' = Txs /\ Run' = Run
      BY <1>2, <2>1 DEF Depth, Txs, Run
    <2>6. last_command' \in Cmd
      BY <1>3, <2>1 DEF Call
    <2>7. TypeOK'
      BY <1>0, <1>2, <2>1, <2>2, <2>3, <2>6 DEF TypeOK
    <2>8. StackOK'
      BY <1>0, <1>3, <2>1, <2>5 DEF StackOK, Busy
    <2>9. SettledOK'
      <3> SUFFICES ASSUME ~hasty PROVE OwnReply' /\ NoCommand' /\ AwaitsReply'
        BY <1>2, <2>1 DEF SettledOK
      <3>1. OwnReply /\ AwaitsAck
        BY <1>0, <1>1 DEF SettledOK
      <3>2. NoCommand
        BY <1>4, <1>5, <3>1 DEF AwaitsAck, NoCommand, NoAck
      <3>3. Run \in {stack[1], Nil} /\ \A j \in 2..Wires : wire[j] = Reply(stack[1])
        BY <1>4, <1>5, <3>1, <3>2 DEF AwaitsAck
      <3>4. \A i \in 1..Wires' : wire'[i] = Reply(stack[1])
        BY <1>4, <2>2, <3>3
      <3>5. AwaitsReply'
        BY <2>1, <2>5, <3>3, <3>4 DEF AwaitsReply, Reply
      <3>6. OwnReply' /\ NoCommand'
        BY <1>2, <2>1, <2>5, <3>1, <3>2 DEF OwnReply, NoCommand
      <3> QED BY <3>5, <3>6
    <2>10. SteadyOK'
      <3> SUFFICES ASSUME ~failed, aborts = 0 PROVE SteadyOK'
        BY <1>2, <2>1 DEF SteadyOK
      <3>1. ~hasty /\ ~signalled /\ abort_pc = "idle" /\ SteadyAck
        BY <1>0, <1>1 DEF SteadyOK
      <3>2. /\ power_mode = "NORMAL" /\ Txs = 0 /\ Wires <= 2 /\ (Run # Nil => Wires <= 1)
            /\ \A i \in 1..Wires : wire[i] = Reply(stack[1]) => Run = Nil /\ Answered
        BY <1>4, <3>1 DEF SteadyAck
      <3>3. Answered' <=> Answered
        BY <1>2, <2>1 DEF Answered
      <3>4. Txs' = 0 /\ Wires' <= 1 /\ (Run' # Nil => Wires' = 0)
        BY <1>4, <2>2, <2>5, <3>2
      <3>5. Wires' = 1 /\ wire'[1] = Reply(stack[1]) => Answered
        BY <1>4, <2>2, <3>2
      <3>6. SteadyReply'
        BY <2>1, <3>2, <3>3, <3>4, <3>5 DEF SteadyReply, Reply
      <3> QED BY <1>2, <2>1, <2>4, <3>1, <3>6 DEF SteadyOK
    <2> QED BY <2>7, <2>8, <2>9, <2>10 DEF UartInv
  <1>6. CASE wire[1].kind # "ack"
    <2>1. /\ Fails("EIO") /\ wire' \in {Tail(wire), <<Junk>> \o Tail(wire)}
          /\ UNCHANGED <<last_command, power_mode, signalled>>
      BY <1>4, <1>6 DEF recv_ack
    <2>2. wire' \in Seq(Frame)
      BY <1>0, <1>1, <2>1, WireTaken, WireCut
    <2>3. "EIO" \in Outcome \ {"payload"}
      BY DEF Outcome
    <2>4. TypeOK'
      BY <1>0, <1>2, <1>3, <2>1, <2>2, <2>3, FailsFacts DEF TypeOK
    <2> QED BY <1>0, <1>3, <2>1, <2>3, <2>4, FailsFacts DEF UartInv
  <1> QED BY <1>5, <1>6

LEMMA TimeoutStep ==
    ASSUME UartInv, timeout
    PROVE  UartInv'
  <1>0. TypeOK /\ StackOK
    BY DEF UartInv
  <1>1. pc \in {"ack", "receive", "rest"} /\ Fails("ETIMEOUT") /\ (flush_input \/ wire' = wire)
    BY DEF timeout
  <1>2. UNCHANGED <<hasty, power_mode, last_command, abort_pc, aborts, signalled, tx, chip, calls, lost>>
    BY DEF timeout, abortVars
  <1>3. Busy
    BY <1>1 DEF Busy
  <1>4. wire' \in Seq(Frame)
    BY <1>0, <1>1, Flushed DEF TypeOK
  <1>5. "ETIMEOUT" \in Outcome \ {"payload"}
    BY DEF Outcome
  <1>6. TypeOK'
    BY <1>0, <1>1, <1>2, <1>3, <1>4, <1>5, FailsFacts DEF TypeOK
  <1> QED BY <1>0, <1>1, <1>3, <1>5, <1>6, FailsFacts DEF UartInv

LEMMA ReceiveStep ==
    ASSUME UartInv, receive
    PROVE  UartInv'
  <1>0. TypeOK /\ StackOK /\ SettledOK /\ SteadyOK
    BY DEF UartInv
  <1>1. pc = "receive" /\ ~signalled /\ wire # <<>>
    BY DEF receive
  <1>2. UNCHANGED <<hasty, last_command, abort_pc, aborts, signalled, tx, chip, calls, lost>>
    BY DEF receive, abortVars
  <1>3. Busy /\ Depth \in 1..2 /\ Me = stack[1] /\ stack[1] \in Call
    BY <1>0, <1>1, BusyFacts DEF Busy
  <1>4. wire \in Seq(Frame) /\ Head(wire) = wire[1] /\ wire[1] \in Frame /\ Wires \in Nat /\ Wires >= 1
    BY <1>0, <1>1, LineFacts, TailFacts DEF TypeOK
  <1>5. CASE /\ wire[1].kind = "reply" /\ wire[1].call.cmd = last_command
             /\ wire' = Tail(wire) /\ Succeeds("payload", wire[1])
    <2>1. wire' = Tail(wire) /\ Succeeds("payload", wire[1])
      BY <1>5
    <2>2. wire' \in Seq(Frame) /\ Wires' = Wires - 1 /\ \A i \in 1..Wires' : wire'[i] = wire[i + 1]
      BY <1>0, <1>1, <2>1, WireTaken
    <2>3. Txs' = Txs /\ Run' = Run
      BY <1>2 DEF Txs, Run
    <2>4. "payload" \in Outcome /\ wire[1].call \in Call \cup {Nil}
      BY <1>4, Constants DEF Outcome
    <2>5. /\ stack' \in Seq(Call) /\ Len(stack') <= 2 /\ pc' \in {"idle", "frame"} /\ failed' \in BOOLEAN
          /\ result' \in [call : Call \cup {Nil}, outcome : Outcome, from : Call \cup {Nil}]
          /\ power_mode' \in {"NORMAL", "POWERDOWN", "LOWVBAT"} /\ StackOK'
      BY <1>0, <1>3, <2>1, <2>4, SucceedsFacts
    <2>6. /\ Depth = 2 => pc' = "frame" /\ result' = result /\ power_mode' = "NORMAL"
          /\ Depth = 1 => /\ pc' = "idle" /\ result' = [call |-> stack[1], outcome |-> "payload", from |-> wire[1].call]
                          /\ power_mode' = "NORMAL" => stack[1].cmd # "PowerDown"
      BY <1>0, <1>3, <2>1, <2>4, SucceedsFacts
    <2>7. failed' <=> failed
      BY <2>1 DEF Succeeds
    <2>8. TypeOK'
      BY <1>0, <1>2, <2>2, <2>5 DEF TypeOK
    <2>9. ~hasty => OwnReply /\ NoCommand /\ AwaitsReply
      BY <1>0, <1>1 DEF SettledOK
    <2>10. ~hasty => wire[1] = Reply(stack[1]) /\ wire[1].call = stack[1]
      BY <1>3, <1>4, <1>5, <2>9, Constants DEF AwaitsReply
    <2>11. SettledOK'
      <3> SUFFICES ASSUME ~hasty PROVE OwnReply' /\ (pc' = "frame" => NoCommand' /\ NoAck')
        BY <1>2, <2>5 DEF SettledOK
      <3>1. NoCommand'
        BY <1>2, <2>3, <2>9 DEF NoCommand
      <3>2. NoAck'
        <4>1. \A i \in 1..Wires : wire[i].kind # "ack"
          BY <1>3, <2>9, Constants DEF AwaitsReply
        <4> QED BY <1>4, <2>2, <4>1 DEF NoAck
      <3>3. OwnReply'
        BY <1>3, <2>6, <2>9, <2>10 DEF OwnReply
      <3> QED BY <3>1, <3>2, <3>3
    <2>12. SteadyOK'
      <3> SUFFICES ASSUME ~failed, aborts = 0 PROVE SteadyOK'
        BY <1>2, <2>7 DEF SteadyOK
      <3>1. ~hasty /\ abort_pc = "idle" /\ SteadyReply
        BY <1>0, <1>1 DEF SteadyOK
      <3>2. Wires = 1 /\ Run = Nil /\ Txs = 0 /\ Answered
        BY <1>4, <2>10, <3>1 DEF SteadyReply
      <3>3. Nothing'
        BY <2>2, <2>3, <3>2 DEF Nothing
      <3>4. pc' = "frame" => power_mode' = "NORMAL"
        BY <1>3, <2>6
      <3>5. pc' = "idle" /\ power_mode' = "NORMAL" => chip'.power = "awake"
        BY <1>2, <1>3, <2>6, <3>2 DEF Answered
      <3> QED BY <1>1, <1>2, <2>5, <3>1, <3>3, <3>4, <3>5 DEF SteadyOK
    <2> QED BY <2>5, <2>8, <2>11, <2>12 DEF UartInv
  <1>6. CASE Fails("EIO") /\ flush_input /\ UNCHANGED power_mode
    <2>1. wire' \in Seq(Frame)
      BY <1>0, <1>6, Flushed
    <2>2. "EIO" \in Outcome \ {"payload"}
      BY DEF Outcome
    <2>3. TypeOK'
      BY <1>0, <1>2, <1>3, <1>6, <2>1, <2>2, FailsFacts DEF TypeOK
    <2> QED BY <1>0, <1>3, <1>6, <2>2, <2>3, FailsFacts DEF UartInv
  <1>7. CASE wire' = Tail(wire) /\ pc' = "rest" /\ UNCHANGED <<stack, result, failed, power_mode>>
    <2>1. wire' \in Seq(Frame) /\ Wires' = Wires - 1 /\ \A i \in 1..Wires' : wire'[i] = wire[i + 1]
      BY <1>0, <1>1, <1>7, WireTaken
    <2>2. Txs' = Txs /\ Run' = Run /\ Depth' = Depth
      BY <1>2, <1>7 DEF Txs, Run, Depth
    <2>3. TypeOK'
      BY <1>0, <1>2, <1>7, <2>1 DEF TypeOK
    <2>4. StackOK'
      BY <1>0, <1>3, <1>7, <2>2 DEF StackOK, Busy
    <2>5. SettledOK'
      <3> SUFFICES ASSUME ~hasty PROVE OwnReply' /\ NoCommand' /\ AwaitsReply'
        BY <1>2, <1>7 DEF SettledOK
      <3>1. OwnReply /\ NoCommand /\ AwaitsReply
        BY <1>0, <1>1 DEF SettledOK
      <3>2. \A i \in 1..Wires' : wire'[i] \in {Reply(stack[1]), Junk}
        BY <1>4, <2>1, <3>1 DEF AwaitsReply
      <3> QED BY <1>2, <1>7, <2>2, <3>1, <3>2 DEF OwnReply, NoCommand, AwaitsReply, Reply
    <2>6. SteadyOK'
      <3> SUFFICES ASSUME ~failed, aborts = 0 PROVE SteadyOK'
        BY <1>2, <1>7 DEF SteadyOK
      <3>1. ~hasty /\ abort_pc = "idle" /\ SteadyReply
        BY <1>0, <1>1 DEF SteadyOK
      <3>2. Nothing'
        BY <1>4, <2>1, <2>2, <3>1 DEF SteadyReply, Nothing
      <3> QED BY <1>1, <1>2, <1>7, <3>1, <3>2 DEF SteadyOK
    <2> QED BY <2>3, <2>4, <2>5, <2>6 DEF UartInv
  <1> QED BY <1>4, <1>5, <1>6, <1>7 DEF receive

LEMMA ReceiveRestStep ==
    ASSUME UartInv, receive_rest
    PROVE  UartInv'
  <1>0. TypeOK /\ StackOK
    BY DEF UartInv
  <1>1. Busy /\ Fails("EIO") /\ flush_input
    BY DEF receive_rest, Busy
  <1>2. UNCHANGED <<hasty, power_mode, last_command, abort_pc, aborts, signalled, tx, chip, calls, lost>>
    BY DEF receive_rest, abortVars
  <1>3. wire' \in Seq(Frame)
    BY <1>0, <1>1, Flushed
  <1>4. "EIO" \in Outcome \ {"payload"}
    BY DEF Outcome
  <1>5. TypeOK'
    BY <1>0, <1>1, <1>2, <1>3, <1>4, FailsFacts DEF TypeOK
  <1> QED BY <1>0, <1>1, <1>4, <1>5, FailsFacts DEF UartInv

LEMMA ReceiveAbortedStep ==
    ASSUME UartInv, receive_aborted
    PROVE  UartInv'
  <1>0. TypeOK /\ StackOK /\ SettledOK /\ SteadyOK
    BY DEF UartInv
  <1>1. /\ pc = "receive" /\ signalled
        /\ tx' = tx \o (IF power_mode = "POWERDOWN" THEN <<Wake, Abort>> ELSE <<Abort>>)
        /\ Succeeds("empty", [call |-> Nil]) \/ GarbageStatus
    BY DEF receive_aborted
  <1>2. UNCHANGED <<hasty, last_command, abort_pc, aborts, wire, chip, calls, lost>>
    BY DEF receive_aborted, abortVars
  <1>3. Busy /\ Depth \in 1..2 /\ Me = stack[1] /\ stack[1] \in Call
    BY <1>0, <1>1, BusyFacts DEF Busy
  <1>4. failed \/ aborts # 0
    BY <1>0, <1>1 DEF SteadyOK
  <1>5. signalled' \in BOOLEAN
    <2>1. signalled' = FALSE
      BY DEF receive_aborted
    <2> QED BY <2>1, Zenon
  <1>6. Wake \in ToChip /\ Abort \in ToChip /\ Wake.kind = "wake" /\ Abort.kind = "ack" /\ tx \in Seq(ToChip)
    BY <1>0, Constants DEF TypeOK
  <1>7. tx' \in Seq(ToChip) /\ (NoCommand => NoCommand')
    <2>1. CASE power_mode = "POWERDOWN"
      <3>1. tx' = tx \o <<Wake, Abort>>
        BY <1>1, <2>1
      <3>2. /\ tx' \in Seq(ToChip) /\ Txs \in Nat /\ Txs' = Txs + 2 /\ tx'[Txs + 1] = Wake /\ tx'[Txs + 2] = Abort
            /\ \A i \in 1..Txs : tx'[i] = tx[i]
        BY <1>0, <1>6, <3>1, TxGrownTwice
      <3> QED BY <1>6, <3>2 DEF NoCommand
    <2>2. CASE power_mode # "POWERDOWN"
      <3>1. tx' = tx \o <<Abort>>
        BY <1>1, <2>2
      <3>2. tx' = Append(tx, Abort)
        BY <1>6, <3>1
      <3>3. /\ tx' \in Seq(ToChip) /\ Txs \in Nat /\ Txs' = Txs + 1 /\ tx'[Txs + 1] = Abort
            /\ \A i \in 1..Txs : tx'[i] = tx[i]
        BY <1>0, <1>6, <3>2, TxGrown
      <3> QED BY <1>6, <3>3 DEF NoCommand
    <2> QED BY <2>1, <2>2
  <1>8. CASE Succeeds("empty", [call |-> Nil])
    <2>1. "empty" \in Outcome /\ [call |-> Nil].call \in Call \cup {Nil}
      BY DEF Outcome
    <2>2. /\ stack' \in Seq(Call) /\ Len(stack') <= 2 /\ pc' \in {"idle", "frame"} /\ failed' \in BOOLEAN
          /\ result' \in [call : Call \cup {Nil}, outcome : Outcome, from : Call \cup {Nil}]
          /\ power_mode' \in {"NORMAL", "POWERDOWN", "LOWVBAT"} /\ StackOK'
      BY <1>0, <1>3, <1>8, <2>1, SucceedsFacts
    <2>3. result' = result \/ result'.outcome = "empty"
      BY <1>0, <1>3, <1>8, <2>1, SucceedsFacts
    <2>4. TypeOK'
      BY <1>0, <1>2, <1>5, <1>7, <2>2 DEF TypeOK
    <2>5. failed' <=> failed
      BY <1>8 DEF Succeeds
    <2>6. SteadyOK'
      BY <1>2, <1>4, <2>5 DEF SteadyOK
    <2>7. SettledOK'
      <3> SUFFICES ASSUME ~hasty PROVE OwnReply' /\ NoCommand' /\ NoAck'
        BY <1>2, <2>2 DEF SettledOK
      <3>1. OwnReply /\ NoCommand /\ AwaitsReply
        BY <1>0, <1>1 DEF SettledOK
      <3>2. OwnReply'
        BY <2>3, <3>1 DEF OwnReply
      <3>3. NoAck
        BY <1>3, <3>1, Constants DEF NoAck, AwaitsReply
      <3>4. NoAck'
        BY <1>2, <3>3 DEF NoAck, Wires
      <3> QED BY <1>7, <3>1, <3>2, <3>4
    <2> QED BY <2>2, <2>4, <2>6, <2>7 DEF UartInv
  <1>9. CASE GarbageStatus
    <2>1. PICK o \in {"ECHIP", "abort"} :
             /\ pc' = IF o = "abort" THEN "crashed" ELSE "idle"
             /\ result' = [call |-> Me, outcome |-> o, from |-> Nil]
      BY <1>9 DEF GarbageStatus
    <2>2. stack' = <<>> /\ power_mode' = IF power_mode = "POWERDOWN" THEN "NORMAL" ELSE power_mode
      BY <1>9 DEF GarbageStatus
    <2>3. failed' = TRUE
      BY <1>9 DEF GarbageStatus
    <2>4. failed' \in BOOLEAN
      BY <2>3, Zenon
    <2>5. result' \in [call : Call \cup {Nil}, outcome : Outcome, from : Call \cup {Nil}] /\ result'.outcome # "payload"
      BY <1>3, <2>1 DEF Outcome
    <2>6. stack' \in Seq(Call) /\ Len(stack') <= 2
      BY <2>2, NoFrames
    <2>7. TypeOK'
      BY <1>0, <1>2, <1>5, <1>7, <2>1, <2>2, <2>4, <2>5, <2>6 DEF TypeOK
    <2>8. OwnReply' /\ pc' \in {"idle", "crashed"}
      BY <2>1, <2>5 DEF OwnReply
    <2> QED BY <2>2, <2>3, <2>7, <2>8, FailedStep DEF UartInv
  <1> QED BY <1>1, <1>8, <1>9

LEMMA IoErrorStep ==
    ASSUME UartInv, io_error
    PROVE  UartInv'
  <1>0. TypeOK /\ StackOK
    BY DEF UartInv
  <1>1. /\ Busy /\ lost < MaxLost /\ lost' = lost + 1 /\ Fails("EIO") /\ (flush_input \/ wire' = wire)
        /\ tx' \in {tx, Append(tx, Wake)} /\ power_mode' \in {"NORMAL", power_mode}
    BY DEF io_error
  <1>2. UNCHANGED <<hasty, last_command, abort_pc, aborts, chip, calls>>
    BY DEF io_error, abortVars
  <1>3. wire' \in Seq(Frame)
    BY <1>0, <1>1, Flushed DEF TypeOK
  <1>4. tx' \in Seq(ToChip)
    BY <1>0, <1>1, Constants, TxGrown DEF TypeOK
  <1>5. signalled' \in BOOLEAN
    <2>1. signalled' = FALSE
      BY DEF io_error
    <2> QED BY <2>1, Zenon
  <1>6. "EIO" \in Outcome \ {"payload"}
    BY DEF Outcome
  <1>7. lost' \in 0..MaxLost /\ power_mode' \in {"NORMAL", "POWERDOWN", "LOWVBAT"}
    BY <1>0, <1>1, LinkAssumption DEF TypeOK
  <1>8. TypeOK'
    BY <1>0, <1>1, <1>2, <1>3, <1>4, <1>5, <1>6, <1>7, FailsFacts DEF TypeOK
  <1> QED BY <1>0, <1>1, <1>6, <1>8, FailsFacts DEF UartInv

-----------------------------------------------------------------------------
(* The other thread, the chip and the line                                 *)

\* With the host where it was, the stack and the last outcome stay as they were.
LEMMA HostStays ==
    ASSUME StackOK, UNCHANGED hostVars
    PROVE  StackOK' /\ Depth' = Depth /\ (OwnReply' <=> OwnReply)
           /\ UNCHANGED <<pc, stack, power_mode, result, last_command>>
           /\ (hasty' <=> hasty) /\ (failed' <=> failed)
  <1>1. UNCHANGED <<pc, stack, power_mode, result, last_command, hasty, failed>>
    BY DEF hostVars
  <1>2. Depth' = Depth
    BY <1>1 DEF Depth
  <1> QED BY <1>1, <1>2 DEF StackOK, Busy, OwnReply

LEMMA AbortCloseStep ==
    ASSUME UartInv, abort_close
    PROVE  UartInv'
  <1>0. TypeOK /\ StackOK /\ SettledOK
    BY DEF UartInv
  <1>1. aborts < MaxAborts /\ aborts' = aborts + 1 /\ abort_pc' = "closed"
    BY DEF abort_close
  <1>2. UNCHANGED <<hostVars, tx, wire, chip, calls, lost>>
    BY DEF abort_close
  <1>3. signalled' \in BOOLEAN
    <2>1. signalled' = (signalled \/ pc = "receive")
      BY DEF abort_close
    <2> QED BY <2>1, Zenon
  <1>4. aborts' \in 0..MaxAborts /\ aborts' # 0
    BY <1>0, <1>1, LinkAssumption DEF TypeOK
  <1>5. TypeOK'
    BY <1>0, <1>1, <1>2, <1>3, <1>4 DEF TypeOK, hostVars
  <1>6. Txs' = Txs /\ Wires' = Wires /\ Run' = Run
    BY <1>2 DEF Txs, Wires, Run
  <1>7. SettledOK'
    BY <1>0, <1>2, <1>6, HostStays DEF SettledOK, NoCommand, NoAck, AwaitsAck, AwaitsReply, Reply
  <1>8. SteadyOK'
    BY <1>4 DEF SteadyOK
  <1> QED BY <1>0, <1>2, <1>5, <1>7, <1>8, HostStays DEF UartInv

LEMMA AbortPipeStep ==
    ASSUME UartInv, abort_pipe
    PROVE  UartInv'
  <1>0. TypeOK /\ StackOK /\ SettledOK /\ SteadyOK
    BY DEF UartInv
  <1>1. abort_pc = "closed" /\ abort_pc' = "idle"
    BY DEF abort_pipe
  <1>2. UNCHANGED <<hostVars, aborts, signalled, tx, wire, chip, calls, lost>>
    BY DEF abort_pipe
  <1>3. TypeOK'
    BY <1>0, <1>1, <1>2 DEF TypeOK, hostVars
  <1>4. Txs' = Txs /\ Wires' = Wires /\ Run' = Run
    BY <1>2 DEF Txs, Wires, Run
  <1>5. SettledOK'
    BY <1>0, <1>2, <1>4, HostStays DEF SettledOK, NoCommand, NoAck, AwaitsAck, AwaitsReply, Reply
  <1>6. SteadyOK'
    <2>1. failed \/ aborts # 0
      BY <1>0, <1>1 DEF SteadyOK
    <2> QED BY <1>0, <1>2, <2>1, HostStays DEF SteadyOK
  <1> QED BY <1>0, <1>2, <1>3, <1>5, <1>6, HostStays DEF UartInv

\* What the host sent loses its first frame, which the chip did not answer.
LEMMA TxShrinks ==
    ASSUME UartInv, UNCHANGED hostVars, tx # <<>>, tx' = Tail(tx), wire' = wire, Run' \in {Run, Nil}
    PROVE  SettledOK'
  <1>0. TypeOK /\ StackOK /\ SettledOK
    BY DEF UartInv
  <1>1. /\ Txs \in Nat /\ Txs >= 1 /\ tx[1] \in ToChip /\ Txs' = Txs - 1
        /\ \A i \in 1..Txs' : tx'[i] = tx[i + 1]
    BY <1>0, TxTaken
  <1>2. StackOK' /\ Depth' = Depth /\ (OwnReply' <=> OwnReply) /\ (hasty' <=> hasty)
        /\ UNCHANGED <<pc, stack>>
    BY <1>0, HostStays
  <1>3. Wires' = Wires /\ (NoAck' <=> NoAck)
    BY DEF Wires, NoAck
  <1> SUFFICES ASSUME ~hasty PROVE SettledOK'
    BY <1>2 DEF SettledOK
  <1>4. NoCommand => NoCommand'
    <2>1. \A i \in 1..Txs' : i + 1 \in 1..Txs
      BY <1>1
    <2> QED BY <1>1, <2>1 DEF NoCommand
  <1>5. NoCommand' => NoCommand \/ (tx[1].kind = "frame" /\ \A i \in 2..Txs : tx[i].kind # "frame")
    <2>1. ASSUME NoCommand', NEW i \in 2..Txs PROVE tx[i].kind # "frame"
      <3>1. i - 1 \in 1..Txs' /\ i - 1 + 1 = i
        BY <1>1
      <3> QED BY <1>1, <2>1, <3>1 DEF NoCommand
    <2>2. \A i \in 1..Txs : i = 1 \/ i \in 2..Txs
      BY <1>1
    <2> QED BY <2>1, <2>2 DEF NoCommand
  <1>6. ASSUME pc = "ack" PROVE AwaitsAck'
    <2>1. AwaitsAck
      BY <1>0, <1>6 DEF SettledOK
    <2>2. \A i \in 1..Txs' : i + 1 \in 1..Txs
      BY <1>1
    <2>3. \A i \in 1..Txs' : tx'[i].kind = "frame" => tx'[i].call = stack'[1] /\ NoAck'
      BY <1>1, <1>2, <1>3, <2>1, <2>2 DEF AwaitsAck
    <2>4. \A i, j \in 1..Txs' : tx'[i].kind = "frame" /\ tx'[j].kind = "frame" => i = j
      <3> SUFFICES ASSUME NEW i \in 1..Txs', NEW j \in 1..Txs', tx'[i].kind = "frame", tx'[j].kind = "frame"
                   PROVE  i = j
        OBVIOUS
      <3>1. i + 1 = j + 1
        BY <1>1, <2>1, <2>2 DEF AwaitsAck
      <3> QED BY <1>1, <3>1
    <2>5. ASSUME NoCommand', NEW i \in 1..Wires', wire'[i].kind = "ack"
          PROVE  Run' \in {stack'[1], Nil} /\ \A j \in i + 1 .. Wires' : wire'[j] = Reply(stack'[1])
      <3>1. CASE NoCommand
        BY <1>2, <1>3, <2>1, <2>5, <3>1 DEF AwaitsAck
      <3>2. CASE tx[1].kind = "frame"
        <4>1. NoAck
          BY <1>1, <2>1, <3>2 DEF AwaitsAck
        <4> QED BY <1>3, <2>5, <4>1 DEF NoAck
      <3> QED BY <1>5, <2>5, <3>1, <3>2
    <2> QED BY <2>3, <2>4, <2>5 DEF AwaitsAck, Reply
  <1>7. ASSUME pc \in {"receive", "rest"} PROVE AwaitsReply'
    BY <1>0, <1>2, <1>3, <1>7 DEF SettledOK, AwaitsReply, Reply
  <1> QED BY <1>0, <1>2, <1>3, <1>4, <1>6, <1>7 DEF SettledOK

LEMMA ChipTakeStep ==
    ASSUME UartInv, chip_take
    PROVE  UartInv'
  <1>0. TypeOK /\ StackOK /\ SettledOK /\ SteadyOK
    BY DEF UartInv
  <1>1. tx # <<>> /\ tx' = Tail(tx)
    BY DEF chip_take
  <1>2. UNCHANGED hostVars /\ UNCHANGED <<abort_pc, aborts, signalled, calls, lost>>
    BY DEF chip_take, abortVars
  <1>3. /\ tx' \in Seq(ToChip) /\ Head(tx) = tx[1] /\ tx[1] \in ToChip /\ Txs \in Nat /\ Txs >= 1
        /\ Txs' = Txs - 1 /\ \A i \in 1..Txs' : tx'[i] = tx[i + 1]
    BY <1>0, <1>1, TxTaken
  <1>4. /\ StackOK' /\ Depth' = Depth /\ (OwnReply' <=> OwnReply)
        /\ UNCHANGED <<pc, stack, power_mode, result, last_command>> /\ (hasty' <=> hasty) /\ (failed' <=> failed)
    BY <1>0, <1>2, HostStays
  <1>5. chip \in [power : {"awake", "down", "lowvbat", "woken"}, run : Call \cup {Nil}]
    BY <1>0 DEF TypeOK
  <1>6. Wires \in Nat /\ wire \in Seq(Frame)
    BY <1>0, LineFacts DEF TypeOK
  <1>7. ~failed /\ aborts = 0 => \/ pc = "send" /\ Depth = 2 /\ Wires = 0 /\ Run = Nil /\ Txs = 1 /\ tx[1] = Wake
                                 \/ /\ pc = "ack" /\ power_mode = "NORMAL" /\ Wires = 0 /\ Run = Nil
                                    /\ \/ Txs = 1 /\ tx[1] = Command(stack[1])
                                       \/ Txs = 2 /\ tx[1] = Wake /\ tx[2] = Command(stack[1])
    BY <1>0, <1>3, LineFacts DEF SteadyOK, Nothing, SteadyAck, SteadyReply, TypeOK, StackOK, Busy
  <1>8. ~failed /\ aborts = 0 => ~hasty /\ ~signalled /\ abort_pc = "idle"
    BY <1>0 DEF SteadyOK
  <1>9. pc = "ack" => stack[1] \in Call
    BY <1>0, BusyFacts DEF Busy
  <1>10. CASE wire' = wire /\ chip' \in [power : {"awake", "down", "lowvbat", "woken"}, run : {Run, Nil}]
    <2>1. Run' \in {Run, Nil} /\ Run' \in Call \cup {Nil}
      BY <1>5, <1>10 DEF Run
    <2>2. chip' \in [power : {"awake", "down", "lowvbat", "woken"}, run : Call \cup {Nil}]
      BY <1>5, <1>10 DEF Run
    <2>3. TypeOK'
      BY <1>0, <1>2, <1>3, <1>10, <2>2 DEF TypeOK, hostVars
    <2>4. SettledOK'
      BY <1>1, <1>2, <1>10, <2>1, TxShrinks
    <2>5. Wires' = Wires
      BY <1>10 DEF Wires
    <2>6. SteadyOK'
      <3> SUFFICES ASSUME ~failed, aborts = 0 PROVE SteadyOK'
        BY <1>2, <1>4 DEF SteadyOK
      <3>1. Wires' = 0 /\ Run' = Nil
        BY <1>7, <2>1, <2>5
      <3>2. CASE pc = "send" /\ Depth = 2 /\ Txs = 1
        BY <1>2, <1>3, <1>4, <1>8, <3>1, <3>2 DEF SteadyOK
      <3>3. CASE pc = "ack" /\ power_mode = "NORMAL" /\ Txs = 1
        <4>1. SteadyAck'
          BY <1>3, <1>4, <3>1, <3>3 DEF SteadyAck
        <4> QED BY <1>2, <1>4, <1>8, <3>3, <4>1 DEF SteadyOK
      <3>4. CASE pc = "ack" /\ power_mode = "NORMAL" /\ Txs = 2 /\ tx[2] = Command(stack[1])
        <4>1. Txs' = 1 /\ tx'[1] = Command(stack'[1])
          BY <1>3, <1>4, <3>4
        <4>2. SteadyAck'
          BY <1>4, <3>1, <3>4, <4>1 DEF SteadyAck
        <4> QED BY <1>2, <1>4, <1>8, <3>4, <4>2 DEF SteadyOK
      <3> QED BY <1>7, <3>2, <3>3, <3>4
    <2> QED BY <1>4, <2>3, <2>4, <2>6 DEF UartInv
  <1>11. CASE /\ tx[1].kind = "frame"
              /\ chip' = [power |-> IF tx[1].call.cmd = "TgInitAsTarget" THEN "down" ELSE chip.power, run |-> tx[1].call]
              /\ wire' = Append(wire, Ack(tx[1].call))
    <2> DEFINE c == tx[1].call
    <2>1. c \in Call /\ Ack(c) \in Frame /\ Ack(c).kind = "ack" /\ Ack(c).kind # "reply"
      BY <1>3, <1>11, Constants
    <2>2. /\ wire' \in Seq(Frame) /\ Wires' = Wires + 1 /\ wire'[Wires + 1] = Ack(c)
          /\ \A i \in 1..Wires : wire'[i] = wire[i]
      BY <1>0, <1>11, <2>1, WireGrown
    <2>3. chip' \in [power : {"awake", "down", "lowvbat", "woken"}, run : Call \cup {Nil}] /\ Run' = c
      BY <1>5, <1>11, <2>1 DEF Run
    <2>4. TypeOK'
      BY <1>0, <1>2, <1>3, <2>2, <2>3 DEF TypeOK, hostVars
    <2> HIDE DEF c
    <2>5. SettledOK'
      <3> SUFFICES ASSUME ~hasty PROVE /\ OwnReply' /\ pc \in {"ack", "idle", "crashed"}
                                       /\ pc = "ack" => AwaitsAck'
        BY <1>4 DEF SettledOK
      <3>1. OwnReply' /\ ~NoCommand
        BY <1>0, <1>3, <1>4, <1>11 DEF SettledOK, NoCommand
      <3>2. pc \in {"ack", "idle", "crashed"}
        BY <1>0, <3>1 DEF SettledOK, TypeOK
      <3>3. ASSUME pc = "ack" PROVE AwaitsAck'
        <4>1. AwaitsAck
          BY <1>0, <3>3 DEF SettledOK
        <4>2. c = stack[1] /\ NoAck
          BY <1>3, <1>11, <4>1 DEF AwaitsAck, c
        <4>3. ASSUME NEW i \in 1..Txs' PROVE tx'[i].kind # "frame"
          <5>1. i + 1 \in 1..Txs /\ 1 \in 1..Txs /\ i + 1 # 1
            BY <1>3
          <5> QED BY <1>3, <1>11, <4>1, <5>1 DEF AwaitsAck
        <4>4. Run' = stack'[1]
          BY <1>4, <2>3, <4>2
        <4>5. \A i \in 1..Wires' : wire'[i].kind = "ack" => i = Wires'
          BY <1>6, <2>2, <4>2 DEF NoAck
        <4>6. \A i \in 1..Wires' : wire'[i].kind = "ack" => \A j \in i + 1 .. Wires' : wire'[j] = Reply(stack'[1])
          BY <1>6, <2>2, <4>5
        <4> QED BY <4>3, <4>4, <4>6 DEF AwaitsAck, Reply
      <3> QED BY <3>1, <3>2, <3>3
    <2>6. SteadyOK'
      <3> SUFFICES ASSUME ~failed, aborts = 0 PROVE SteadyOK'
        BY <1>2, <1>4 DEF SteadyOK
      <3>1. pc = "ack" /\ power_mode = "NORMAL" /\ Wires = 0 /\ Txs = 1 /\ tx[1] = Command(stack[1])
        BY <1>7, <1>11, Constants
      <3>2. c = stack[1]
        BY <1>9, <3>1, Constants DEF c
      <3>3. Txs' = 0 /\ Wires' = 1 /\ Run' = stack'[1] /\ wire'[1] = Ack(c)
        BY <1>3, <1>4, <2>2, <2>3, <3>1, <3>2
      <3>4. wire'[1] # Reply(stack'[1])
        BY <1>4, <1>9, <2>1, <3>1, <3>3, Constants
      <3>5. SteadyAck'
        BY <1>4, <3>1, <3>3, <3>4 DEF SteadyAck, Reply
      <3> QED BY <1>2, <1>4, <1>8, <3>1, <3>5 DEF SteadyOK
    <2> QED BY <1>4, <2>4, <2>5, <2>6 DEF UartInv
  <1>12. QED
    <2>1. CASE tx[1].kind = "wake" /\ wire' = wire
               /\ chip' = [chip EXCEPT !.power = CASE @ = "down" -> "awake" [] @ = "lowvbat" -> "woken" [] OTHER -> @]
      <3>1. chip' \in [power : {"awake", "down", "lowvbat", "woken"}, run : {Run, Nil}]
        BY <1>5, <2>1 DEF Run
      <3> QED BY <1>10, <2>1, <3>1
    <2>2. CASE tx[1].kind = "ack" /\ wire' = wire
               /\ chip' = [chip EXCEPT !.run = IF chip.power = "awake" THEN Nil ELSE @]
      <3>1. chip' \in [power : {"awake", "down", "lowvbat", "woken"}, run : {Run, Nil}]
        BY <1>5, <2>2 DEF Run
      <3> QED BY <1>10, <2>2, <3>1
    <2>3. CASE tx[1].kind = "frame" /\ wire' = wire /\ chip' = chip
      <3>1. chip' \in [power : {"awake", "down", "lowvbat", "woken"}, run : {Run, Nil}]
        BY <1>5, <2>3 DEF Run
      <3> QED BY <1>10, <2>3, <3>1
    <2> QED BY <1>3, <1>11, <2>1, <2>2, <2>3 DEF chip_take, Ack

LEMMA ChipReplyStep ==
    ASSUME UartInv, chip_reply
    PROVE  UartInv'
  <1>0. TypeOK /\ StackOK /\ SettledOK /\ SteadyOK
    BY DEF UartInv
  <1>1. /\ Run # Nil /\ wire' = Append(wire, Reply(Run))
        /\ chip' = [power |-> IF Run.cmd = "PowerDown" THEN "lowvbat" ELSE "awake", run |-> Nil]
    BY DEF chip_reply, Run, Reply
  <1>2. UNCHANGED hostVars /\ UNCHANGED <<abort_pc, aborts, signalled, tx, calls, lost>>
    BY DEF chip_reply, abortVars
  <1>3. Run \in Call /\ Reply(Run) \in Frame /\ Reply(Run).kind = "reply"
    BY <1>0, <1>1, LineFacts, Constants
  <1>4. /\ wire' \in Seq(Frame) /\ Wires \in Nat /\ Wires' = Wires + 1 /\ wire'[Wires + 1] = Reply(Run)
        /\ \A i \in 1..Wires : wire'[i] = wire[i]
    BY <1>0, <1>1, <1>3, WireGrown
  <1>5. /\ StackOK' /\ Depth' = Depth /\ (OwnReply' <=> OwnReply)
        /\ UNCHANGED <<pc, stack, power_mode, result, last_command>> /\ (hasty' <=> hasty) /\ (failed' <=> failed)
    BY <1>0, <1>2, HostStays
  <1>6. chip' \in [power : {"awake", "down", "lowvbat", "woken"}, run : Call \cup {Nil}] /\ Run' = Nil
    BY <1>1 DEF Run
  <1>7. Txs' = Txs /\ (NoCommand' <=> NoCommand)
    BY <1>2 DEF Txs, NoCommand
  <1>8. TypeOK'
    BY <1>0, <1>2, <1>4, <1>6 DEF TypeOK, hostVars
  <1>9. NoAck => NoAck'
    BY <1>3, <1>4 DEF NoAck
  <1>10. SettledOK'
    <2> SUFFICES ASSUME ~hasty PROVE SettledOK'
      BY <1>5 DEF SettledOK
    <2>1. ASSUME pc = "ack" PROVE AwaitsAck'
      <3>1. AwaitsAck
        BY <1>0, <2>1 DEF SettledOK
      <3>2. /\ \A i \in 1..Txs' : tx'[i].kind = "frame" => tx'[i].call = stack'[1] /\ NoAck'
            /\ \A i, j \in 1..Txs' : tx'[i].kind = "frame" /\ tx'[j].kind = "frame" => i = j
        BY <1>2, <1>5, <1>7, <1>9, <3>1 DEF AwaitsAck
      <3>3. ASSUME NoCommand, NEW i \in 1..Wires', wire'[i].kind = "ack"
            PROVE  \A j \in i + 1 .. Wires' : wire'[j] = Reply(stack'[1])
        <4>1. i \in 1..Wires /\ wire[i].kind = "ack"
          BY <1>3, <1>4, <3>3
        <4>2. Run = stack[1] /\ \A j \in i + 1 .. Wires : wire[j] = Reply(stack[1])
          BY <1>1, <3>1, <3>3, <4>1 DEF AwaitsAck
        <4> QED BY <1>4, <1>5, <4>1, <4>2
      <3> QED BY <1>6, <1>7, <3>2, <3>3 DEF AwaitsAck, Reply
    <2>2. ASSUME pc \in {"receive", "rest"} PROVE AwaitsReply'
      <3>1. Run = stack[1] /\ \A i \in 1..Wires : wire[i] \in {Reply(stack[1]), Junk}
        BY <1>0, <1>1, <2>2 DEF SettledOK, AwaitsReply
      <3>2. \A i \in 1..Wires' : wire'[i] \in {Reply(stack[1]), Junk}
        BY <1>4, <3>1
      <3> QED BY <1>5, <1>6, <3>2 DEF AwaitsReply, Reply
    <2> QED BY <1>0, <1>5, <1>7, <1>9, <2>1, <2>2 DEF SettledOK
  <1>11. SteadyOK'
    <2> SUFFICES ASSUME ~failed, aborts = 0 PROVE SteadyOK'
      BY <1>2, <1>5 DEF SteadyOK
    <2>1. ~hasty /\ ~signalled /\ abort_pc = "idle" /\ pc \in {"ack", "receive"}
      BY <1>0, <1>1, LineFacts DEF SteadyOK, Nothing, TypeOK, StackOK, Busy
    <2>2. ASSUME pc = "ack" PROVE SteadyAck'
      <3>1. power_mode = "NORMAL" /\ Txs = 0 /\ Wires <= 1 /\ Run = stack[1]
        BY <1>0, <1>1, <2>2 DEF SteadyOK, SteadyAck
      <3>2. Answered'
        BY <1>1, <1>5, <3>1 DEF Answered
      <3>3. Wires' <= 2 /\ (Wires' = 2 => wire'[2] = Reply(stack'[1]))
        BY <1>4, <1>5, <3>1
      <3> QED BY <1>5, <1>6, <1>7, <3>1, <3>2, <3>3 DEF SteadyAck, Reply
    <2>3. ASSUME pc = "receive" PROVE SteadyReply'
      <3>1. (stack[1].cmd # "TgInitAsTarget" => power_mode = "NORMAL") /\ Txs = 0 /\ Wires = 0
        BY <1>0, <1>1, <2>3 DEF SteadyOK, SteadyReply
      <3>2. Run = stack[1]
        BY <1>0, <1>1, <2>1, <2>3 DEF SettledOK, AwaitsReply
      <3>3. Answered'
        BY <1>1, <1>5, <3>2 DEF Answered
      <3> QED BY <1>4, <1>5, <1>6, <1>7, <3>1, <3>3 DEF SteadyReply, Reply
    <2> QED BY <1>2, <1>5, <2>1, <2>2, <2>3 DEF SteadyOK
  <1> QED BY <1>5, <1>8, <1>10, <1>11 DEF UartInv

LEMMA LoseStep ==
    ASSUME UartInv, lose
    PROVE  UartInv'
  <1>0. TypeOK /\ StackOK /\ SettledOK /\ SteadyOK
    BY DEF UartInv
  <1>1. lost < MaxLost /\ lost' = lost + 1
    BY DEF lose
  <1>2. UNCHANGED hostVars /\ UNCHANGED <<abort_pc, aborts, signalled, chip, calls>>
    BY DEF lose, abortVars
  <1>3. lost' \in 0..MaxLost
    BY <1>0, <1>1, LinkAssumption DEF TypeOK
  <1>4. /\ StackOK' /\ Depth' = Depth /\ (OwnReply' <=> OwnReply)
        /\ UNCHANGED <<pc, stack, power_mode, result, last_command>> /\ (hasty' <=> hasty) /\ (failed' <=> failed)
    BY <1>0, <1>2, HostStays
  <1>5. Run' = Run /\ Wires \in Nat /\ Txs \in Nat
    BY <1>0, <1>2, LineFacts DEF Run
  <1>6. Answered' <=> Answered
    BY <1>2, <1>4 DEF Answered
  <1>7. CASE tx # <<>> /\ tx' = Tail(tx) /\ wire' = wire
    <2>1. /\ tx' \in Seq(ToChip) /\ Txs >= 1 /\ Txs' = Txs - 1 /\ \A i \in 1..Txs' : tx'[i] = tx[i + 1]
      BY <1>0, <1>7, TxTaken
    <2>2. Wires' = Wires
      BY <1>7 DEF Wires
    <2>3. TypeOK'
      BY <1>0, <1>2, <1>3, <1>7, <2>1 DEF TypeOK, hostVars
    <2>4. SettledOK'
      BY <1>2, <1>5, <1>7, TxShrinks
    <2>5. SteadyOK'
      <3> SUFFICES ASSUME ~failed, aborts = 0 PROVE SteadyOK'
        BY <1>2, <1>4 DEF SteadyOK
      <3>1. ~hasty /\ ~signalled /\ abort_pc = "idle"
        BY <1>0 DEF SteadyOK
      <3>2. \/ pc = "send" /\ Depth = 2 /\ Wires = 0 /\ Run = Nil /\ Txs = 1
            \/ /\ pc = "ack" /\ power_mode = "NORMAL" /\ Wires = 0 /\ Run = Nil
               /\ Txs = 1 \/ (Txs = 2 /\ tx[2] = Command(stack[1]))
        BY <1>0, <2>1, LineFacts DEF SteadyOK, Nothing, SteadyAck, SteadyReply, TypeOK, StackOK, Busy
      <3>3. CASE pc = "send" /\ Depth = 2 /\ Wires = 0 /\ Run = Nil /\ Txs = 1
        BY <1>2, <1>4, <1>5, <2>1, <2>2, <3>1, <3>3 DEF SteadyOK
      <3>4. CASE /\ pc = "ack" /\ power_mode = "NORMAL" /\ Wires = 0 /\ Run = Nil
                 /\ Txs = 1 \/ (Txs = 2 /\ tx[2] = Command(stack[1]))
        <4>1. Txs' = 0 \/ (Txs' = 1 /\ tx'[1] = Command(stack'[1]))
          BY <1>4, <2>1, <3>4
        <4>2. SteadyAck'
          BY <1>4, <1>5, <2>2, <3>4, <4>1 DEF SteadyAck
        <4> QED BY <1>2, <1>4, <3>1, <3>4, <4>2 DEF SteadyOK
      <3> QED BY <3>2, <3>3, <3>4
    <2> QED BY <1>4, <2>3, <2>4, <2>5 DEF UartInv
  <1>8. CASE wire # <<>> /\ wire' \in {Tail(wire), <<Junk>> \o Tail(wire)} /\ tx' = tx
    <2> DEFINE cut == wire' # Tail(wire)
    <2>1. /\ wire' \in Seq(Frame) /\ Wires >= 1
          /\ cut => Wires' = Wires /\ wire'[1] = Junk /\ \A i \in 2..Wires : wire'[i] = wire[i]
          /\ ~cut => Wires' = Wires - 1 /\ \A i \in 1..Wires' : wire'[i] = wire[i + 1]
      BY <1>0, <1>8, WireTaken, WireCut
    <2> HIDE DEF cut
    <2>2. Txs' = Txs /\ (NoCommand' <=> NoCommand)
      BY <1>8 DEF Txs, NoCommand
    <2>3. TypeOK'
      BY <1>0, <1>2, <1>3, <1>8, <2>1 DEF TypeOK, hostVars
    <2>4. Junk.kind = "junk"
      BY Constants
    <2>5. NoAck => NoAck'
      BY <1>5, <2>1, <2>4 DEF NoAck
    <2>6. SettledOK'
      <3> SUFFICES ASSUME ~hasty PROVE SettledOK'
        BY <1>4 DEF SettledOK
      <3>1. ASSUME pc = "ack" PROVE AwaitsAck'
        <4>1. AwaitsAck
          BY <1>0, <3>1 DEF SettledOK
        <4>2. /\ \A i \in 1..Txs' : tx'[i].kind = "frame" => tx'[i].call = stack'[1] /\ NoAck'
              /\ \A i, j \in 1..Txs' : tx'[i].kind = "frame" /\ tx'[j].kind = "frame" => i = j
          BY <1>4, <1>8, <2>2, <2>5, <4>1 DEF AwaitsAck
        <4>3. ASSUME NoCommand, NEW i \in 1..Wires', wire'[i].kind = "ack"
              PROVE  Run \in {stack[1], Nil} /\ \A j \in i + 1 .. Wires' : wire'[j] = Reply(stack[1])
          <5>1. CASE cut
            <6>1. i \in 2..Wires /\ wire[i].kind = "ack"
              BY <1>5, <2>1, <2>4, <4>3, <5>1
            <6>2. Run \in {stack[1], Nil} /\ \A j \in i + 1 .. Wires : wire[j] = Reply(stack[1])
              BY <1>5, <4>1, <4>3, <6>1 DEF AwaitsAck
            <6> QED BY <1>5, <2>1, <5>1, <6>1, <6>2
          <5>2. CASE ~cut
            <6>1. i + 1 \in 1..Wires /\ wire[i + 1].kind = "ack"
              BY <1>5, <2>1, <4>3, <5>2
            <6>2. Run \in {stack[1], Nil} /\ \A j \in i + 2 .. Wires : wire[j] = Reply(stack[1])
              BY <1>5, <4>1, <4>3, <6>1 DEF AwaitsAck
            <6> QED BY <1>5, <2>1, <5>2, <6>1, <6>2
          <5> QED BY <5>1, <5>2
        <4> QED BY <1>4, <1>5, <2>2, <4>2, <4>3 DEF AwaitsAck, Reply
      <3>2. ASSUME pc \in {"receive", "rest"} PROVE AwaitsReply'
        <4>1. Run \in {stack[1], Nil} /\ \A i \in 1..Wires : wire[i] \in {Reply(stack[1]), Junk}
          BY <1>0, <3>2 DEF SettledOK, AwaitsReply
        <4>2. \A i \in 1..Wires' : wire'[i] \in {Reply(stack[1]), Junk}
          BY <1>5, <2>1, <4>1
        <4> QED BY <1>4, <1>5, <4>1, <4>2 DEF AwaitsReply, Reply
      <3> QED BY <1>0, <1>4, <2>2, <2>5, <3>1, <3>2 DEF SettledOK
    <2>7. SteadyOK'
      <3> SUFFICES ASSUME ~failed, aborts = 0 PROVE SteadyOK'
        BY <1>2, <1>4 DEF SteadyOK
      <3>1. ~hasty /\ ~signalled /\ abort_pc = "idle"
        BY <1>0 DEF SteadyOK
      <3>2. pc \in {"ack", "receive"} /\ stack[1] \in Call
        BY <1>0, <2>1, LineFacts DEF SteadyOK, Nothing, TypeOK, StackOK, Busy
      <3>3. Junk # Reply(stack[1])
        BY <2>4, <3>2, Constants
      <3>4. ASSUME pc = "ack" PROVE SteadyAck'
        <4>1. /\ power_mode = "NORMAL" /\ Txs = 0 /\ Wires <= 2 /\ (Run # Nil => Wires <= 1)
              /\ Wires = 2 => wire[2] = Reply(stack[1])
              /\ Run \in {stack[1], Nil}
              /\ \A i \in 1..Wires : wire[i] = Reply(stack[1]) => Run = Nil /\ Answered
          BY <1>0, <2>1, <3>4 DEF SteadyOK, SteadyAck
        <4>2. \A i \in 1..Wires' : wire'[i] = Reply(stack[1]) => Run = Nil /\ Answered
          <5>1. CASE cut
            BY <1>5, <2>1, <3>3, <4>1, <5>1
          <5>2. CASE ~cut
            BY <1>5, <2>1, <4>1, <5>2
          <5> QED BY <5>1, <5>2
        <4>3. Wires' <= 2 /\ (Run # Nil => Wires' <= 1) /\ (Wires' = 2 => wire'[2] = Reply(stack[1]))
          BY <1>5, <2>1, <4>1
        <4> QED BY <1>4, <1>5, <1>6, <2>2, <4>1, <4>2, <4>3 DEF SteadyAck, Reply
      <3>5. ASSUME pc = "receive" PROVE SteadyReply'
        <4>1. /\ stack[1].cmd # "TgInitAsTarget" => power_mode = "NORMAL"
              /\ Txs = 0 /\ Wires <= 1 /\ (Run # Nil => Wires = 0)
          BY <1>0, <3>5 DEF SteadyOK, SteadyReply
        <4>2. Wires' <= 1 /\ (Run # Nil => Wires' = 0) /\ ~(Wires' = 1 /\ wire'[1] = Reply(stack[1]))
          BY <1>5, <2>1, <3>3, <4>1
        <4> QED BY <1>4, <1>5, <2>2, <4>1, <4>2 DEF SteadyReply, Reply
      <3> QED BY <1>2, <1>4, <3>1, <3>2, <3>4, <3>5 DEF SteadyOK
    <2> QED BY <1>4, <2>3, <2>6, <2>7 DEF UartInv
  <1> QED BY <1>7, <1>8 DEF lose

LEMMA StutterUart ==
    ASSUME UartInv, UNCHANGED vars
    PROVE  UartInv'
  <1>1. UNCHANGED hostVars /\ UNCHANGED <<abort_pc, aborts, signalled, tx, wire, chip, calls, lost>>
    BY DEF vars, abortVars
  <1>2. UNCHANGED <<power_mode, last_command, stack, pc, result, failed, hasty>>
    BY <1>1 DEF hostVars
  <1>3. Depth' = Depth /\ Txs' = Txs /\ Wires' = Wires /\ Run' = Run
    BY <1>1, <1>2 DEF Depth, Txs, Wires, Run
  <1>4. TypeOK' /\ StackOK'
    BY <1>1, <1>2, HostStays DEF UartInv, TypeOK
  <1>5. SettledOK'
    BY <1>1, <1>2, <1>3 DEF UartInv, SettledOK, OwnReply, NoCommand, NoAck, AwaitsAck, AwaitsReply, Reply
  <1>6. SteadyOK'
    BY <1>1, <1>2, <1>3 DEF UartInv, SteadyOK, SteadyAck, SteadyReply, Nothing, Answered, Reply, Command
  <1> QED BY <1>4, <1>5, <1>6 DEF UartInv

LEMMA NextUart == UartInv /\ [Next]_vars => UartInv'
  BY TransceiveStep, SendStep, SendFrameStep, RecvAckStep, TimeoutStep, ReceiveStep, ReceiveRestStep, ReceiveAbortedStep, IoErrorStep,
     AbortCloseStep, AbortPipeStep, ChipTakeStep, ChipReplyStep, LoseStep, StutterUart DEF Next, Host, Chip

-----------------------------------------------------------------------------
(* The theorems                                                            *)

\* The invariant of the link: a call that let the line settle gets its own answer,
\* and without a failure or an abort host and chip stay in step.
THEOREM UartInductive == Spec => []UartInv
  BY InitUart, NextUart, PTL DEF Spec

\* pn53x_transceive over pn532_uart.c: an answer that is not the call's own takes
\* a call that failed or was aborted and a caller that did not wait for the chip.
THEOREM StaleNeedsHasteHolds == Spec => []StaleNeedsHaste
  <1>1. ASSUME UartInv PROVE StaleNeedsHaste
    <2>1. ~hasty => OwnReply
      BY <1>1 DEF UartInv, SettledOK
    <2>2. ~failed /\ aborts = 0 => ~hasty
      BY <1>1 DEF UartInv, SteadyOK
    <2>3. aborts \in Nat
      BY <1>1 DEF UartInv, TypeOK
    <2> QED BY <2>1, <2>2, <2>3 DEF StaleNeedsHaste
  <1> QED BY <1>1, UartInductive, PTL

\* pn532_uart_wakeup: until a call fails or is aborted, a chip the host takes for
\* awake between two calls is awake; and every variable keeps its type.
THEOREM AwakeUnlessFailedHolds == Spec => []AwakeUnlessFailed
  <1>1. ASSUME UartInv PROVE AwakeUnlessFailed
    BY <1>1 DEF UartInv, SteadyOK, AwakeUnlessFailed, NormalMeansAwake
  <1> QED BY <1>1, UartInductive, PTL
=============================================================================
