---------------------------- MODULE SerialProofs ----------------------------
(***************************************************************************)
(* The ARYGON and the ACR122S, for any number of calls, aborts and faults: *)
(* what it takes for a call to return another one's answer, and that a     *)
(* command that was aborted on the ARYGON ends.                            *)
(*                                                                         *)
(* The steps are first brought to a few shapes, by what they do to the two *)
(* lines; each part of the invariant is then kept by each shape.           *)
(***************************************************************************)
EXTENDS SerialReaders, SequenceTheorems, TLAPS

-----------------------------------------------------------------------------
(* The invariant                                                           *)

Txs == Len(tx)
Wires == Len(wire)
Ack(c) == Frame("ack", c)
Refusal(c) == Frame("refused", c)
Reply(c) == Frame("reply", c)
Request(c) == Frame("request", c)
Dummy == Frame("dummy", Nil)

TxFrame == [kind : {"request"}, call : Call] \cup {Dummy}
WireFrame == [kind : {"ack", "refused", "reply"}, call : Call] \cup {Junk}

\* Every variable has its type, and an abort pays for the request it makes.
Typed ==
    /\ TypeOK /\ io \in {"arygon", "acr122s"} /\ last_command \in Cmd \cup {"none"}
    /\ signalled \in BOOLEAN /\ pipe_ok \in BOOLEAN /\ failed \in BOOLEAN /\ hasty \in BOOLEAN
    /\ tx \in Seq(TxFrame) /\ wire \in Seq(WireFrame)
    /\ calls \in Nat /\ aborts \in 0..MaxAborts /\ lost \in 0..MaxLost
    /\ me.id = calls /\ calls <= MaxCalls + aborts
    /\ signalled => calls < MaxCalls + aborts

\* Which request each stage makes, and what the host remembers of it
Placed ==
    /\ pc = "idle" => outer = Nil
    /\ stage = "closed" => pc = "idle"
    /\ Busy => me \in Call /\ result.call.id < calls
    /\ result.call.id <= calls /\ (result.outcome # "none" => result.call # Nil)
    /\ Busy /\ stage \in DOMAIN StageCmd => me.cmd = StageCmd[stage]
    /\ Busy /\ stage = "open" => me.cmd \in IF outer = Nil THEN AppCmd ELSE {"Diagnose"}
    /\ outer # Nil => stage = "open" /\ io = "arygon" /\ outer.id < calls
    /\ signalled => stage = "open"
    /\ io = "arygon" => pipe_ok /\ stage \notin {"sam", "closing"}
    /\ io = "acr122s" => stage # "reset"
    /\ pc = "ack" => me \notin acked /\ (io = "arygon" => me.cmd \notin Raw)
    /\ pc = "receive" /\ me.cmd \notin Raw => last_command = me.cmd
    /\ \A x \in acked : x.id <= calls

\* Requests are numbered as they are made, and the reader takes them in order.
Known(c) == c.id <= calls /\ (c.id = calls => c = me)
Order ==
    /\ \A i \in 1..Txs : tx[i].kind = "request" => Known(tx[i].call) /\ (run # Nil => run.id < tx[i].call.id)
    /\ \A i \in 1..Wires : wire[i].kind # "junk" => Known(wire[i].call)
    /\ run # Nil => Known(run)
    /\ \A i, j \in 1..Txs : i < j /\ tx[i].kind = "request" /\ tx[j].kind = "request" => tx[i].call.id < tx[j].call.id
    /\ \A i \in 1..Txs, j \in 1..Wires :
          tx[i].kind = "request" /\ wire[j].kind # "junk" => wire[j].call.id < tx[i].call.id
    /\ \A i, j \in 1..Wires :
          i < j /\ wire[i].kind = "ack" /\ wire[j].kind = "reply" => wire[i].call.id <= wire[j].call.id
    /\ \A i \in 1..Wires : wire[i].kind = "ack" /\ run # Nil => wire[i].call.id <= run.id
    /\ \A i \in 1..Wires : wire[i].kind = "reply" => run # wire[i].call

\* After a call's own acknowledgement comes nothing but its own answer.
Own ==
    /\ pc = "receive" /\ me \in acked =>
          /\ \A i \in 1..Txs : tx[i].kind # "request"
          /\ \A i \in 1..Wires : wire[i].kind = "reply" => wire[i].call = me
          /\ run \in {me, Nil}
    /\ Foreign => result.call \notin acked

\* One request under way on an otherwise silent line
Sent == Txs = 1 /\ tx[1] = Request(me) /\ Wires = 0 /\ run = Nil
SteadyAck ==
    \/ Sent
    \/ /\ Txs = 0 /\ Wires <= 2 /\ run \in {me, Nil} /\ (run # Nil => Wires <= 1)
       /\ \A i \in 1..Wires : /\ wire[i] \in {Ack(me), Refusal(me), Reply(me), Junk}
                              /\ wire[i] = Refusal(me) => Wires = 1 /\ run = Nil
       /\ Wires = 2 => wire[2] = Reply(me)
       /\ lost = 0 => Wires > 0 /\ wire[1] = Ack(me)
SteadyReply ==
    \/ Sent /\ io = "arygon" /\ me.cmd \in Raw
    \/ /\ Txs = 0 /\ Wires <= 1 /\ run \in {me, Nil} /\ (run # Nil => Wires = 0)
       /\ \A i \in 1..Wires : wire[i] \in {Refusal(me), Reply(me), Junk}
       /\ lost = 0 => \A i \in 1..Wires : wire[i] = Reply(me)

\* Until a call fails, and on the ARYGON also when callers wait and nothing is
\* lost, there is one request under way, or none.
Lockstep == ~failed \/ (io = "arygon" /\ lost = 0 /\ ~hasty /\ stage = "open")
Steady ==
    /\ ~failed /\ pc = "idle" => Txs = 0 /\ Wires = 0 /\ run = Nil
    /\ Lockstep /\ outer = Nil => (pc = "ack" => SteadyAck) /\ (pc = "receive" => SteadyReply)
    /\ Foreign => failed

\* Without haste, an answer to an earlier call comes before the acknowledgement,
\* but for the blocking command that goes on when a request is refused.
TwoFaults == io = "arygon" /\ lost > 1
SettledAck ==
    /\ \A i \in 1..Txs : tx[i] = Request(me)
    /\ Txs > 0 => /\ \A i \in 1..Wires : wire[i].kind \notin {"ack", "refused"}
                  /\ io = "arygon" /\ run # Nil => lost > 0
    /\ \A i \in 1..Wires : wire[i].kind = "ack" => run \in {me, Nil} /\ \A j \in i + 1 .. Wires : wire[j] = Reply(me)
    /\ \A i \in 1..Wires : wire[i].kind = "refused" =>
          TwoFaults \/ (io = "arygon" /\ run = Nil /\ \A j \in i + 1 .. Wires : wire[j].kind # "reply")
SettledReply ==
    /\ Txs = 0
    /\ TwoFaults \/ (run \in {me, Nil} /\ \A i \in 1..Wires : wire[i].kind = "reply" => wire[i].call = me)
Settled ==
    /\ stage = "open" /\ outer = Nil /\ ~hasty => (pc = "ack" => SettledAck) /\ (pc = "receive" => SettledReply)
    /\ Foreign /\ result.call.cmd \in AppCmd => hasty \/ TwoFaults

\* On an ARYGON that lost nothing no blocking command outlives its call, but
\* that of an aborted one, which the dummy packet will end.
Fenced(i) == \E j \in i..Txs : tx[j].kind = "dummy"
Mine(c) == Busy /\ outer = Nil /\ c = me
Unreset ==
    /\ IF pc = "idle" THEN Txs = 0 ELSE Txs = 1 /\ tx[1] = Request(me)
    /\ run # Nil => run.cmd \in Blocking
    /\ \A i \in 1..Wires : wire[i].kind # "junk" => wire[i].call.cmd \in Blocking
FencedIn ==
    /\ run.cmd \in Blocking => Mine(run) \/ Fenced(1)
    /\ \A i \in 1..Txs : tx[i].kind = "request" /\ tx[i].call.cmd \in Blocking => Mine(tx[i].call) \/ Fenced(i)
Resetting == Unreset \/ (Busy /\ Txs = 0 /\ run \in {me, Nil})
Leftover ==
    io = "arygon" /\ lost = 0 /\ ~hasty =>
      /\ stage \in {"firmware", "init", "open"} => FencedIn
      /\ stage = "reset" => Resetting

\* The aborted call whose command is to end
Aborted == IF outer # Nil THEN outer
           ELSE IF pc = "idle" /\ result.outcome = "EOPABORTED" THEN result.call ELSE Nil

\* While the reader has it, or will, a dummy packet and a request follow, or one
\* of them when something was lost.
Stopped ==
    io = "arygon" /\ lost <= 1 /\ Aborted # Nil /\ (run = Aborted \/ \E i \in 1..Txs : tx[i] = Request(Aborted)) =>
      /\ Txs >= 1 /\ tx[Txs] # Request(Aborted)
      /\ lost = 0 => Txs >= 2 /\ tx[Txs - 1].kind = "dummy"

SerialInv == Typed /\ Placed /\ Order /\ Own /\ Steady /\ Settled /\ Leftover /\ Stopped

-----------------------------------------------------------------------------
(* Lines, frame by frame                                                   *)

LEMMA NoFrames ==
    ASSUME NEW S
    PROVE  <<>> \in Seq(S) /\ Len(<<>>) = 0
  OBVIOUS

LEMMA LenFacts ==
    ASSUME NEW S, NEW s \in Seq(S)
    PROVE  Len(s) \in Nat /\ (s = <<>> <=> Len(s) = 0) /\ \A i \in 1..Len(s) : s[i] \in S
  OBVIOUS

LEMMA TailFacts ==
    ASSUME NEW S, NEW s \in Seq(S), s # <<>>
    PROVE  /\ Tail(s) \in Seq(S) /\ Head(s) = s[1] /\ Len(Tail(s)) = Len(s) - 1
           /\ \A i \in 1..Len(s) - 1 : Tail(s)[i] = s[i + 1]
  <1>1. Tail(s) \in Seq(S) /\ Head(s) = s[1]
    OBVIOUS
  <1>2. Len(Tail(s)) = Len(s) - 1
    OBVIOUS
  <1>3. \A i \in 1..Len(s) - 1 : Tail(s)[i] = s[i + 1]
    OBVIOUS
  <1> QED BY <1>1, <1>2, <1>3

LEMMA AppendFacts ==
    ASSUME NEW S, NEW s \in Seq(S), NEW e \in S
    PROVE  /\ Append(s, e) \in Seq(S) /\ Len(Append(s, e)) = Len(s) + 1
           /\ Append(s, e)[Len(s) + 1] = e /\ \A i \in 1..Len(s) : Append(s, e)[i] = s[i]
  OBVIOUS

LEMMA PairFacts ==
    ASSUME NEW S, NEW s \in Seq(S), NEW a \in S, NEW b \in S
    PROVE  /\ s \o <<a, b>> \in Seq(S) /\ Len(s \o <<a, b>>) = Len(s) + 2
           /\ (s \o <<a, b>>)[Len(s) + 1] = a /\ (s \o <<a, b>>)[Len(s) + 2] = b
           /\ \A i \in 1..Len(s) : (s \o <<a, b>>)[i] = s[i]
  OBVIOUS

LEMMA PrependFacts ==
    ASSUME NEW S, NEW s \in Seq(S), NEW e \in S
    PROVE  /\ <<e>> \o s \in Seq(S) /\ Len(<<e>> \o s) = Len(s) + 1 /\ (<<e>> \o s)[1] = e
           /\ \A i \in 1..Len(s) : (<<e>> \o s)[i + 1] = s[i]
  OBVIOUS

LEMMA SuffixFacts ==
    ASSUME NEW S, NEW s \in Seq(S), NEW k \in 0..Len(s)
    PROVE  SubSeq(s, k + 1, Len(s)) \in Seq(S)
  <1> DEFINE l == Len(s)
  <1>1. l \in Nat /\ \A i \in 1..l : s[i] \in S
    BY LenFacts
  <1>2. k \in 0..l
    OBVIOUS
  <1> HIDE DEF l
  <1>3. k + 1 \in Int /\ l \in Int /\ \A i \in k + 1 .. l : s[i] \in S
    BY <1>1, <1>2
  <1>4. SubSeq(s, k + 1, l) \in Seq(S)
    BY <1>3, SubSeqProperties
  <1> QED BY <1>4 DEF l

LEMMA SuffixElements ==
    ASSUME NEW S, NEW s \in Seq(S), NEW k \in 0..Len(s)
    PROVE  /\ Len(SubSeq(s, k + 1, Len(s))) = Len(s) - k
           /\ \A i \in 1..Len(s) - k : SubSeq(s, k + 1, Len(s))[i] = s[i + k]
  <1> DEFINE l == Len(s)
             m == k + 1
  <1>1. l \in Nat /\ \A i \in 1..l : s[i] \in S
    BY LenFacts
  <1>2. k \in 0..l
    OBVIOUS
  <1> HIDE DEF l
  <1>3. m \in Int /\ l \in Int /\ \A i \in m..l : s[i] \in S
    BY <1>1, <1>2
  <1>4. m <= l + 1 /\ l - m + 1 = l - k
    BY <1>1, <1>2
  <1> HIDE DEF m
  <1>5. Len(SubSeq(s, m, l)) = IF m <= l THEN l - m + 1 ELSE 0
    BY <1>3, SubSeqProperties
  <1>6. \A i \in 1..l - m + 1 : SubSeq(s, m, l)[i] = s[m + i - 1]
    BY <1>3, SubSeqProperties, SMT
  <1>7. Len(SubSeq(s, m, l)) = l - k
    BY <1>1, <1>3, <1>4, <1>5
  <1>8. ASSUME NEW i \in 1..l - k PROVE SubSeq(s, m, l)[i] = s[i + k]
    <2>1. m + i - 1 = i + k
      BY <1>1, <1>2, <1>4 DEF m
    <2>2. i \in 1..l - m + 1
      BY <1>4
    <2> QED BY <1>6, <2>1, <2>2
  <1> QED BY <1>7, <1>8 DEF l, m

LEMMA ButLastFacts ==
    ASSUME NEW S, NEW s \in Seq(S), s # <<>>
    PROVE  /\ SubSeq(s, 1, Len(s) - 1) \in Seq(S) /\ Len(SubSeq(s, 1, Len(s) - 1)) = Len(s) - 1
           /\ \A i \in 1..Len(s) - 1 : SubSeq(s, 1, Len(s) - 1)[i] = s[i]
  <1> DEFINE l == Len(s)
             n == Len(s) - 1
             m == 1
  <1>1. l \in Nat /\ l # 0 /\ (\A i \in 1..l : s[i] \in S) /\ n = l - 1
    BY LenFacts
  <1> HIDE DEF l, n
  <1>2. m \in Int /\ n \in Int /\ m <= n + 1 /\ n - m + 1 = n /\ \A i \in m..n : s[i] \in S
    BY <1>1
  <1>3. \A i \in 1..n : m + i - 1 = i
    BY <1>1
  <1> HIDE DEF m
  <1>4. SubSeq(s, m, n) \in Seq(S)
    BY <1>2, SubSeqProperties
  <1>5. Len(SubSeq(s, m, n)) = IF m <= n THEN n - m + 1 ELSE 0
    BY <1>2, SubSeqProperties
  <1>6. \A i \in 1..n - m + 1 : SubSeq(s, m, n)[i] = s[m + i - 1]
    BY <1>2, SubSeqProperties, SMT
  <1>7. Len(SubSeq(s, m, n)) = n
    BY <1>2, <1>5
  <1>8. \A i \in 1..n : SubSeq(s, m, n)[i] = s[i]
    BY <1>2, <1>3, <1>6
  <1> QED BY <1>1, <1>4, <1>7, <1>8 DEF l, n, m

LEMMA Constants ==
    /\ Nil \notin Call /\ Nil.id = 0 /\ Nil.cmd = "none" /\ Nil.cmd \notin Blocking
    /\ Junk \in WireFrame /\ Junk.kind = "junk" /\ Dummy \in TxFrame /\ Dummy.kind = "dummy"
    /\ \A c \in Call : c.cmd \in Cmd /\ c.id \in Nat /\ c.id >= 1 /\ c # Nil /\ c.seq \in 0..SeqMod - 1
    /\ \A c \in Call : /\ Request(c) \in TxFrame /\ Request(c).kind = "request" /\ Request(c).call = c
                       /\ Ack(c) \in WireFrame /\ Ack(c).kind = "ack" /\ Ack(c).call = c
                       /\ Refusal(c) \in WireFrame /\ Refusal(c).kind = "refused" /\ Refusal(c).call = c
                       /\ Reply(c) \in WireFrame /\ Reply(c).kind = "reply" /\ Reply(c).call = c
    /\ \A f \in WireFrame : /\ f.kind \in {"ack", "refused", "reply", "junk"} /\ f.call \in Call \cup {Nil}
                            /\ (f.kind # "junk" => f.call \in Call) /\ (f.kind = "junk" => f = Junk)
                            /\ (f.kind = "ack" => f = Ack(f.call)) /\ (f.kind = "reply" => f = Reply(f.call))
                            /\ (f.kind = "refused" => f = Refusal(f.call))
    /\ \A m \in TxFrame : /\ m.kind \in {"request", "dummy"} /\ (m.kind = "request" => m.call \in Call)
                          /\ (m.kind = "request" => m = Request(m.call))
  <1>1. Nil \notin Call /\ Nil.id = 0 /\ Nil.cmd = "none" /\ Nil.cmd \notin Blocking
    <2>1. Nil.cmd = "none" /\ Nil.id = 0
      BY DEF Nil
    <2>2. "none" \notin Cmd /\ "none" \notin Blocking
      BY SerialAssumption DEF Cmd, Raw
    <2> QED BY <2>1, <2>2 DEF Call
  <1>2. Junk \in WireFrame /\ Junk.kind = "junk" /\ Dummy \in TxFrame /\ Dummy.kind = "dummy"
    BY DEF Junk, Dummy, Frame, WireFrame, TxFrame
  <1>3. ASSUME NEW c \in Call
        PROVE  c.cmd \in Cmd /\ c.id \in Nat /\ c.id >= 1 /\ c # Nil /\ c.seq \in 0..SeqMod - 1
    <2>1. MaxCalls + MaxAborts \in Nat
      BY SerialAssumption
    <2> QED BY <1>1, <2>1 DEF Call
  <1>4. ASSUME NEW c \in Call
        PROVE  /\ Request(c) \in TxFrame /\ Request(c).kind = "request" /\ Request(c).call = c
               /\ Ack(c) \in WireFrame /\ Ack(c).kind = "ack" /\ Ack(c).call = c
               /\ Refusal(c) \in WireFrame /\ Refusal(c).kind = "refused" /\ Refusal(c).call = c
               /\ Reply(c) \in WireFrame /\ Reply(c).kind = "reply" /\ Reply(c).call = c
    BY DEF Request, Ack, Refusal, Reply, Frame, TxFrame, WireFrame
  <1>5. ASSUME NEW f \in WireFrame
        PROVE  /\ f.kind \in {"ack", "refused", "reply", "junk"} /\ f.call \in Call \cup {Nil}
               /\ (f.kind # "junk" => f.call \in Call) /\ (f.kind = "junk" => f = Junk)
               /\ (f.kind = "ack" => f = Ack(f.call)) /\ (f.kind = "reply" => f = Reply(f.call))
               /\ (f.kind = "refused" => f = Refusal(f.call))
    BY DEF Junk, Ack, Refusal, Reply, Frame, WireFrame
  <1>6. ASSUME NEW m \in TxFrame
        PROVE  /\ m.kind \in {"request", "dummy"} /\ (m.kind = "request" => m.call \in Call)
               /\ (m.kind = "request" => m = Request(m.call))
    BY DEF Dummy, Request, Frame, TxFrame
  <1> QED BY <1>1, <1>2, <1>3, <1>4, <1>5, <1>6

LEMMA LineFacts ==
    ASSUME Typed
    PROVE  /\ Wires \in Nat /\ Txs \in Nat
           /\ (wire = <<>> <=> Wires = 0) /\ (tx = <<>> <=> Txs = 0)
           /\ \A i \in 1..Wires : wire[i] \in WireFrame
           /\ \A i \in 1..Txs : tx[i] \in TxFrame
  <1>1. wire \in Seq(WireFrame) /\ tx \in Seq(TxFrame)
    BY DEF Typed
  <1>2. Wires \in Nat /\ (wire = <<>> <=> Wires = 0) /\ \A i \in 1..Wires : wire[i] \in WireFrame
    BY <1>1, LenFacts DEF Wires
  <1>3. Txs \in Nat /\ (tx = <<>> <=> Txs = 0) /\ \A i \in 1..Txs : tx[i] \in TxFrame
    BY <1>1, LenFacts DEF Txs
  <1> QED BY <1>2, <1>3

\* What taking, cutting, losing and flushing frames leave of the line to the host
ShrunkBy(d) ==
    /\ d \in 0..Wires /\ wire' \in Seq(WireFrame) /\ Wires' = Wires - d
    /\ \A i \in 1..Wires' : wire'[i] = wire[i + d] \/ (i = 1 /\ wire'[i] = Junk)

LEMMA WireKept ==
    ASSUME Typed, wire' = wire
    PROVE  ShrunkBy(0)
  <1>1. Wires \in Nat /\ wire' \in Seq(WireFrame) /\ Wires' = Wires
    BY LineFacts DEF Typed, Wires
  <1>2. \A i \in 1..Wires : i + 0 = i
    BY <1>1
  <1> QED BY <1>1, <1>2 DEF ShrunkBy

LEMMA WireTaken ==
    ASSUME Typed, wire # <<>>, wire' = Tail(wire)
    PROVE  ShrunkBy(1) /\ Wires' = Wires - 1 /\ \A i \in 1..Wires' : wire'[i] = wire[i + 1]
  <1>1. wire \in Seq(WireFrame)
    BY DEF Typed
  <1>2. Wires \in Nat /\ Wires >= 1
    BY LineFacts
  <1>3. /\ wire' \in Seq(WireFrame) /\ Wires' = Wires - 1
        /\ \A i \in 1..Wires - 1 : wire'[i] = wire[i + 1]
    BY <1>1, TailFacts DEF Wires
  <1>4. 1 \in 0..Wires
    BY <1>2
  <1>5. ShrunkBy(1)
    BY <1>3, <1>4 DEF ShrunkBy
  <1> QED BY <1>3, <1>5

\* The rest of the line after k frames, the first of it cut
LEMMA WireCutAfter ==
    ASSUME Typed, NEW k \in 0..Wires, NEW r \in Seq(WireFrame), r # <<>>,
           Len(r) = Wires - k, \A i \in 1..Wires - k : r[i] = wire[i + k],
           wire' = <<Junk>> \o Tail(r)
    PROVE  ShrunkBy(k)
  <1> DEFINE t == Tail(r)
             n == Len(t)
             l == Len(r)
  <1>1. Junk \in WireFrame /\ Wires \in Nat
    BY Constants, LineFacts
  <1>2. l \in Nat /\ l # 0
    BY LenFacts
  <1>3. t \in Seq(WireFrame) /\ n = l - 1 /\ \A i \in 1..l - 1 : t[i] = r[i + 1]
    BY TailFacts
  <1> HIDE DEF t
  <1>4. wire' \in Seq(WireFrame) /\ Wires' = n + 1 /\ wire'[1] = Junk /\ \A i \in 1..n : wire'[i + 1] = t[i]
    BY <1>1, <1>3, PrependFacts DEF Wires, t
  <1>5. l = Wires - k
    OBVIOUS
  <1> HIDE DEF n, l
  <1>6. Wires' = Wires - k
    BY <1>1, <1>2, <1>3, <1>4, <1>5
  <1>7. ASSUME NEW i \in 1..Wires' PROVE wire'[i] = wire[i + k] \/ (i = 1 /\ wire'[i] = Junk)
    <2>1. CASE i = 1
      BY <2>1, <1>4
    <2>2. CASE i # 1
      <3>1. i - 1 \in 1..n /\ i - 1 \in 1..l - 1 /\ (i - 1) + 1 = i /\ i \in 1..Wires - k
        BY <1>1, <1>2, <1>3, <1>5, <1>6, <2>2
      <3>2. wire'[i] = t[i - 1] /\ t[i - 1] = r[i]
        BY <1>3, <1>4, <3>1
      <3> QED BY <3>1, <3>2
    <2> QED BY <2>1, <2>2
  <1> QED BY <1>1, <1>4, <1>6, <1>7 DEF ShrunkBy

LEMMA WireCut ==
    ASSUME Typed, wire # <<>>, wire' = <<Junk>> \o Tail(wire)
    PROVE  ShrunkBy(0)
  <1>1. wire \in Seq(WireFrame) /\ 0 \in 0..Wires /\ Len(wire) = Wires - 0
    BY LineFacts DEF Typed, Wires
  <1>2. \A i \in 1..Wires - 0 : wire[i] = wire[i + 0]
    BY LineFacts
  <1> QED BY <1>1, <1>2, WireCutAfter

LEMMA WireCleared ==
    ASSUME Typed, wire' = <<>>
    PROVE  ShrunkBy(Wires) /\ Wires' = 0
  <1>1. Wires \in Nat /\ wire' \in Seq(WireFrame) /\ Wires' = 0
    BY LineFacts, NoFrames DEF Wires
  <1> QED BY <1>1 DEF ShrunkBy

LEMMA WireGrown ==
    ASSUME Typed, NEW p \in WireFrame, wire' = Append(wire, p)
    PROVE  /\ wire' \in Seq(WireFrame) /\ Wires \in Nat /\ Wires' = Wires + 1 /\ wire'[Wires + 1] = p
           /\ \A i \in 1..Wires : wire'[i] = wire[i]
  BY LineFacts, AppendFacts DEF Typed, Wires

\* uart_flush_input leaves the end of what was there, and nothing where nothing
\* is under way.
LEMMA Flushed ==
    ASSUME Typed, NEW now, flush_input(now)
    PROVE  (\E d \in 0..Wires : ShrunkBy(d)) /\ (~now => wire' = <<>>)
  <1>0. Wires \in Nat /\ wire \in Seq(WireFrame)
    BY LineFacts DEF Typed
  <1>1. CASE wire' = <<>>
    BY <1>0, <1>1, WireCleared
  <1>2. CASE now /\ wire' # <<>>
    <2>1. PICK k \in 0..Len(wire) :
             LET rest == SubSeq(wire, k + 1, Len(wire)) IN
               wire' \in {rest} \cup (IF rest = <<>> THEN {} ELSE {<<Junk>> \o Tail(rest)})
      BY <1>2 DEF flush_input
    <2> DEFINE r == SubSeq(wire, k + 1, Len(wire))
    <2>2. r \in Seq(WireFrame) /\ Len(r) = Len(wire) - k /\ \A i \in 1..Len(wire) - k : r[i] = wire[i + k]
      BY <1>0, SuffixFacts, SuffixElements
    <2>3. wire' = r \/ (r # <<>> /\ wire' = <<Junk>> \o Tail(r))
      BY <2>1
    <2> HIDE DEF r
    <2>4. k \in 0..Wires /\ Len(r) = Wires - k /\ \A i \in 1..Wires - k : r[i] = wire[i + k]
      BY <2>2 DEF Wires
    <2>5. CASE wire' = r
      <3>1. wire' \in Seq(WireFrame) /\ Wires' = Wires - k
        BY <2>2, <2>4, <2>5 DEF Wires
      <3> QED BY <1>2, <2>4, <2>5, <3>1 DEF ShrunkBy
    <2>6. CASE r # <<>> /\ wire' = <<Junk>> \o Tail(r)
      BY <1>2, <2>2, <2>4, <2>6, WireCutAfter
    <2> QED BY <2>3, <2>5, <2>6
  <1> QED BY <1>1, <1>2 DEF flush_input

LEMMA TxTaken ==
    ASSUME Typed, tx # <<>>, tx' = Tail(tx)
    PROVE  /\ tx' \in Seq(TxFrame) /\ Head(tx) = tx[1] /\ tx[1] \in TxFrame /\ Txs \in Nat /\ Txs >= 1
           /\ Txs' = Txs - 1 /\ \A i \in 1..Txs' : tx'[i] = tx[i + 1]
  <1>1. tx \in Seq(TxFrame)
    BY DEF Typed
  <1>2. Txs \in Nat /\ Txs >= 1 /\ tx[1] \in TxFrame
    BY LineFacts
  <1>3. /\ tx' \in Seq(TxFrame) /\ Head(tx) = tx[1] /\ Txs' = Txs - 1
        /\ \A i \in 1..Txs - 1 : tx'[i] = tx[i + 1]
    BY <1>1, TailFacts DEF Txs
  <1> QED BY <1>2, <1>3

LEMMA TxGrown ==
    ASSUME Typed, NEW m \in TxFrame, tx' = Append(tx, m)
    PROVE  /\ tx' \in Seq(TxFrame) /\ Txs \in Nat /\ Txs' = Txs + 1 /\ tx'[Txs + 1] = m
           /\ \A i \in 1..Txs : tx'[i] = tx[i]
  BY LineFacts, AppendFacts DEF Typed, Txs

LEMMA TxGrownTwice ==
    ASSUME Typed, NEW a \in TxFrame, NEW b \in TxFrame, tx' = tx \o <<a, b>>
    PROVE  /\ tx' \in Seq(TxFrame) /\ Txs \in Nat /\ Txs' = Txs + 2 /\ tx'[Txs + 1] = a /\ tx'[Txs + 2] = b
           /\ \A i \in 1..Txs : tx'[i] = tx[i]
  BY LineFacts, PairFacts DEF Typed, Txs

LEMMA TxDropped ==
    ASSUME Typed, tx # <<>>, tx' = SubSeq(tx, 1, Len(tx) - 1)
    PROVE  /\ tx' \in Seq(TxFrame) /\ Txs \in Nat /\ Txs >= 1 /\ Txs' = Txs - 1
           /\ \A i \in 1..Txs' : tx'[i] = tx[i]
  <1>1. tx \in Seq(TxFrame)
    BY DEF Typed
  <1>2. Txs \in Nat /\ Txs >= 1
    BY LineFacts
  <1>3. /\ tx' \in Seq(TxFrame) /\ Txs' = Txs - 1
        /\ \A i \in 1..Txs - 1 : tx'[i] = tx[i]
    BY <1>1, ButLastFacts DEF Txs
  <1> QED BY <1>2, <1>3

-----------------------------------------------------------------------------
(* What the steps do                                                       *)

WireShrunk == \E d \in 0..Wires : ShrunkBy(d)
WireGrows(p) == /\ wire' \in Seq(WireFrame) /\ Wires' = Wires + 1 /\ wire'[Wires + 1] = p
                /\ \A i \in 1..Wires : wire'[i] = wire[i]
WireSame == wire' = wire /\ Wires' = Wires
TxSame == tx' = tx /\ Txs' = Txs
TxTakes == /\ tx' \in Seq(TxFrame) /\ Txs >= 1 /\ Txs' = Txs - 1
           /\ \A i \in 1..Txs' : tx'[i] = tx[i + 1]
TxDrops == /\ tx' \in Seq(TxFrame) /\ Txs >= 1 /\ Txs' = Txs - 1
           /\ \A i \in 1..Txs' : tx'[i] = tx[i]

Opened ==
    /\ stage = "closed" /\ stage' = IF io = "arygon" THEN "reset" ELSE "firmware"
    /\ hasty' \in BOOLEAN /\ (~hasty' => Quiet /\ Wires' = 0)
    /\ WireShrunk /\ TxSame
    /\ seq' = 0 /\ acked' = {} /\ pipe_ok' = TRUE
    /\ result' = [call |-> Nil, outcome |-> "none", from |-> Nil]
    /\ UNCHANGED <<io, pc, me, outer, last_command, signalled, failed, run, calls, aborts, lost>>

\* transceive and the requests of open and close
Requested ==
    /\ pc = "idle" /\ stage' = stage
    /\ calls < MaxCalls /\ calls' = calls + 1 /\ me' \in Call /\ me'.id = calls + 1
    /\ pc' = IF io = "arygon" /\ me'.cmd \in Raw THEN "receive" ELSE "ack"
    /\ tx' \in Seq(TxFrame) /\ Txs' = Txs + 1 /\ tx'[Txs + 1] = Request(me')
    /\ \A i \in 1..Txs : tx'[i] = tx[i]
    /\ WireShrunk
    /\ \/ stage \in DOMAIN StageCmd /\ me'.cmd = StageCmd[stage] /\ hasty' = hasty
       \/ /\ stage = "open" /\ me'.cmd \in AppCmd /\ hasty' \in BOOLEAN
          /\ (~hasty' => ~hasty /\ Quiet /\ Wires' = 0)
    /\ UNCHANGED <<io, outer, last_command, seq, signalled, result, failed, pipe_ok, acked, run, aborts, lost>>

Acknowledged ==
    /\ pc = "ack" /\ pc' = "receive" /\ Wires >= 1 /\ wire[1].kind \in {"ack", "refused"}
    /\ ShrunkBy(1) /\ Wires' = Wires - 1 /\ \A i \in 1..Wires' : wire'[i] = wire[i + 1]
    /\ TxSame /\ last_command' = me.cmd /\ seq' \in 0..SeqMod - 1
    /\ acked' = IF wire[1] = Ack(me) THEN acked \cup {me} ELSE acked
    /\ UNCHANGED <<io, stage, me, outer, signalled, result, failed, hasty, pipe_ok, run, calls, aborts, lost>>

\* A request returns.  A blocking one on a line that lost nothing does so only
\* for what it reads.
Ended ==
    /\ Busy /\ pc' = "idle" /\ outer' = Nil /\ signalled' = FALSE
    /\ stage' \in {After(TRUE), After(FALSE)}
    /\ stage = "reset" /\ stage' # "closed" => pc = "receive" /\ Wires >= 1 /\ Accepts(wire[1])
    /\ result' \in [call : Call \cup {Nil}, outcome : Outcome, from : Call \cup {Nil}]
    /\ result'.call = IF outer = Nil THEN me ELSE outer
    /\ result'.outcome # "none" /\ (outer # Nil => result'.outcome = "EOPABORTED")
    /\ io = "arygon" /\ outer = Nil => result'.outcome # "EOPABORTED"
    /\ result'.outcome = "payload" =>
          /\ pc = "receive" /\ Wires >= 1 /\ wire[1].kind = "reply" /\ result'.from = wire[1].call
          /\ Wires' = Wires - 1
    /\ failed' \in BOOLEAN /\ (~failed' => ~failed /\ outer = Nil /\ result'.outcome = "payload")
    /\ pipe_ok' \in BOOLEAN /\ (io = "arygon" => pipe_ok')
    /\ lost' \in 0..MaxLost /\ lost' >= lost
    /\ TxSame \/ (lost' = lost + 1 /\ TxDrops /\ tx[Txs] = Request(me))
    /\ WireShrunk
    /\ lost' = 0 /\ io = "arygon" /\ me.cmd \in Blocking =>
          Wires >= 1 /\ (pc = "ack" => wire[1].kind \notin {"ack", "refused"})
    /\ UNCHANGED <<io, me, last_command, seq, hasty, acked, run, calls, aborts>>

\* arygon_abort
Nested ==
    /\ signalled /\ io = "arygon" /\ signalled' = FALSE
    /\ outer' = IF outer = Nil THEN me ELSE outer
    /\ calls' = calls + 1 /\ me' \in Call /\ me'.id = calls + 1 /\ me'.cmd = "Diagnose" /\ pc' = "ack"
    /\ tx' \in Seq(TxFrame) /\ Txs' = Txs + 2 /\ tx'[Txs + 1] = Dummy /\ tx'[Txs + 2] = Request(me')
    /\ \A i \in 1..Txs : tx'[i] = tx[i]
    /\ WireShrunk
    /\ UNCHANGED <<io, stage, last_command, seq, result, failed, hasty, pipe_ok, acked, run, aborts, lost>>

\* close, abort_command and no step at all
Unmoved ==
    /\ TxSame /\ WireSame
    /\ \/ stage' = stage
       \/ stage = "open" /\ pc = "idle" /\ stage' = IF io = "arygon" THEN "closed" ELSE "closing"
    /\ aborts' \in 0..MaxAborts /\ aborts' >= aborts /\ pipe_ok' \in BOOLEAN /\ (io = "arygon" /\ pipe_ok => pipe_ok')
    /\ signalled' \in BOOLEAN
    /\ signalled' => (signalled /\ stage' = stage) \/ (stage = "open" /\ stage' = "open" /\ Busy /\ aborts' = aborts + 1)
    /\ UNCHANGED <<io, pc, me, outer, last_command, seq, result, failed, hasty, acked, run, calls, lost>>

Taken ==
    /\ TxTakes
    /\ \/ tx[1].kind = "dummy" /\ run' = Nil /\ WireSame /\ lost' = lost
       \/ /\ tx[1].kind = "request" /\ run' = tx[1].call /\ lost' = lost
          /\ IF io = "arygon" /\ tx[1].call.cmd \in Raw THEN WireSame ELSE WireGrows(Ack(tx[1].call))
       \/ /\ tx[1].kind = "request" /\ io = "arygon" /\ run' = run /\ lost < MaxLost /\ lost' = lost + 1
          /\ WireGrows(Refusal(tx[1].call))
    /\ UNCHANGED <<io, host, calls, aborts>>

Replied ==
    /\ run # Nil /\ run' = Nil /\ WireGrows(Reply(run)) /\ TxSame
    /\ UNCHANGED <<io, host, calls, aborts, lost>>

LostOne ==
    /\ lost < MaxLost /\ lost' = lost + 1
    /\ (TxTakes /\ WireSame) \/ (TxSame /\ Wires >= 1 /\ WireShrunk)
    /\ UNCHANGED <<io, host, run, calls, aborts>>

LEMMA TypeFacts ==
    ASSUME Typed
    PROVE  /\ stage \in {"closed", "open", "reset", "firmware", "sam", "init", "closing"}
           /\ pc \in {"idle", "ack", "receive"} /\ (signalled => pc # "idle")
           /\ me \in Call \cup {Nil} /\ outer \in Call \cup {Nil} /\ run \in Call \cup {Nil} /\ acked \subseteq Call
           /\ result \in [call : Call \cup {Nil}, outcome : Outcome, from : Call \cup {Nil}]
           /\ result.call \in Call \cup {Nil} /\ result.from \in Call \cup {Nil}
           /\ seq \in 0..SeqMod - 1 /\ calls \in Nat /\ lost \in Nat /\ aborts \in Nat
           /\ me.id \in Nat /\ outer.id \in Nat /\ run.id \in Nat /\ result.call.id \in Nat
  <1>1. DOMAIN StageCmd = {"reset", "firmware", "sam", "init", "closing"}
    BY DEF StageCmd
  <1>2. /\ stage \in {"closed", "open", "reset", "firmware", "sam", "init", "closing"}
        /\ pc \in {"idle", "ack", "receive"} /\ (signalled => pc # "idle")
        /\ me \in Call \cup {Nil} /\ outer \in Call \cup {Nil} /\ run \in Call \cup {Nil} /\ acked \subseteq Call
        /\ result \in [call : Call \cup {Nil}, outcome : Outcome, from : Call \cup {Nil}]
        /\ seq \in 0..SeqMod - 1 /\ calls \in Nat /\ lost \in Nat /\ aborts \in Nat
    BY <1>1, SerialAssumption DEF Typed, TypeOK, Busy
  <1>3. \A c \in Call \cup {Nil} : c.id \in Nat
    BY Constants
  <1>4. result.call \in Call \cup {Nil} /\ result.from \in Call \cup {Nil}
    BY <1>2
  <1> QED BY <1>2, <1>3, <1>4

LEMMA NewCall ==
    ASSUME Typed, NEW c \in Cmd, calls < MaxCalls + MaxAborts, Send(c)
    PROVE  /\ me' \in Call /\ me'.id = calls + 1 /\ me'.cmd = c /\ calls' = calls + 1
           /\ pc' = IF io = "arygon" /\ c \in Raw THEN "receive" ELSE "ack"
  <1>1. calls + 1 \in 1..MaxCalls + MaxAborts /\ 0 \in 0..SeqMod - 1 /\ seq \in 0..SeqMod - 1
    BY TypeFacts, SerialAssumption
  <1>2. me' \in Call
    BY <1>1 DEF Send, Call
  <1>3. me'.id = calls + 1 /\ me'.cmd = c
    BY DEF Send
  <1> QED BY <1>2, <1>3 DEF Send

LEMMA StageCmds ==
    /\ DOMAIN StageCmd = {"reset", "firmware", "sam", "init", "closing"}
    /\ StageCmd["reset"] = "ResetTama" /\ StageCmd["firmware"] = "Firmware" /\ StageCmd["sam"] = "PowerOn"
    /\ StageCmd["init"] = "Init" /\ StageCmd["closing"] = "PowerOff"
    /\ \A s \in DOMAIN StageCmd : StageCmd[s] \in Cmd \ AppCmd
    /\ "Diagnose" \in Cmd \ AppCmd /\ Blocking \subseteq AppCmd /\ AppCmd \subseteq Cmd
    /\ AppCmd \cap Raw = {} /\ "Diagnose" \notin Raw
  <1>1. DOMAIN StageCmd = {"reset", "firmware", "sam", "init", "closing"}
    BY DEF StageCmd
  <1>2. /\ StageCmd["reset"] = "ResetTama" /\ StageCmd["firmware"] = "Firmware" /\ StageCmd["sam"] = "PowerOn"
        /\ StageCmd["init"] = "Init" /\ StageCmd["closing"] = "PowerOff"
    BY DEF StageCmd
  <1>3. {"ResetTama", "Firmware", "PowerOn", "PowerOff", "Init", "Diagnose"} \subseteq Cmd \ AppCmd
    BY SerialAssumption DEF Cmd, Raw
  <1>4. Blocking \subseteq AppCmd /\ AppCmd \subseteq Cmd /\ AppCmd \cap Raw = {} /\ "Diagnose" \notin Raw
    BY SerialAssumption DEF Cmd, Raw
  <1> QED BY <1>1, <1>2, <1>3, <1>4

LEMMA SameLines ==
    /\ UNCHANGED tx => TxSame
    /\ UNCHANGED wire => WireSame
    /\ Typed /\ UNCHANGED wire => WireShrunk
  <1>1. (UNCHANGED tx => TxSame) /\ (UNCHANGED wire => WireSame)
    BY DEF TxSame, WireSame, Txs, Wires
  <1>2. Typed /\ UNCHANGED wire => WireShrunk
    BY LineFacts, WireKept DEF WireShrunk
  <1> QED BY <1>1, <1>2

LEMMA OpenStep ==
    ASSUME Typed, Placed, open
    PROVE  Opened
  <1>1. (hasty' <=> ~Quiet) /\ hasty' \in BOOLEAN
    <2>1. hasty' = ~Quiet
      BY DEF open
    <2> QED BY <2>1, Zenon DEF Quiet
  <1>2. WireShrunk /\ (~hasty' => Wires' = 0)
    <2>1. flush_input(hasty')
      BY DEF open
    <2>2. WireShrunk /\ (~hasty' => wire' = <<>>)
      BY <2>1, Flushed DEF WireShrunk
    <2> QED BY <2>2, WireCleared
  <1>3. TxSame
    BY SameLines DEF open
  <1> QED BY <1>1, <1>2, <1>3 DEF open, Opened

LEMMA RequestStep ==
    ASSUME Typed, Placed, stage_request \/ \E c \in AppCmd : transceive(c)
    PROVE  Requested
  <1>1. calls < MaxCalls /\ calls < MaxCalls + MaxAborts
    BY TypeFacts, SerialAssumption DEF stage_request, transceive
  <1>2. ASSUME NEW c \in Cmd, Send(c), tx' = Append(tx, Frame("request", me'))
        PROVE  /\ calls' = calls + 1 /\ me' \in Call /\ me'.id = calls + 1 /\ me'.cmd = c
               /\ pc' = IF io = "arygon" /\ me'.cmd \in Raw THEN "receive" ELSE "ack"
               /\ tx' \in Seq(TxFrame) /\ Txs' = Txs + 1 /\ tx'[Txs + 1] = Request(me')
               /\ \A i \in 1..Txs : tx'[i] = tx[i]
    <2>1. /\ calls' = calls + 1 /\ me' \in Call /\ me'.id = calls + 1 /\ me'.cmd = c
          /\ pc' = IF io = "arygon" /\ me'.cmd \in Raw THEN "receive" ELSE "ack"
      BY <1>1, <1>2, NewCall
    <2>2. Request(me') \in TxFrame /\ tx' = Append(tx, Request(me'))
      BY <1>2, <2>1, Constants DEF Request
    <2> QED BY <2>1, <2>2, TxGrown
  <1>3. CASE stage_request
    <2>1. stage \in DOMAIN StageCmd /\ StageCmd[stage] \in Cmd
      BY <1>3, StageCmds DEF stage_request
    <2>2. Send(StageCmd[stage]) /\ tx' = Append(tx, Frame("request", me'))
      BY <1>3 DEF stage_request
    <2>3. WireShrunk
      <3>1. CASE stage = "init"
        <4>1. flush_input(hasty)
          BY <1>3, <3>1 DEF stage_request
        <4> QED BY <4>1, Flushed DEF WireShrunk
      <3>2. CASE stage # "init"
        BY <1>3, <3>2, SameLines DEF stage_request
      <3> QED BY <3>1, <3>2
    <2> QED BY <1>1, <1>2, <1>3, <2>1, <2>2, <2>3 DEF stage_request, Requested
  <1>4. CASE \E c \in AppCmd : transceive(c)
    <2>1. PICK c \in AppCmd : transceive(c)
      BY <1>4
    <2>2. c \in Cmd /\ Send(c) /\ tx' = Append(tx, Frame("request", me'))
      BY <2>1, StageCmds DEF transceive
    <2>3. (hasty' <=> hasty \/ ~Quiet) /\ hasty' \in BOOLEAN
      <3>1. hasty' = (hasty \/ ~Quiet)
        BY <2>1 DEF transceive
      <3> QED BY <3>1, Zenon
    <2>4. WireShrunk /\ (~hasty' => Wires' = 0)
      <3>1. flush_input(hasty')
        BY <2>1 DEF transceive
      <3>2. WireShrunk /\ (~hasty' => wire' = <<>>)
        BY <3>1, Flushed DEF WireShrunk
      <3> QED BY <3>2, WireCleared
    <2>5. me'.cmd \in AppCmd
      BY <1>2, <2>2
    <2> QED BY <1>1, <1>2, <2>1, <2>2, <2>3, <2>4, <2>5 DEF transceive, Requested
  <1> QED BY <1>3, <1>4

LEMMA Returned ==
    ASSUME Typed, Placed, Busy, NEW o \in Outcome \ {"none"}, NEW f \in Call \cup {Nil}, Return(o, f)
    PROVE  /\ pc' = "idle" /\ outer' = Nil /\ signalled' = FALSE
           /\ stage' \in {After(TRUE), After(FALSE)} /\ (stage = "reset" /\ o # "payload" => stage' = "closed")
           /\ result' \in [call : Call \cup {Nil}, outcome : Outcome, from : Call \cup {Nil}]
           /\ result'.call = (IF outer = Nil THEN me ELSE outer)
           /\ outer = Nil => result'.outcome = o /\ result'.from = f
           /\ outer # Nil => result'.outcome = "EOPABORTED"
           /\ failed' \in BOOLEAN /\ (~failed' => ~failed /\ outer = Nil /\ o = "payload")
  <1>1. me \in Call \cup {Nil} /\ outer \in Call \cup {Nil}
    BY TypeFacts
  <1>2. result' = IF outer = Nil THEN [call |-> me, outcome |-> o, from |-> f]
                  ELSE [call |-> outer, outcome |-> "EOPABORTED", from |-> Nil]
    BY DEF Return
  <1>3. /\ result'.call = (IF outer = Nil THEN me ELSE outer)
        /\ outer = Nil => result'.outcome = o /\ result'.from = f
        /\ outer # Nil => result'.outcome = "EOPABORTED"
    BY <1>2
  <1>4. result' \in [call : Call \cup {Nil}, outcome : Outcome, from : Call \cup {Nil}]
    BY <1>1, <1>2 DEF Outcome
  <1>5. failed' \in BOOLEAN /\ (failed' <=> failed \/ result'.outcome # "payload")
    <2>1. failed' = (failed \/ result'.outcome # "payload")
      BY DEF Return
    <2> QED BY <2>1, Zenon
  <1>6. stage' = After(o = "payload")
    BY DEF Return
  <1>7. stage' \in {After(TRUE), After(FALSE)}
    <2>1. CASE o = "payload"
      <3>1. After(o = "payload") = After(TRUE)
        BY <2>1 DEF After
      <3> QED BY <1>6, <3>1
    <2>2. CASE o # "payload"
      <3>1. After(o = "payload") = After(FALSE)
        BY <2>2 DEF After
      <3> QED BY <1>6, <3>1
    <2> QED BY <2>1, <2>2
  <1>8. stage = "reset" /\ o # "payload" => stage' = "closed"
    BY <1>6 DEF After
  <1>9. ~failed' => ~failed /\ outer = Nil /\ o = "payload"
    BY <1>3, <1>5
  <1> QED BY <1>3, <1>4, <1>5, <1>7, <1>8, <1>9 DEF Return

LEMMA FirstFrame ==
    ASSUME Typed, wire # <<>>
    PROVE  Wires \in Nat /\ Wires >= 1 /\ Head(wire) = wire[1] /\ wire[1] \in WireFrame
  <1>1. wire \in Seq(WireFrame)
    BY DEF Typed
  <1> QED BY <1>1, LineFacts, TailFacts

LEMMA AckStep ==
    ASSUME Typed, Placed, recv_ack
    PROVE  Acknowledged \/ Ended
  <1>0. Wires \in Nat /\ Wires >= 1 /\ Head(wire) = wire[1] /\ wire[1] \in WireFrame
    BY FirstFrame DEF recv_ack
  <1>1. TxSame
    BY SameLines DEF recv_ack
  <1>2. CASE Head(wire).kind \in {"ack", "refused"}
    <2>1. /\ ShrunkBy(1) /\ Wires' = Wires - 1 /\ \A i \in 1..Wires' : wire'[i] = wire[i + 1]
      BY <1>2, WireTaken DEF recv_ack
    <2>2. seq' \in 0..SeqMod - 1
      <3>1. me \in Call \cup {Nil} /\ seq \in 0..SeqMod - 1 /\ SeqMod \in Nat /\ SeqMod > 0
        BY TypeFacts, SerialAssumption
      <3>2. me.seq \in Nat
        BY <3>1, Constants DEF Nil
      <3>3. (me.seq + 1) % SeqMod \in 0..SeqMod - 1
        BY <3>1, <3>2
      <3> QED BY <1>2, <3>1, <3>3 DEF recv_ack
    <2>3. acked' = IF wire[1] = Ack(me) THEN acked \cup {me} ELSE acked
      BY <1>0, <1>2 DEF recv_ack, Ack
    <2> QED BY <1>0, <1>1, <1>2, <2>1, <2>2, <2>3 DEF recv_ack, Acknowledged
  <1>3. CASE Head(wire).kind \notin {"ack", "refused"}
    <2>1. Return("EIO", Nil) /\ Busy
      BY <1>3 DEF recv_ack, Busy
    <2>2. "EIO" \in Outcome \ {"none"} /\ Nil \in Call \cup {Nil}
      BY DEF Outcome
    <2>3. WireShrunk
      BY <1>0, <1>3, WireCut DEF recv_ack, WireShrunk
    <2>4. lost' = lost /\ lost \in 0..MaxLost /\ lost \in Nat /\ pipe_ok' = pipe_ok /\ pipe_ok \in BOOLEAN
      BY TypeFacts DEF recv_ack, Typed
    <2>5. io = "arygon" => pipe_ok'
      BY <2>4 DEF Placed
    <2>6. /\ pc' = "idle" /\ outer' = Nil /\ signalled' = FALSE
          /\ stage' \in {After(TRUE), After(FALSE)} /\ (stage = "reset" => stage' = "closed")
          /\ result' \in [call : Call \cup {Nil}, outcome : Outcome, from : Call \cup {Nil}]
          /\ result'.call = (IF outer = Nil THEN me ELSE outer)
          /\ outer = Nil => result'.outcome = "EIO"
          /\ outer # Nil => result'.outcome = "EOPABORTED"
          /\ failed' \in BOOLEAN /\ failed'
      BY <2>1, <2>2, Returned
    <2>7. UNCHANGED <<io, me, last_command, seq, hasty, acked, run, calls, aborts>>
      BY <1>3 DEF recv_ack
    <2>8. lost' \in 0..MaxLost /\ lost' >= lost /\ pipe_ok' \in BOOLEAN
      BY <2>4
    <2>9. /\ result'.outcome # "none" /\ (io = "arygon" /\ outer = Nil => result'.outcome # "EOPABORTED")
          /\ result'.outcome # "payload"
      BY <2>6
    <2> QED BY <1>0, <1>1, <1>3, <2>1, <2>3, <2>5, <2>6, <2>7, <2>8, <2>9 DEF Ended
  <1> QED BY <1>2, <1>3 DEF recv_ack

\* The returns other than those of recv_ack and receive
LEMMA GiveUp ==
    ASSUME Typed, Placed, Busy, NEW o \in {"EIO", "ETIMEOUT", "EOPABORTED"}, Return(o, Nil),
           o = "EOPABORTED" => io = "acr122s",
           UNCHANGED <<io, me, last_command, seq, hasty, acked, wire, run, calls, aborts>>,
           pipe_ok' \in BOOLEAN, io = "arygon" => pipe_ok', lost' \in 0..MaxLost, lost' >= lost,
           TxSame \/ (lost' = lost + 1 /\ TxDrops /\ tx[Txs] = Request(me)),
           ~(lost' = 0 /\ io = "arygon" /\ me.cmd \in Blocking)
    PROVE  Ended
  <1>1. o \in Outcome \ {"none"} /\ Nil \in Call \cup {Nil} /\ o # "payload"
    BY DEF Outcome
  <1>2. /\ pc' = "idle" /\ outer' = Nil /\ signalled' = FALSE
        /\ stage' \in {After(TRUE), After(FALSE)} /\ (stage = "reset" => stage' = "closed")
        /\ result' \in [call : Call \cup {Nil}, outcome : Outcome, from : Call \cup {Nil}]
        /\ result'.call = (IF outer = Nil THEN me ELSE outer)
        /\ outer = Nil => result'.outcome = o
        /\ outer # Nil => result'.outcome = "EOPABORTED"
        /\ failed' \in BOOLEAN /\ failed'
    BY <1>1, Returned
  <1>3. WireShrunk
    BY SameLines
  <1>4. /\ result'.outcome # "none" /\ result'.outcome # "payload"
        /\ io = "arygon" /\ outer = Nil => result'.outcome # "EOPABORTED"
    BY <1>1, <1>2
  <1> QED BY <1>2, <1>3, <1>4 DEF Ended

LEMMA TimeoutStep ==
    ASSUME Typed, Placed, timeout
    PROVE  Ended
  <1> DEFINE o == IF io = "acr122s" /\ pc = "receive" THEN "EIO" ELSE "ETIMEOUT"
  <1>1. TxSame /\ lost' = lost /\ pipe_ok' = pipe_ok /\ Busy /\ Return(o, Nil)
    BY SameLines DEF timeout
  <1>5. o \in {"EIO", "ETIMEOUT"}
    OBVIOUS
  <1>2. lost' \in 0..MaxLost /\ lost' >= lost /\ pipe_ok' \in BOOLEAN
    BY <1>1, TypeFacts DEF Typed
  <1>3. me.cmd \notin Blocking
    BY DEF timeout, Timed
  <1>4. io = "arygon" => pipe_ok'
    BY <1>1 DEF Placed
  <1>6. UNCHANGED <<io, me, last_command, seq, hasty, acked, wire, run, calls, aborts>>
    BY DEF timeout
  <1> HIDE DEF o
  <1> QED BY <1>1, <1>2, <1>3, <1>4, <1>5, <1>6, GiveUp

LEMMA BadPipeStep ==
    ASSUME Typed, Placed, bad_pipe
    PROVE  Ended
  <1>1. TxSame /\ lost' = lost /\ pipe_ok' = pipe_ok /\ Busy /\ Return("EIO", Nil) /\ ~pipe_ok
    BY SameLines DEF bad_pipe, BadPipe, Abortable, Busy
  <1>2. lost' \in 0..MaxLost /\ lost' >= lost /\ pipe_ok' \in BOOLEAN
    BY <1>1, TypeFacts DEF Typed
  <1>3. io # "arygon"
    BY <1>1 DEF Placed
  <1> QED BY <1>1, <1>2, <1>3, GiveUp DEF bad_pipe

LEMMA IoErrorStep ==
    ASSUME Typed, Placed, io_error
    PROVE  Ended
  <1>1. lost' = lost + 1 /\ pipe_ok' = pipe_ok /\ Busy /\ Return("EIO", Nil) /\ lost < MaxLost
    BY DEF io_error
  <1>2. lost' \in 0..MaxLost /\ lost' >= lost /\ pipe_ok' \in BOOLEAN /\ lost' # 0
    BY <1>1, TypeFacts, SerialAssumption DEF Typed
  <1>3. io = "arygon" => pipe_ok'
    BY <1>1 DEF Placed
  <1>4. TxSame \/ (TxDrops /\ tx[Txs] = Request(me))
    <2>1. CASE tx' = tx
      BY <2>1, SameLines
    <2>2. CASE tx' # tx
      <3>1. tx # <<>> /\ tx[Len(tx)] = Frame("request", me) /\ tx' = SubSeq(tx, 1, Len(tx) - 1)
        BY <2>2 DEF io_error
      <3>2. TxDrops
        BY <3>1, TxDropped DEF TxDrops
      <3> QED BY <3>1, <3>2 DEF Txs, Request
    <2> QED BY <2>1, <2>2
  <1> QED BY <1>1, <1>2, <1>3, <1>4, GiveUp DEF io_error

LEMMA AbortedStep ==
    ASSUME Typed, Placed, aborted
    PROVE  Ended \/ Nested
  <1>0. signalled /\ Busy /\ lost' = lost /\ lost' \in 0..MaxLost /\ lost' >= lost /\ me \in Call \cup {Nil}
    BY TypeFacts DEF aborted, Typed, Busy
  <1>1. CASE io = "acr122s"
    <2>1. Return("EOPABORTED", Nil) /\ pipe_ok' \in BOOLEAN /\ UNCHANGED <<me, tx, wire, calls>>
      BY <1>1 DEF aborted
    <2>2. TxSame
      BY <2>1, SameLines
    <2> QED BY <1>0, <1>1, <2>1, <2>2, GiveUp DEF aborted
  <1>2. CASE io = "arygon"
    <2>1. /\ Send("Diagnose") /\ flush_input(TRUE) /\ tx' = tx \o <<Frame("dummy", Nil), Frame("request", me')>>
          /\ signalled' = FALSE /\ outer' = IF outer = Nil THEN me ELSE outer
          /\ UNCHANGED <<stage, pipe_ok, result, failed>>
      BY <1>2 DEF aborted
    <2>2. "Diagnose" \in Cmd /\ "Diagnose" \notin Raw
      BY StageCmds
    <2>3. calls < MaxCalls + MaxAborts
      BY <1>0, SerialAssumption DEF Typed
    <2>4. /\ me' \in Call /\ me'.id = calls + 1 /\ me'.cmd = "Diagnose" /\ calls' = calls + 1 /\ pc' = "ack"
      BY <2>1, <2>2, <2>3, NewCall
    <2>5. Dummy \in TxFrame /\ Request(me') \in TxFrame /\ tx' = tx \o <<Dummy, Request(me')>>
      BY <2>1, <2>4, Constants DEF Dummy, Request
    <2>6. /\ tx' \in Seq(TxFrame) /\ Txs' = Txs + 2 /\ tx'[Txs + 1] = Dummy /\ tx'[Txs + 2] = Request(me')
          /\ \A i \in 1..Txs : tx'[i] = tx[i]
      BY <2>5, TxGrownTwice
    <2>7. WireShrunk
      BY <2>1, Flushed DEF WireShrunk
    <2> QED BY <1>0, <1>2, <2>1, <2>4, <2>6, <2>7 DEF aborted, Nested
  <1> QED BY <1>1, <1>2 DEF aborted

\* An answer that is refused, or the rest of one that was cut
LEMMA Refused ==
    ASSUME Typed, Placed, pc = "receive", wire # <<>>, NEW o \in {"EIO", "exit"}, Return(o, Nil),
           wire' \in {Tail(wire), <<Junk>> \o Tail(wire)}, UNCHANGED <<tx, lost, pipe_ok>>,
           UNCHANGED <<io, me, last_command, seq, hasty, acked, run, calls, aborts>>
    PROVE  Ended
  <1>0. Wires \in Nat /\ Wires >= 1 /\ Head(wire) = wire[1] /\ wire[1] \in WireFrame
    BY FirstFrame
  <1>1. TxSame /\ Busy
    BY SameLines DEF Busy
  <1>2. lost' = lost /\ lost \in 0..MaxLost /\ lost \in Nat /\ pipe_ok' = pipe_ok /\ pipe_ok \in BOOLEAN
    BY TypeFacts DEF Typed
  <1>3. io = "arygon" => pipe_ok'
    BY <1>2 DEF Placed
  <1>4. o \in Outcome \ {"none"} /\ Nil \in Call \cup {Nil} /\ o # "payload" /\ o # "EOPABORTED"
    BY DEF Outcome
  <1>5. /\ pc' = "idle" /\ outer' = Nil /\ signalled' = FALSE
        /\ stage' \in {After(TRUE), After(FALSE)} /\ (stage = "reset" => stage' = "closed")
        /\ result' \in [call : Call \cup {Nil}, outcome : Outcome, from : Call \cup {Nil}]
        /\ result'.call = (IF outer = Nil THEN me ELSE outer)
        /\ outer = Nil => result'.outcome = o
        /\ outer # Nil => result'.outcome = "EOPABORTED"
        /\ failed' \in BOOLEAN /\ failed'
    BY <1>1, <1>4, Returned
  <1>6. WireShrunk
    <2>1. CASE wire' = Tail(wire)
      <3>1. ShrunkBy(1) /\ 1 \in 0..Wires
        BY <1>0, <2>1, WireTaken
      <3> QED BY <3>1 DEF WireShrunk
    <2>2. CASE wire' = <<Junk>> \o Tail(wire)
      <3>1. ShrunkBy(0) /\ 0 \in 0..Wires
        BY <1>0, <2>2, WireCut
      <3> QED BY <3>1 DEF WireShrunk
    <2> QED BY <2>1, <2>2
  <1>7. lost' \in 0..MaxLost /\ lost' >= lost /\ pipe_ok' \in BOOLEAN
    BY <1>2
  <1>8. /\ result'.outcome # "none" /\ (io = "arygon" /\ outer = Nil => result'.outcome # "EOPABORTED")
        /\ result'.outcome # "payload"
    BY <1>4, <1>5
  <1> QED BY <1>0, <1>1, <1>3, <1>5, <1>6, <1>7, <1>8 DEF Ended

LEMMA ReceiveStep ==
    ASSUME Typed, Placed, receive
    PROVE  Ended
  <1>0. Wires \in Nat /\ Wires >= 1 /\ Head(wire) = wire[1] /\ wire[1] \in WireFrame
    BY FirstFrame DEF receive
  <1>1. TxSame /\ pc = "receive" /\ Busy /\ wire # <<>>
    BY SameLines DEF receive, Busy
  <1>2. lost' = lost /\ lost \in 0..MaxLost /\ lost \in Nat /\ pipe_ok' = pipe_ok /\ pipe_ok \in BOOLEAN
    BY TypeFacts DEF receive, Typed
  <1>3. io = "arygon" => pipe_ok'
    BY <1>2 DEF Placed
  <1>4. CASE Accepts(wire[1])
    <2>1. wire' = Tail(wire) /\ Return("payload", wire[1].call)
      BY <1>0, <1>4 DEF receive
    <2>2. "payload" \in Outcome \ {"none"} /\ wire[1].call \in Call \cup {Nil} /\ wire[1].kind = "reply"
      BY <1>0, <1>4, Constants DEF Outcome, Accepts
    <2>3. /\ pc' = "idle" /\ outer' = Nil /\ signalled' = FALSE
          /\ stage' \in {After(TRUE), After(FALSE)}
          /\ result' \in [call : Call \cup {Nil}, outcome : Outcome, from : Call \cup {Nil}]
          /\ result'.call = (IF outer = Nil THEN me ELSE outer)
          /\ outer = Nil => result'.outcome = "payload" /\ result'.from = wire[1].call
          /\ outer # Nil => result'.outcome = "EOPABORTED"
          /\ failed' \in BOOLEAN /\ (~failed' => ~failed /\ outer = Nil)
      BY <1>1, <2>1, <2>2, Returned
    <2>4. WireShrunk /\ Wires' = Wires - 1
      <3>1. ShrunkBy(1) /\ Wires' = Wires - 1 /\ 1 \in 0..Wires
        BY <1>0, <1>1, <2>1, WireTaken
      <3> QED BY <3>1 DEF WireShrunk
    <2>7. UNCHANGED <<io, me, last_command, seq, hasty, acked, run, calls, aborts>>
      BY DEF receive
    <2>8. lost' \in 0..MaxLost /\ lost' >= lost /\ pipe_ok' \in BOOLEAN
      BY <1>2
    <2>9. /\ result'.outcome # "none" /\ (io = "arygon" /\ outer = Nil => result'.outcome # "EOPABORTED")
      BY <2>3
    <2> QED BY <1>0, <1>1, <1>3, <1>4, <2>2, <2>3, <2>4, <2>7, <2>8, <2>9 DEF Ended
  <1>5. CASE ~Accepts(wire[1])
    <2>1. wire' \in {Tail(wire), <<Junk>> \o Tail(wire)} /\ (Return("EIO", Nil) \/ Return("exit", Nil))
      BY <1>0, <1>5 DEF receive
    <2>2. UNCHANGED <<tx, lost, pipe_ok>> /\ UNCHANGED <<io, me, last_command, seq, hasty, acked, run, calls, aborts>>
      BY DEF receive
    <2> QED BY <1>1, <2>1, <2>2, Refused
  <1> QED BY <1>4, <1>5

LEMMA RestStep ==
    ASSUME Typed, Placed, receive_rest
    PROVE  Ended
  BY Refused DEF receive_rest

LEMMA UnmovedStep ==
    ASSUME Typed, Placed, close \/ abort_command \/ UNCHANGED vars
    PROVE  Unmoved
  <1>0. aborts \in 0..MaxAborts /\ aborts >= aborts /\ pipe_ok \in BOOLEAN /\ signalled \in BOOLEAN
    BY TypeFacts DEF Typed
  <1>1. CASE close
    <2>1. TxSame /\ WireSame
      BY <1>1, SameLines DEF close
    <2>2. ~signalled
      BY <1>1, TypeFacts DEF close
    <2> QED BY <1>0, <1>1, <2>1, <2>2 DEF close, Unmoved
  <1>2. CASE abort_command
    <2>1. TxSame /\ WireSame
      BY <1>2, SameLines DEF abort_command
    <2>2. aborts' = aborts + 1 /\ aborts' \in 0..MaxAborts /\ aborts' >= aborts
      BY <1>0, <1>2, SerialAssumption, TypeFacts DEF abort_command
    <2>3. signalled' \in BOOLEAN /\ (signalled' => signalled \/ Abortable)
      <3>1. CASE signalled' = (signalled \/ (Abortable /\ pipe_ok))
        BY <3>1, Zenon
      <3>2. CASE UNCHANGED signalled
        BY <1>0, <3>2
      <3> QED BY <1>2, <3>1, <3>2 DEF abort_command
    <2>4. Abortable => Busy
      BY DEF Abortable, Busy
    <2> QED BY <1>0, <1>2, <2>1, <2>2, <2>3, <2>4 DEF abort_command, Unmoved
  <1>3. CASE UNCHANGED vars
    <2>1. TxSame /\ WireSame
      BY <1>3, SameLines DEF vars
    <2> QED BY <1>0, <1>3, <2>1 DEF vars, host, Unmoved
  <1> QED BY <1>1, <1>2, <1>3

LEMMA TakeStep ==
    ASSUME Typed, Placed, reader_take
    PROVE  Taken
  <1>0. /\ TxTakes /\ Head(tx) = tx[1] /\ tx[1] \in TxFrame
    BY TxTaken DEF reader_take, TxTakes
  <1>1. tx[1].kind = "request" => tx[1].call \in Call
    BY <1>0, Constants
  <1>2. UNCHANGED wire => WireSame
    BY SameLines
  <1>3. CASE tx[1].kind = "dummy" /\ run' = Nil /\ UNCHANGED <<wire, lost>>
    BY <1>0, <1>2, <1>3 DEF reader_take, Taken
  <1>4. CASE /\ tx[1].kind = "request" /\ run' = tx[1].call /\ UNCHANGED lost
             /\ wire' = IF io = "arygon" /\ tx[1].call.cmd \in Raw THEN wire
                        ELSE Append(wire, Frame("ack", tx[1].call))
    <2>1. Ack(tx[1].call) \in WireFrame
      BY <1>1, <1>4, Constants
    <2>2. wire' = Append(wire, Ack(tx[1].call)) => WireGrows(Ack(tx[1].call))
      BY <2>1, WireGrown DEF WireGrows
    <2> QED BY <1>0, <1>2, <1>4, <2>2 DEF reader_take, Taken, Ack
  <1>5. CASE /\ tx[1].kind = "request" /\ io = "arygon" /\ lost < MaxLost /\ lost' = lost + 1
             /\ wire' = Append(wire, Frame("refused", tx[1].call)) /\ UNCHANGED run
    <2>1. Refusal(tx[1].call) \in WireFrame
      BY <1>1, <1>5, Constants
    <2>2. WireGrows(Refusal(tx[1].call))
      BY <1>5, <2>1, WireGrown DEF WireGrows, Refusal
    <2> QED BY <1>0, <1>5, <2>2 DEF reader_take, Taken
  <1> QED BY <1>0, <1>3, <1>4, <1>5 DEF reader_take

LEMMA ReplyStep ==
    ASSUME Typed, Placed, reader_reply
    PROVE  Replied
  <1>1. run \in Call
    BY TypeFacts DEF reader_reply
  <1>2. Reply(run) \in WireFrame /\ wire' = Append(wire, Reply(run))
    BY <1>1, Constants DEF reader_reply, Reply
  <1>3. WireGrows(Reply(run)) /\ TxSame
    BY <1>2, WireGrown, SameLines DEF WireGrows, reader_reply
  <1> QED BY <1>3 DEF reader_reply, Replied

LEMMA LoseStep ==
    ASSUME Typed, Placed, lose
    PROVE  LostOne
  <1>1. CASE tx # <<>> /\ tx' = Tail(tx) /\ UNCHANGED wire
    <2>1. TxTakes /\ WireSame
      BY <1>1, TxTaken, SameLines DEF TxTakes
    <2> QED BY <2>1 DEF lose, LostOne
  <1>2. CASE wire # <<>> /\ wire' \in {Tail(wire), <<Junk>> \o Tail(wire)} /\ UNCHANGED tx
    <2>0. Wires \in Nat /\ Wires >= 1
      BY <1>2, LineFacts
    <2>1. TxSame
      BY <1>2, SameLines
    <2>2. WireShrunk
      <3>1. CASE wire' = Tail(wire)
        <4>1. ShrunkBy(1) /\ 1 \in 0..Wires
          BY <2>0, <1>2, <3>1, WireTaken
        <4> QED BY <4>1 DEF WireShrunk
      <3>2. CASE wire' = <<Junk>> \o Tail(wire)
        <4>1. ShrunkBy(0) /\ 0 \in 0..Wires
          BY <2>0, <1>2, <3>2, WireCut
        <4> QED BY <4>1 DEF WireShrunk
      <3> QED BY <1>2, <3>1, <3>2
    <2> QED BY <2>0, <2>1, <2>2 DEF lose, LostOne
  <1> QED BY <1>1, <1>2 DEF lose

LEMMA CutStep ==
    ASSUME Typed, Placed, cut_short
    PROVE  LostOne
  <1>1. wire # <<>> /\ wire' = Tail(wire) /\ Wires \in Nat /\ Wires >= 1
    BY LineFacts DEF cut_short
  <1>2. ShrunkBy(1) /\ 1 \in 0..Wires
    BY <1>1, WireTaken
  <1>3. TxSame /\ WireShrunk
    BY <1>2, SameLines DEF cut_short, WireShrunk
  <1> QED BY <1>1, <1>3 DEF cut_short, LostOne

LEMMA Steps ==
    ASSUME Typed, Placed, [Next]_vars
    PROVE  Opened \/ Requested \/ Acknowledged \/ Ended \/ Nested \/ Unmoved \/ Taken \/ Replied \/ LostOne
  BY OpenStep, RequestStep, AckStep, TimeoutStep, BadPipeStep, IoErrorStep, AbortedStep, ReceiveStep, RestStep,
     UnmovedStep, TakeStep, ReplyStep, LoseStep, CutStep DEF Next, Host

LEMMA Flags ==
    ASSUME Typed, [Next]_vars
    PROVE  half' \in BOOLEAN /\ gone' \in BOOLEAN
  <1>1. half \in BOOLEAN /\ gone \in BOOLEAN
    BY DEF Typed, TypeOK
  <1>2. UNCHANGED <<half, gone>> \/ (half' = FALSE /\ gone' = gone) \/ (half' = FALSE /\ gone' = TRUE)
        \/ (half' = TRUE /\ gone' = gone)
    <2>1. CASE open \/ stage_request \/ close \/ (\E c \in AppCmd : transceive(c))
      BY <2>1 DEF open, stage_request, close, transceive
    <2>2. CASE recv_ack \/ receive \/ receive_rest \/ timeout
      BY <2>2 DEF recv_ack, receive, receive_rest, timeout, Return
    <2>3. CASE aborted \/ bad_pipe \/ io_error \/ abort_command
      BY <2>3 DEF aborted, bad_pipe, io_error, abort_command, Return
    <2>4. CASE reader_take \/ reader_reply \/ lose \/ cut_short
      BY <2>4 DEF reader_take, reader_reply, lose, cut_short
    <2>5. CASE UNCHANGED vars
      BY <2>5 DEF vars
    <2> QED BY <2>1, <2>2, <2>3, <2>4, <2>5 DEF Next, Host
  <1> QED BY <1>1, <1>2, Zenon

-----------------------------------------------------------------------------
(* Types, and which request each stage makes                               *)

LEMMA Stages ==
    ASSUME Typed, Placed, Ended
    PROVE  /\ stage' \in {"closed", "open", "firmware", "sam", "init", "closing"}
           /\ stage = "open" => stage' = "open"
           /\ stage' = "open" => stage \in {"init", "open"}
           /\ stage' = "firmware" => stage = "reset"
           /\ stage' = "init" => stage \in {"firmware", "sam"}
           /\ io = "arygon" => stage' \notin {"sam", "closing"}
  <1>1. stage \in {"open", "reset", "firmware", "sam", "init", "closing"} /\ io \in {"arygon", "acr122s"}
    BY TypeFacts DEF Placed, Typed, Ended, Busy
  <1>2. io = "arygon" => stage \notin {"sam", "closing"}
    BY DEF Placed
  <1>3. stage' \in {After(TRUE), After(FALSE)}
    BY DEF Ended
  <1> QED BY <1>1, <1>2, <1>3 DEF After

LEMMA MoreRoom ==
    ASSUME NEW a \in Nat, NEW b \in Nat, NEW c \in Nat, NEW d \in Nat, d >= c
    PROVE  (a <= b + c => a <= b + d) /\ (a < b + c => a < b + d)
  OBVIOUS

LEMMA TypedStep ==
    ASSUME Typed, Placed, [Next]_vars
    PROVE  Typed'
  <1> DEFINE StageSet == {"closed", "open", "reset", "firmware", "sam", "init", "closing"}
  <1>0. /\ {"closed", "open"} \cup DOMAIN StageCmd = StageSet
        /\ calls \in Nat /\ aborts \in Nat /\ lost \in Nat /\ MaxCalls \in Nat /\ MaxAborts \in Nat /\ MaxLost \in Nat
        /\ me \in Call \cup {Nil} /\ outer \in Call \cup {Nil} /\ run \in Call \cup {Nil} /\ acked \subseteq Call
        /\ signalled \in BOOLEAN /\ (signalled => pc # "idle")
    BY TypeFacts, StageCmds, SerialAssumption DEF Typed
  <1>1. ASSUME stage' \in StageSet, pc' \in {"idle", "ack", "receive"}, signalled' \in BOOLEAN,
               signalled' => pc' # "idle",
               me' \in Call \cup {Nil}, outer' \in Call \cup {Nil}, run' \in Call \cup {Nil}, acked' \subseteq Call,
               result' \in [call : Call \cup {Nil}, outcome : Outcome, from : Call \cup {Nil}],
               seq' \in 0..SeqMod - 1, io' = io, last_command' \in Cmd \cup {"none"},
               pipe_ok' \in BOOLEAN, failed' \in BOOLEAN, hasty' \in BOOLEAN,
               tx' \in Seq(TxFrame), wire' \in Seq(WireFrame),
               calls' \in Nat, aborts' \in 0..MaxAborts, lost' \in 0..MaxLost,
               me'.id = calls', calls' <= MaxCalls + aborts', signalled' => calls' < MaxCalls + aborts'
        PROVE  Typed'
    <2>1. io' \in {"arygon", "acr122s"}
      BY <1>1 DEF Typed
    <2>2. TypeOK'
      BY <1>0, <1>1, Flags DEF TypeOK, Busy
    <2> QED BY <1>1, <2>1, <2>2 DEF Typed
  <1>2. WireShrunk => wire' \in Seq(WireFrame)
    BY DEF WireShrunk, ShrunkBy
  <1>3. CASE Opened
    <2>1. result' \in [call : Call \cup {Nil}, outcome : Outcome, from : Call \cup {Nil}] /\ seq' \in 0..SeqMod - 1
      BY <1>3, SerialAssumption DEF Opened, Outcome
    <2>2. pipe_ok' \in BOOLEAN /\ hasty' \in BOOLEAN
      <3>1. pipe_ok' = TRUE /\ hasty' \in BOOLEAN
        BY <1>3 DEF Opened
      <3> QED BY <3>1, Zenon
    <2>3. stage' \in StageSet /\ wire' \in Seq(WireFrame) /\ tx' \in Seq(TxFrame) /\ acked' \subseteq Call
      BY <1>2, <1>3 DEF Opened, TxSame, Typed
    <2> QED BY <1>0, <1>1, <1>3, <2>1, <2>2, <2>3 DEF Opened, Typed, TypeOK
  <1>4. CASE Requested
    <2>1. stage' = stage /\ stage \in StageSet /\ wire' \in Seq(WireFrame) /\ tx' \in Seq(TxFrame)
      BY <1>0, <1>2, <1>4 DEF Requested, Typed, TypeOK
    <2>2. hasty' \in BOOLEAN
      <3>1. CASE hasty' = hasty
        BY <3>1 DEF Typed
      <3>2. CASE hasty' \in BOOLEAN
        BY <3>2
      <3> QED BY <1>4, <3>1, <3>2 DEF Requested
    <2>3. calls' \in Nat /\ calls' <= MaxCalls + aborts /\ ~signalled /\ me'.id = calls'
      BY <1>0, <1>4 DEF Requested
    <2>4. pc' \in {"idle", "ack", "receive"} /\ me' \in Call
      BY <1>4 DEF Requested
    <2> QED BY <1>0, <1>1, <1>4, <2>1, <2>2, <2>3, <2>4 DEF Requested, Typed, TypeOK
  <1>5. CASE Acknowledged
    <2>1. wire' \in Seq(WireFrame) /\ tx' \in Seq(TxFrame) /\ seq' \in 0..SeqMod - 1
      BY <1>5 DEF Acknowledged, ShrunkBy, TxSame, Typed
    <2>2. me \in Call
      BY <1>5 DEF Acknowledged, Placed, Busy
    <2>3. acked' \subseteq Call /\ last_command' \in Cmd
      BY <1>0, <1>5, <2>2, Constants DEF Acknowledged
    <2> QED BY <1>0, <1>1, <1>5, <2>1, <2>2, <2>3 DEF Acknowledged, Typed, TypeOK
  <1>6. CASE Ended
    <2>1. stage' \in StageSet /\ wire' \in Seq(WireFrame)
      BY <1>2, <1>6, Stages DEF Ended
    <2>2. tx' \in Seq(TxFrame)
      BY <1>6 DEF Ended, TxSame, TxDrops, Typed
    <2>3. signalled' \in BOOLEAN /\ ~signalled'
      <3>1. signalled' = FALSE
        BY <1>6 DEF Ended
      <3> QED BY <3>1, Zenon
    <2>4. pc' = "idle" /\ outer' = Nil /\ pipe_ok' \in BOOLEAN /\ failed' \in BOOLEAN /\ lost' \in 0..MaxLost
      BY <1>6 DEF Ended
    <2>5. result' \in [call : Call \cup {Nil}, outcome : Outcome, from : Call \cup {Nil}]
      BY <1>6 DEF Ended
    <2>6. UNCHANGED <<io, me, last_command, seq, hasty, acked, run, calls, aborts>>
      BY <1>6 DEF Ended
    <2> QED BY <1>0, <1>1, <2>1, <2>2, <2>3, <2>4, <2>5, <2>6 DEF Typed, TypeOK
  <1>7. CASE Nested
    <2>1. stage' = stage /\ stage \in StageSet /\ wire' \in Seq(WireFrame) /\ tx' \in Seq(TxFrame)
      BY <1>0, <1>2, <1>7 DEF Nested, Typed, TypeOK
    <2>2. signalled' \in BOOLEAN /\ ~signalled'
      <3>1. signalled' = FALSE
        BY <1>7 DEF Nested
      <3> QED BY <3>1, Zenon
    <2>3. calls' \in Nat /\ calls' <= MaxCalls + aborts /\ me'.id = calls'
      BY <1>0, <1>7 DEF Nested, Typed
    <2>4. pc' \in {"idle", "ack", "receive"} /\ me' \in Call /\ outer' \in Call \cup {Nil}
      BY <1>0, <1>7 DEF Nested
    <2> QED BY <1>0, <1>1, <1>7, <2>1, <2>2, <2>3, <2>4 DEF Nested, Typed, TypeOK
  <1>8. CASE Unmoved
    <2>1. stage' \in StageSet /\ wire' \in Seq(WireFrame) /\ tx' \in Seq(TxFrame)
      BY <1>0, <1>8 DEF Unmoved, Typed, TypeOK, TxSame, WireSame
    <2>2. aborts' \in 0..MaxAborts /\ aborts' >= aborts /\ pipe_ok' \in BOOLEAN /\ signalled' \in BOOLEAN
      BY <1>8 DEF Unmoved
    <2>3. signalled' => signalled \/ (Busy /\ aborts' = aborts + 1)
      BY <1>8 DEF Unmoved
    <2>4. UNCHANGED <<io, pc, me, outer, last_command, seq, result, failed, hasty, acked, run, calls, lost>>
      BY <1>8 DEF Unmoved
    <2>5. calls <= MaxCalls + aborts /\ (signalled => calls < MaxCalls + aborts)
      BY DEF Typed
    <2>6. calls' <= MaxCalls + aborts' /\ (signalled' => calls' < MaxCalls + aborts')
      <3>0. /\ calls' = calls /\ calls \in Nat /\ aborts \in Nat /\ aborts' \in Nat /\ MaxCalls \in Nat
            /\ aborts' >= aborts /\ calls <= MaxCalls + aborts
        BY <1>0, <2>2, <2>4, <2>5
      <3>1. calls' <= MaxCalls + aborts'
        BY <3>0, MoreRoom
      <3>2. ASSUME calls < MaxCalls + aborts PROVE calls' < MaxCalls + aborts'
        BY <3>0, <3>2, MoreRoom
      <3>3. ASSUME aborts' = aborts + 1 PROVE calls' < MaxCalls + aborts'
        BY <3>0, <3>3
      <3> QED BY <2>3, <2>5, <3>1, <3>2, <3>3
    <2>7. signalled' => pc' # "idle"
      BY <1>0, <2>3, <2>4 DEF Busy
    <2> QED BY <1>0, <1>1, <2>1, <2>2, <2>4, <2>6, <2>7 DEF Typed, TypeOK
  <1>12. /\ stage \in StageSet /\ pc \in {"idle", "ack", "receive"} /\ seq \in 0..SeqMod - 1
         /\ result \in [call : Call \cup {Nil}, outcome : Outcome, from : Call \cup {Nil}]
         /\ aborts \in 0..MaxAborts /\ me.id = calls /\ calls <= MaxCalls + aborts /\ lost \in 0..MaxLost
         /\ signalled => calls < MaxCalls + aborts
         /\ pipe_ok \in BOOLEAN /\ failed \in BOOLEAN /\ hasty \in BOOLEAN /\ last_command \in Cmd \cup {"none"}
    BY <1>0 DEF Typed, TypeOK
  <1>9. CASE Taken
    <2>1. tx' \in Seq(TxFrame) /\ wire' \in Seq(WireFrame)
      BY <1>9 DEF Taken, TxTakes, WireSame, WireGrows, Typed
    <2>2. lost' \in 0..MaxLost
      BY <1>0, <1>9 DEF Taken, Typed
    <2>3. run' \in Call \cup {Nil}
      <3>1. tx[1] \in TxFrame
        BY <1>9, LineFacts DEF Taken, TxTakes
      <3> QED BY <1>0, <1>9, <3>1, Constants DEF Taken
    <2>4. UNCHANGED <<io, host, calls, aborts>>
      BY <1>9 DEF Taken
    <2>5. UNCHANGED <<io, calls, aborts, stage, pc, me, outer, last_command, seq, signalled, pipe_ok, result, failed, hasty, acked>>
      BY <2>4 DEF host
    <2> QED BY <1>0, <1>1, <1>12, <2>1, <2>2, <2>3, <2>5
  <1>10. CASE Replied
    <2>1. tx' \in Seq(TxFrame) /\ wire' \in Seq(WireFrame) /\ run' \in Call \cup {Nil} /\ lost' = lost
      BY <1>10 DEF Replied, TxSame, WireGrows, Typed
    <2>2. UNCHANGED <<io, host, calls, aborts>>
      BY <1>10 DEF Replied
    <2>3. UNCHANGED <<io, calls, aborts, stage, pc, me, outer, last_command, seq, signalled, pipe_ok, result, failed, hasty, acked>>
      BY <2>2 DEF host
    <2> QED BY <1>0, <1>1, <1>12, <2>1, <2>3
  <1>11. CASE LostOne
    <2>1. tx' \in Seq(TxFrame) /\ wire' \in Seq(WireFrame)
      BY <1>2, <1>11 DEF LostOne, TxSame, TxTakes, WireSame, Typed
    <2>2. lost' \in 0..MaxLost
      BY <1>0, <1>11 DEF LostOne
    <2>3. UNCHANGED <<io, host, run, calls, aborts>>
      BY <1>11 DEF LostOne
    <2>4. UNCHANGED <<io, calls, aborts, stage, pc, me, outer, last_command, seq, signalled, pipe_ok, result, failed, hasty, acked>>
      BY <2>3 DEF host
    <2>5. run' = run
      BY <2>3
    <2> QED BY <1>0, <1>1, <1>12, <2>1, <2>2, <2>4, <2>5
  <1> QED BY <1>3, <1>4, <1>5, <1>6, <1>7, <1>8, <1>9, <1>10, <1>11, Steps

LEMMA PlacedStep ==
    ASSUME Typed, Placed, [Next]_vars
    PROVE  Placed'
  <1>0. /\ calls \in Nat /\ me \in Call \cup {Nil} /\ outer \in Call \cup {Nil} /\ acked \subseteq Call
        /\ me.id = calls /\ result.call.id \in Nat /\ outer.id \in Nat
        /\ stage \in {"closed", "open", "reset", "firmware", "sam", "init", "closing"}
        /\ io \in {"arygon", "acr122s"} /\ pc \in {"idle", "ack", "receive"} /\ (signalled => pc # "idle")
    BY TypeFacts DEF Typed
  <1>3. CASE Opened
    <2>1. UNCHANGED <<io, pc, me, outer, last_command, signalled, calls>> /\ pc = "idle" /\ pipe_ok'
      BY <1>3 DEF Opened, Placed
    <2>2. result'.call = Nil /\ result'.outcome = "none" /\ acked' = {} /\ stage' = IF io = "arygon" THEN "reset" ELSE "firmware"
      BY <1>3 DEF Opened
    <2>3. Nil.id = 0
      BY Constants
    <2>4. ~signalled
      BY <1>0, <2>1
    <2> QED BY <1>0, <2>1, <2>2, <2>3, <2>4 DEF Placed, Busy
  <1>4. CASE Requested
    <2>1. /\ pc = "idle" /\ stage' = stage /\ calls' = calls + 1 /\ me' \in Call /\ me'.id = calls + 1
          /\ pc' = IF io = "arygon" /\ me'.cmd \in Raw THEN "receive" ELSE "ack"
          /\ UNCHANGED <<io, outer, last_command, signalled, result, pipe_ok, acked>>
      BY <1>4 DEF Requested
    <2>2. (stage \in DOMAIN StageCmd /\ me'.cmd = StageCmd[stage]) \/ (stage = "open" /\ me'.cmd \in AppCmd)
      BY <1>4 DEF Requested
    <2>3. outer = Nil /\ ~signalled /\ stage # "closed" /\ result.call.id <= calls
      BY <1>0, <2>1, <2>2, StageCmds DEF Placed
    <2>4. \A x \in acked : x.id \in Nat /\ x.id <= calls
      BY <1>0, Constants DEF Placed
    <2>5. result'.call.id < calls' /\ result'.call.id <= calls' /\ \A x \in acked' : x.id <= calls'
      BY <1>0, <2>1, <2>3, <2>4
    <2>6. me' \notin acked'
      BY <1>0, <2>1, <2>4
    <2>7. /\ Busy' /\ stage' \in DOMAIN StageCmd => me'.cmd = StageCmd[stage']
          /\ Busy' /\ stage' = "open" => me'.cmd \in AppCmd
      BY <2>1, <2>2, StageCmds
    <2> QED BY <1>0, <2>1, <2>3, <2>5, <2>6, <2>7 DEF Placed, Busy
  <1>5. CASE Acknowledged
    <2>1. /\ pc = "ack" /\ pc' = "receive" /\ last_command' = me.cmd
          /\ UNCHANGED <<io, stage, me, outer, signalled, result, pipe_ok, calls>>
      BY <1>5 DEF Acknowledged
    <2>2. \A x \in acked' : x.id <= calls
      BY <1>0, <1>5 DEF Acknowledged, Placed
    <2> QED BY <1>0, <2>1, <2>2 DEF Placed, Busy
  <1>6. CASE Ended
    <2>1. /\ Busy /\ pc' = "idle" /\ outer' = Nil /\ signalled' = FALSE /\ (io = "arygon" => pipe_ok')
          /\ result'.call = (IF outer = Nil THEN me ELSE outer)
          /\ UNCHANGED <<io, me, last_command, acked, calls>>
      BY <1>6 DEF Ended
    <2>2. io = "arygon" => stage' \notin {"sam", "closing"}
      BY <1>6, Stages
    <2>3. io = "acr122s" => stage' # "reset"
      BY <1>6, Stages
    <2>4. result'.call.id <= calls /\ result'.call # Nil
      BY <1>0, <2>1, Constants DEF Placed
    <2>5. \A x \in acked : x.id <= calls
      BY DEF Placed
    <2> QED BY <1>0, <2>1, <2>2, <2>3, <2>4, <2>5 DEF Placed, Busy
  <1>7. CASE Nested
    <2>1. /\ signalled /\ io = "arygon" /\ signalled' = FALSE /\ outer' = (IF outer = Nil THEN me ELSE outer)
          /\ calls' = calls + 1 /\ me' \in Call /\ me'.id = calls + 1 /\ me'.cmd = "Diagnose" /\ pc' = "ack"
          /\ UNCHANGED <<io, stage, last_command, result, pipe_ok, acked>>
      BY <1>7 DEF Nested
    <2>2. stage = "open" /\ me \in Call /\ pc # "idle"
      BY <1>0, <2>1 DEF Placed, Busy
    <2>3. outer' \in Call /\ outer'.id < calls' /\ outer' # Nil
      BY <1>0, <2>1, <2>2, Constants DEF Placed
    <2>4. \A x \in acked : x.id \in Nat /\ x.id <= calls
      BY <1>0, Constants DEF Placed
    <2>5. result'.call.id < calls' /\ result'.call.id <= calls' /\ \A x \in acked' : x.id <= calls'
      BY <1>0, <2>1, <2>4 DEF Placed
    <2>6. me' \notin acked'
      BY <1>0, <2>1, <2>4
    <2>7. me'.cmd \notin Raw /\ stage' \notin DOMAIN StageCmd
      BY <2>1, <2>2, StageCmds
    <2> QED BY <1>0, <2>1, <2>2, <2>3, <2>5, <2>6, <2>7 DEF Placed, Busy
  <1>8. CASE Unmoved
    <2>1. UNCHANGED <<io, pc, me, outer, last_command, result, acked, calls>>
      BY <1>8 DEF Unmoved
    <2>2. stage' = stage \/ (stage = "open" /\ pc = "idle" /\ stage' = IF io = "arygon" THEN "closed" ELSE "closing")
      BY <1>8 DEF Unmoved
    <2>3. signalled' => (signalled /\ stage' = stage) \/ (stage = "open" /\ stage' = "open")
      BY <1>8 DEF Unmoved
    <2>4. io = "arygon" => pipe_ok'
      BY <1>8 DEF Unmoved, Placed
    <2>5. signalled' => stage' = "open"
      BY <2>3 DEF Placed
    <2> QED BY <1>0, <2>1, <2>2, <2>4, <2>5 DEF Placed, Busy
  <1>9. CASE Taken \/ Replied \/ LostOne
    <2>1. UNCHANGED <<io, host, calls>>
      BY <1>9 DEF Taken, Replied, LostOne
    <2> QED BY <2>1 DEF Placed, Busy, host
  <1> QED BY <1>3, <1>4, <1>5, <1>6, <1>7, <1>8, <1>9, Steps

-----------------------------------------------------------------------------
(* The order of requests and answers                                       *)

HostStep == Opened \/ Requested \/ Acknowledged \/ Ended \/ Nested \/ Unmoved \/ LostOne

\* What a step that is not the reader's leaves of the line to it
NewRequest == calls' = calls + 1 /\ me' \in Call /\ me'.id = calls + 1
TxMoved(e) ==
    /\ Txs' \in Nat
    /\ \A i \in 1..Txs' : \/ i + e \in 1..Txs /\ tx'[i] = tx[i + e]
                          \/ tx'[i].kind = "dummy"
                          \/ i = Txs' /\ tx'[i] = Request(me') /\ NewRequest

LEMMA HostMoves ==
    ASSUME Typed, Placed, HostStep
    PROVE  /\ run' = run /\ WireShrunk /\ (TxMoved(0) \/ TxMoved(1))
           /\ (calls' = calls /\ me' = me) \/ NewRequest
  <1>0. Txs \in Nat
    BY LineFacts
  <1>1. TxSame => TxMoved(0)
    BY <1>0 DEF TxSame, TxMoved
  <1>2. TxDrops => TxMoved(0)
    BY <1>0 DEF TxDrops, TxMoved
  <1>3. TxTakes => TxMoved(1)
    BY <1>0 DEF TxTakes, TxMoved
  <1>4. WireSame => WireShrunk
    BY SameLines DEF WireSame
  <1>5. CASE Opened
    BY <1>1, <1>5 DEF Opened
  <1>6. CASE Requested
    <2>1. Txs' = Txs + 1 /\ tx'[Txs + 1] = Request(me') /\ (\A i \in 1..Txs : tx'[i] = tx[i]) /\ NewRequest
      BY <1>6 DEF Requested, NewRequest
    <2>2. ASSUME NEW i \in 1..Txs'
          PROVE  (i + 0 \in 1..Txs /\ tx'[i] = tx[i + 0]) \/ (i = Txs' /\ tx'[i] = Request(me'))
      <3>1. i \in 1..Txs \/ i = Txs + 1
        BY <1>0, <2>1
      <3> QED BY <1>0, <2>1, <3>1
    <2>3. TxMoved(0)
      BY <1>0, <2>1, <2>2 DEF TxMoved
    <2> QED BY <1>6, <2>1, <2>3 DEF Requested
  <1>7. CASE Acknowledged
    <2>1. WireShrunk
      BY <1>7, LineFacts DEF Acknowledged, WireShrunk
    <2> QED BY <1>1, <1>7, <2>1 DEF Acknowledged
  <1>8. CASE Ended
    BY <1>1, <1>2, <1>8 DEF Ended
  <1>9. CASE Nested
    <2>1. /\ Txs' = Txs + 2 /\ tx'[Txs + 1] = Dummy /\ tx'[Txs + 2] = Request(me')
          /\ (\A i \in 1..Txs : tx'[i] = tx[i]) /\ NewRequest
      BY <1>9 DEF Nested, NewRequest
    <2>2. ASSUME NEW i \in 1..Txs'
          PROVE  \/ i + 0 \in 1..Txs /\ tx'[i] = tx[i + 0]
                 \/ tx'[i].kind = "dummy"
                 \/ i = Txs' /\ tx'[i] = Request(me')
      <3>1. i \in 1..Txs \/ i = Txs + 1 \/ i = Txs + 2
        BY <1>0, <2>1
      <3> QED BY <1>0, <2>1, <3>1, Constants
    <2>3. TxMoved(0)
      BY <1>0, <2>1, <2>2 DEF TxMoved
    <2> QED BY <1>9, <2>1, <2>3 DEF Nested
  <1>10. CASE Unmoved
    BY <1>1, <1>4, <1>10 DEF Unmoved
  <1>11. CASE LostOne
    BY <1>1, <1>3, <1>4, <1>11 DEF LostOne, host
  <1> QED BY <1>5, <1>6, <1>7, <1>8, <1>9, <1>10, <1>11 DEF HostStep

\* Where a frame that is still on a line was before
LEMMA WireBefore ==
    ASSUME Typed, NEW d \in 0..Wires, ShrunkBy(d), NEW i \in 1..Wires', wire'[i].kind # "junk"
    PROVE  i + d \in 1..Wires /\ wire'[i] = wire[i + d]
  <1>1. Wires \in Nat /\ Wires' = Wires - d
    BY LineFacts DEF ShrunkBy
  <1>2. wire'[i] # Junk
    BY Constants
  <1>3. wire'[i] = wire[i + d]
    BY <1>2 DEF ShrunkBy
  <1> QED BY <1>1, <1>3

LEMMA FrameFacts ==
    ASSUME Typed
    PROVE  /\ \A i \in 1..Txs : tx[i].kind = "request" => tx[i].call \in Call /\ tx[i].call.id \in Nat
           /\ \A i \in 1..Wires : wire[i].kind # "junk" => wire[i].call \in Call /\ wire[i].call.id \in Nat
  <1>1. \A i \in 1..Txs : tx[i] \in TxFrame
    BY LineFacts
  <1>2. \A i \in 1..Wires : wire[i] \in WireFrame
    BY LineFacts
  <1>3. \A i \in 1..Txs : tx[i].kind = "request" => tx[i].call \in Call /\ tx[i].call.id \in Nat
    BY <1>1, Constants
  <1>4. \A i \in 1..Wires : wire[i].kind # "junk" => wire[i].call \in Call /\ wire[i].call.id \in Nat
    BY <1>2, Constants
  <1> QED BY <1>3, <1>4

LEMMA OrderHost ==
    ASSUME Typed, Placed, Order, HostStep
    PROVE  Order'
  <1>0. /\ run' = run /\ calls \in Nat /\ Wires \in Nat /\ Txs \in Nat /\ run \in Call \cup {Nil} /\ run.id \in Nat
    BY HostMoves, LineFacts, TypeFacts
  <1>1. PICK d \in 0..Wires : ShrunkBy(d)
    BY HostMoves DEF WireShrunk
  <1>2. PICK e \in {0, 1} : TxMoved(e)
    BY HostMoves
  <1>3. (calls' = calls /\ me' = me) \/ NewRequest
    BY HostMoves
  <1>4. ASSUME NEW c, c.id \in Nat, Known(c)
        PROVE  c.id <= calls' /\ (c.id = calls' => c = me')
    BY <1>0, <1>3, <1>4 DEF Known, NewRequest
  <1>5. ASSUME NEW i \in 1..Wires', wire'[i].kind # "junk"
        PROVE  /\ i + d \in 1..Wires /\ wire'[i] = wire[i + d] /\ Known(wire[i + d].call)
               /\ wire[i + d].call \in Call /\ wire[i + d].call.id \in Nat
    <2>1. i + d \in 1..Wires /\ wire'[i] = wire[i + d]
      BY <1>1, <1>5, WireBefore
    <2> QED BY <1>5, <2>1, FrameFacts DEF Order
  <1>6. ASSUME NEW i \in 1..Txs', tx'[i].kind = "request"
        PROVE  \/ /\ i + e \in 1..Txs /\ tx'[i] = tx[i + e] /\ Known(tx[i + e].call)
                  /\ tx[i + e].call.id \in Nat /\ (run # Nil => run.id < tx[i + e].call.id)
               \/ i = Txs' /\ tx'[i].call = me' /\ NewRequest
    <2>1. CASE i + e \in 1..Txs /\ tx'[i] = tx[i + e]
      BY <1>6, <2>1, FrameFacts DEF Order
    <2>2. CASE i = Txs' /\ tx'[i] = Request(me') /\ NewRequest
      <3>1. me' \in Call
        BY <2>2 DEF NewRequest
      <3>2. Request(me').call = me'
        BY <3>1, Constants
      <3>3. tx'[i].call = me'
        BY <2>2, <3>2
      <3> QED BY <2>2, <3>3
    <2> QED BY <1>2, <1>6, <2>1, <2>2 DEF TxMoved
  <1>7. run # Nil => run.id <= calls' /\ (run.id = calls' => run = me') /\ run.id <= calls
    BY <1>0, <1>4 DEF Order, Known
  <1>8. ASSUME NEW i \in 1..Txs', tx'[i].kind = "request"
        PROVE  tx'[i].call.id <= calls' /\ (tx'[i].call.id = calls' => tx'[i].call = me') /\ (run # Nil => run.id < tx'[i].call.id)
    <2>1. CASE i + e \in 1..Txs /\ tx'[i] = tx[i + e] /\ Known(tx[i + e].call) /\ tx[i + e].call.id \in Nat /\ (run # Nil => run.id < tx[i + e].call.id)
      BY <1>4, <2>1
    <2>2. CASE i = Txs' /\ tx'[i].call = me' /\ NewRequest
      BY <1>0, <1>7, <2>2 DEF NewRequest
    <2> QED BY <1>6, <1>8, <2>1, <2>2
  <1>9. ASSUME NEW i \in 1..Txs', NEW j \in 1..Txs', i < j, tx'[i].kind = "request", tx'[j].kind = "request"
        PROVE  tx'[i].call.id < tx'[j].call.id
    <2>0. Txs' \in Nat
      BY <1>2 DEF TxMoved
    <2>1. i + e \in 1..Txs /\ tx'[i] = tx[i + e] /\ Known(tx[i + e].call) /\ tx[i + e].call.id \in Nat
      BY <1>6, <1>9, <2>0
    <2>2. CASE j + e \in 1..Txs /\ tx'[j] = tx[j + e]
      <3>1. i + e < j + e
        BY <1>9
      <3> QED BY <1>9, <2>1, <2>2, <3>1 DEF Order
    <2>3. CASE tx'[j].call = me' /\ NewRequest
      BY <1>0, <2>1, <2>3 DEF NewRequest, Known
    <2> QED BY <1>6, <1>9, <2>2, <2>3
  <1>10. ASSUME NEW i \in 1..Txs', NEW j \in 1..Wires', tx'[i].kind = "request", wire'[j].kind # "junk"
         PROVE  wire'[j].call.id < tx'[i].call.id
    <2>1. j + d \in 1..Wires /\ wire'[j] = wire[j + d] /\ Known(wire[j + d].call) /\ wire[j + d].call.id \in Nat
      BY <1>5, <1>10
    <2>2. CASE i + e \in 1..Txs /\ tx'[i] = tx[i + e]
      BY <1>10, <2>1, <2>2 DEF Order
    <2>3. CASE tx'[i].call = me' /\ NewRequest
      BY <1>0, <2>1, <2>3 DEF NewRequest, Known
    <2> QED BY <1>6, <1>10, <2>2, <2>3
  <1>11. ASSUME NEW i \in 1..Wires', NEW j \in 1..Wires', i < j, wire'[i].kind = "ack", wire'[j].kind = "reply"
         PROVE  wire'[i].call.id <= wire'[j].call.id
    <2>1. i + d \in 1..Wires /\ wire'[i] = wire[i + d] /\ j + d \in 1..Wires /\ wire'[j] = wire[j + d]
      BY <1>5, <1>11
    <2>2. i + d < j + d
      BY <1>0, <1>11
    <2> QED BY <1>11, <2>1, <2>2 DEF Order
  <1>12. ASSUME NEW i \in 1..Wires'
         PROVE  /\ wire'[i].kind = "ack" /\ run # Nil => wire'[i].call.id <= run.id
                /\ wire'[i].kind = "reply" => run # wire'[i].call
                /\ wire'[i].kind # "junk" => wire'[i].call.id <= calls' /\ (wire'[i].call.id = calls' => wire'[i].call = me')
    <2>1. CASE wire'[i].kind = "junk"
      BY <2>1
    <2>2. CASE wire'[i].kind # "junk"
      <3>1. i + d \in 1..Wires /\ wire'[i] = wire[i + d] /\ Known(wire[i + d].call) /\ wire[i + d].call.id \in Nat
        BY <1>5, <2>2
      <3>2. wire'[i].call.id <= calls' /\ (wire'[i].call.id = calls' => wire'[i].call = me')
        BY <1>4, <3>1
      <3> QED BY <3>1, <3>2 DEF Order
    <2> QED BY <2>1, <2>2
  <1> QED BY <1>0, <1>7, <1>8, <1>9, <1>10, <1>11, <1>12 DEF Order, Known

LEMMA OrderTaken ==
    ASSUME Typed, Placed, Order, Taken
    PROVE  Order'
  <1>0. /\ calls \in Nat /\ Wires \in Nat /\ Txs \in Nat /\ run \in Call \cup {Nil} /\ run.id \in Nat
        /\ UNCHANGED <<io, host, calls, aborts>> /\ me' = me /\ calls' = calls
    BY LineFacts, TypeFacts DEF Taken, host
  <1>1. Txs >= 1 /\ Txs' = Txs - 1 /\ \A i \in 1..Txs' : i + 1 \in 1..Txs /\ i + 1 > 1 /\ tx'[i] = tx[i + 1]
    BY <1>0 DEF Taken, TxTakes
  <1>2. tx[1] \in TxFrame /\ (tx[1].kind = "request" => tx[1].call \in Call /\ tx[1].call.id \in Nat /\ Known(tx[1].call))
    BY <1>0, <1>1, LineFacts, FrameFacts DEF Order
  \* The line to the reader
  <1>3. ASSUME NEW i \in 1..Txs', tx'[i].kind = "request"
        PROVE  /\ Known(tx'[i].call) /\ tx'[i].call.id \in Nat /\ (run # Nil => run.id < tx'[i].call.id)
               /\ tx[1].kind = "request" => tx[1].call.id < tx'[i].call.id
               /\ \A j \in 1..Wires : wire[j].kind # "junk" => wire[j].call.id < tx'[i].call.id
    <2>1. i + 1 \in 1..Txs /\ 1 < i + 1 /\ 1 \in 1..Txs /\ tx'[i] = tx[i + 1]
      BY <1>0, <1>1
    <2> QED BY <1>3, <2>1, FrameFacts DEF Order
  <1>4. ASSUME NEW i \in 1..Txs', NEW j \in 1..Txs', i < j, tx'[i].kind = "request", tx'[j].kind = "request"
        PROVE  tx'[i].call.id < tx'[j].call.id
    <2>1. i + 1 \in 1..Txs /\ j + 1 \in 1..Txs /\ i + 1 < j + 1 /\ tx'[i] = tx[i + 1] /\ tx'[j] = tx[j + 1]
      BY <1>0, <1>1, <1>4
    <2> QED BY <1>4, <2>1 DEF Order
  <1>5. me' = me /\ calls' = calls
    BY <1>0
  <1>6. CASE tx[1].kind = "dummy" /\ run' = Nil /\ WireSame
    <2>1. \A i \in 1..Wires : wire[i].kind = "reply" => wire[i].call # Nil
      BY FrameFacts, Constants
    <2>2. \A i \in 1..Wires : wire[i].kind # "junk" => Known(wire[i].call)
      BY DEF Order
    <2>3. \A i, j \in 1..Wires :
             i < j /\ wire[i].kind = "ack" /\ wire[j].kind = "reply" => wire[i].call.id <= wire[j].call.id
      BY DEF Order
    <2> QED BY <1>0, <1>3, <1>4, <1>6, <2>1, <2>2, <2>3 DEF Order, WireSame, Known
  <1>7. CASE /\ tx[1].kind = "request" /\ run' = tx[1].call
             /\ IF io = "arygon" /\ tx[1].call.cmd \in Raw THEN WireSame ELSE WireGrows(Ack(tx[1].call))
    <2>0. tx[1].call \in Call /\ tx[1].call.id \in Nat /\ Known(tx[1].call) /\ 1 \in 1..Txs /\ tx[1].call # Nil
      BY <1>0, <1>1, <1>2, <1>7, Constants
    <2>1. /\ Wires' \in Nat /\ Wires' >= Wires
          /\ \A i \in 1..Wires' : (i \in 1..Wires /\ wire'[i] = wire[i]) \/ (i = Wires + 1 /\ wire'[i] = Ack(tx[1].call))
      BY <1>0, <1>7 DEF WireSame, WireGrows
    <2>2. \A i \in 1..Wires : wire[i].kind # "junk" => wire[i].call.id < tx[1].call.id /\ Known(wire[i].call) /\ wire[i].call.id \in Nat
      BY <1>7, <2>0, FrameFacts DEF Order
    <2>3. Ack(tx[1].call).kind = "ack" /\ Ack(tx[1].call).call = tx[1].call
      BY <2>0, Constants
    <2>4. ASSUME NEW i \in 1..Wires', wire'[i].kind # "junk"
          PROVE  /\ Known(wire'[i].call) /\ wire'[i].call.id \in Nat /\ wire'[i].call.id <= tx[1].call.id
                 /\ wire'[i].kind = "reply" => wire'[i].call # tx[1].call
                 /\ wire'[i].kind = "reply" => i \in 1..Wires /\ wire'[i] = wire[i]
      BY <2>0, <2>1, <2>2, <2>3, <2>4
    <2>5. ASSUME NEW i \in 1..Txs', NEW j \in 1..Wires', tx'[i].kind = "request", wire'[j].kind # "junk"
          PROVE  wire'[j].call.id < tx'[i].call.id
      <3>1. tx[1].call.id < tx'[i].call.id /\ tx'[i].call.id \in Nat
        BY <1>3, <1>7, <2>5
      <3> QED BY <2>0, <2>4, <2>5, <3>1
    <2>6. ASSUME NEW i \in 1..Wires', NEW j \in 1..Wires', i < j, wire'[i].kind = "ack", wire'[j].kind = "reply"
          PROVE  wire'[i].call.id <= wire'[j].call.id
      <3>1. j \in 1..Wires /\ wire'[j] = wire[j]
        BY <2>4, <2>6
      <3>2. i \in 1..Wires /\ wire'[i] = wire[i]
        BY <1>0, <2>1, <2>6, <3>1
      <3> QED BY <2>6, <3>1, <3>2 DEF Order
    <2>7. \A i \in 1..Txs' : tx'[i].kind = "request" => Known(tx'[i].call) /\ (run' # Nil => run'.id < tx'[i].call.id)
      BY <1>0, <1>3, <1>7 DEF Known
    <2>8. Known(run')
      BY <1>0, <1>7, <2>0 DEF Known
    <2>9. \A i \in 1..Wires' : wire'[i].kind # "junk" => Known(wire'[i].call)
      BY <1>0, <2>4 DEF Known
    <2>10. \A i \in 1..Wires' : wire'[i].kind = "ack" /\ run' # Nil => wire'[i].call.id <= run'.id
      BY <1>7, <2>4
    <2>11. \A i \in 1..Wires' : wire'[i].kind = "reply" => run' # wire'[i].call
      BY <1>7, <2>4
    <2> QED BY <1>4, <1>5, <2>5, <2>6, <2>7, <2>8, <2>9, <2>10, <2>11 DEF Order, Known
  <1>8. CASE tx[1].kind = "request" /\ run' = run /\ WireGrows(Refusal(tx[1].call))
    <2>0. tx[1].call \in Call /\ tx[1].call.id \in Nat /\ Known(tx[1].call)
      BY <1>2, <1>8
    <2>1. /\ Wires' \in Nat
          /\ \A i \in 1..Wires' : (i \in 1..Wires /\ wire'[i] = wire[i]) \/ (i = Wires + 1 /\ wire'[i] = Refusal(tx[1].call))
      BY <1>0, <1>8 DEF WireGrows
    <2>2. Refusal(tx[1].call).kind = "refused" /\ Refusal(tx[1].call).call = tx[1].call
      BY <2>0, Constants
    <2>3. \A i \in 1..Wires' : wire'[i].kind # "junk" => Known(wire'[i].call)
      BY <1>0, <2>0, <2>1, <2>2 DEF Known, Order
    <2>4. \A i \in 1..Wires' : wire'[i].kind \in {"ack", "reply"} => i \in 1..Wires /\ wire'[i] = wire[i]
      BY <2>1, <2>2
    <2>5. ASSUME NEW i \in 1..Txs', NEW j \in 1..Wires', tx'[i].kind = "request", wire'[j].kind # "junk"
          PROVE  wire'[j].call.id < tx'[i].call.id
      BY <1>3, <1>8, <2>1, <2>2, <2>5
    <2>6. ASSUME NEW i \in 1..Wires', NEW j \in 1..Wires', i < j, wire'[i].kind = "ack", wire'[j].kind = "reply"
          PROVE  wire'[i].call.id <= wire'[j].call.id
      BY <2>4, <2>6 DEF Order
    <2>7. \A i \in 1..Txs' : tx'[i].kind = "request" => Known(tx'[i].call) /\ (run' # Nil => run'.id < tx'[i].call.id)
      BY <1>0, <1>3, <1>8 DEF Known
    <2>8. run' # Nil => Known(run')
      BY <1>0, <1>8 DEF Known, Order
    <2>9. \A i \in 1..Wires' : wire'[i].kind = "ack" /\ run' # Nil => wire'[i].call.id <= run'.id
      BY <1>8, <2>4 DEF Order
    <2>10. \A i \in 1..Wires' : wire'[i].kind = "reply" => run' # wire'[i].call
      BY <1>8, <2>4 DEF Order
    <2> QED BY <1>4, <1>5, <2>3, <2>5, <2>6, <2>7, <2>8, <2>9, <2>10 DEF Order, Known
  <1> QED BY <1>6, <1>7, <1>8 DEF Taken

LEMMA OrderReplied ==
    ASSUME Typed, Placed, Order, Replied
    PROVE  Order'
  <1>0. /\ calls \in Nat /\ Wires \in Nat /\ Txs \in Nat /\ run \in Call /\ run.id \in Nat /\ Known(run)
        /\ me' = me /\ calls' = calls /\ run' = Nil /\ TxSame /\ WireGrows(Reply(run))
    BY LineFacts, TypeFacts DEF Replied, host, Order
  <1>1. /\ Wires' \in Nat
        /\ \A i \in 1..Wires' : (i \in 1..Wires /\ wire'[i] = wire[i]) \/ (i = Wires + 1 /\ wire'[i] = Reply(run))
    BY <1>0 DEF WireGrows
  <1>2. Reply(run).kind = "reply" /\ Reply(run).call = run
    BY <1>0, Constants
  <1>3. \A i \in 1..Wires' : wire'[i].kind # "junk" => Known(wire'[i].call)
    BY <1>0, <1>1, <1>2 DEF Known, Order
  <1>4. ASSUME NEW i \in 1..Txs', NEW j \in 1..Wires', tx'[i].kind = "request", wire'[j].kind # "junk"
        PROVE  wire'[j].call.id < tx'[i].call.id
    <2>1. i \in 1..Txs /\ tx'[i] = tx[i]
      BY <1>0 DEF TxSame
    <2>2. run # Nil
      BY <1>0, Constants
    <2> QED BY <1>1, <1>2, <1>4, <2>1, <2>2 DEF Order
  <1>5. ASSUME NEW i \in 1..Wires', NEW j \in 1..Wires', i < j, wire'[i].kind = "ack", wire'[j].kind = "reply"
        PROVE  wire'[i].call.id <= wire'[j].call.id
    <2>1. i \in 1..Wires /\ wire'[i] = wire[i]
      BY <1>0, <1>1, <1>2, <1>5
    <2>2. run # Nil
      BY <1>0, Constants
    <2> QED BY <1>1, <1>2, <1>5, <2>1, <2>2 DEF Order
  <1>6. \A i \in 1..Txs' : tx'[i].kind = "request" => Known(tx'[i].call)
    BY <1>0 DEF Known, Order, TxSame
  <1>7. \A i, j \in 1..Txs' : i < j /\ tx'[i].kind = "request" /\ tx'[j].kind = "request" => tx'[i].call.id < tx'[j].call.id
    BY <1>0 DEF Order, TxSame
  <1>8. \A i \in 1..Wires' : wire'[i].kind = "reply" => wire'[i].call # Nil
    BY <1>0, <1>1, <1>2, FrameFacts, Constants
  <1> QED BY <1>0, <1>3, <1>4, <1>5, <1>6, <1>7, <1>8 DEF Order, Known

LEMMA OrderStep ==
    ASSUME Typed, Placed, Order, [Next]_vars
    PROVE  Order'
  BY Steps, OrderHost, OrderTaken, OrderReplied DEF HostStep

-----------------------------------------------------------------------------
(* A call that has read its acknowledgement                                *)

LEMMA OwnStep ==
    ASSUME Typed, Placed, Order, Own, [Next]_vars
    PROVE  Own'
  <1>0. /\ calls \in Nat /\ Wires \in Nat /\ Txs \in Nat /\ run \in Call \cup {Nil} /\ acked \subseteq Call
        /\ me.id = calls /\ run.id \in Nat
    BY LineFacts, TypeFacts DEF Typed
  <1>1. \A x \in acked : x.id \in Nat /\ x.id <= calls
    BY <1>0, Constants DEF Placed
  <1>2. CASE Opened
    <2>1. pc' = "idle" /\ result'.outcome = "none"
      BY <1>2 DEF Opened, Placed
    <2> QED BY <2>1 DEF Own, Foreign
  <1>3. CASE Requested
    <2>1. me'.id = calls + 1 /\ UNCHANGED <<acked, result>>
      BY <1>3 DEF Requested
    <2>2. me' \notin acked
      BY <1>0, <1>1, <2>1
    <2> QED BY <2>1, <2>2 DEF Own, Foreign
  <1>4. CASE Acknowledged
    <2>1. /\ pc = "ack" /\ Wires >= 1 /\ TxSame /\ UNCHANGED <<me, run, result, calls>>
          /\ Wires' = Wires - 1 /\ \A i \in 1..Wires' : wire'[i] = wire[i + 1]
          /\ acked' = IF wire[1] = Ack(me) THEN acked \cup {me} ELSE acked
      BY <1>4 DEF Acknowledged
    <2>2. me \in Call /\ me \notin acked /\ result.call.id < calls /\ result.call.id \in Nat
      BY <2>1, TypeFacts DEF Placed, Busy
    <2>3. ASSUME wire[1] = Ack(me)
          PROVE  /\ \A i \in 1..Txs : tx[i].kind # "request"
                 /\ \A i \in 1..Wires' : wire'[i].kind = "reply" => wire'[i].call = me
                 /\ run \in {me, Nil}
      <3>1. wire[1].kind = "ack" /\ wire[1].call = me /\ 1 \in 1..Wires
        BY <1>0, <2>1, <2>2, <2>3, Constants
      <3>2. ASSUME NEW i \in 1..Txs, tx[i].kind = "request" PROVE FALSE
        <4>1. me.id < tx[i].call.id /\ tx[i].call.id <= calls /\ tx[i].call.id \in Nat
          BY <3>1, <3>2, FrameFacts DEF Order, Known
        <4> QED BY <1>0, <4>1
      <3>3. ASSUME NEW i \in 1..Wires', wire'[i].kind = "reply" PROVE wire'[i].call = me
        <4>1. i + 1 \in 1..Wires /\ 1 < i + 1 /\ wire'[i] = wire[i + 1]
          BY <1>0, <2>1
        <4>2. me.id <= wire[i + 1].call.id /\ wire[i + 1].call.id \in Nat /\ Known(wire[i + 1].call)
          BY <3>1, <3>3, <4>1, FrameFacts DEF Order
        <4> QED BY <1>0, <4>1, <4>2 DEF Known
      <3>4. run # Nil => run = me
        BY <1>0, <3>1 DEF Order, Known
      <3> QED BY <1>0, <3>2, <3>3, <3>4
    <2>4. result.call # me
      BY <1>0, <2>2
    <2>5. Foreign' => result'.call \notin acked'
      BY <2>1, <2>4 DEF Own, Foreign
    <2>6. me' \in acked' => wire[1] = Ack(me)
      BY <2>1, <2>2
    <2> QED BY <2>1, <2>3, <2>5, <2>6 DEF Own, TxSame
  <1>5. CASE Ended
    <2>1. pc' = "idle" /\ UNCHANGED acked /\ result'.call = (IF outer = Nil THEN me ELSE outer)
      BY <1>5 DEF Ended
    <2>2. outer # Nil => result'.outcome # "payload"
      BY <1>5 DEF Ended
    <2>3. result'.outcome = "payload" =>
             pc = "receive" /\ Wires >= 1 /\ wire[1].kind = "reply" /\ result'.from = wire[1].call
      BY <1>5 DEF Ended
    <2>4. Foreign' => result'.call \notin acked'
      BY <1>0, <2>1, <2>2, <2>3 DEF Own, Foreign
    <2> QED BY <2>1, <2>4 DEF Own
  <1>6. CASE Nested
    <2>1. pc' = "ack" /\ UNCHANGED <<acked, result>>
      BY <1>6 DEF Nested
    <2> QED BY <2>1 DEF Own, Foreign
  <1>7. CASE Unmoved
    <2>1. TxSame /\ WireSame /\ UNCHANGED <<pc, me, result, acked, run>>
      BY <1>7 DEF Unmoved
    <2> QED BY <2>1 DEF Own, Foreign, TxSame, WireSame
  <1>8. CASE Taken
    <2>1. UNCHANGED <<pc, me, result, acked>>
      BY <1>8 DEF Taken, host
    <2>2. Txs >= 1 /\ Txs' = Txs - 1 /\ \A i \in 1..Txs' : tx'[i] = tx[i + 1] /\ i + 1 \in 1..Txs
      BY <1>0, <1>8 DEF Taken, TxTakes
    <2>3. ASSUME pc = "receive", me \in acked
          PROVE  /\ \A i \in 1..Txs' : tx'[i].kind # "request"
                 /\ \A i \in 1..Wires' : wire'[i].kind = "reply" => wire'[i].call = me
                 /\ run' \in {me, Nil}
      <3>1. tx[1].kind # "request"
        BY <1>0, <2>2, <2>3 DEF Own
      <3>2. run' = Nil /\ WireSame
        BY <1>8, <3>1 DEF Taken
      <3> QED BY <2>2, <2>3, <3>2 DEF Own, WireSame
    <2> QED BY <2>1, <2>3 DEF Own, Foreign
  <1>9. CASE Replied
    <2>1. UNCHANGED <<pc, me, result, acked>> /\ TxSame /\ run # Nil /\ run' = Nil
      BY <1>9 DEF Replied, host
    <2>2. \A i \in 1..Wires' : (i \in 1..Wires /\ wire'[i] = wire[i]) \/ wire'[i] = Reply(run)
      BY <1>0, <1>9 DEF Replied, WireGrows
    <2>3. Reply(run).call = run
      BY <1>0, <2>1, Constants
    <2> QED BY <2>1, <2>2, <2>3 DEF Own, Foreign, TxSame
  <1>10. CASE LostOne
    <2>1. UNCHANGED <<pc, me, result, acked, run>>
      BY <1>10 DEF LostOne, host
    <2>2. PICK d \in 0..Wires : ShrunkBy(d)
      BY <1>10, HostMoves DEF HostStep, WireShrunk
    <2>3. \A i \in 1..Wires' : wire'[i].kind = "reply" => i + d \in 1..Wires /\ wire'[i] = wire[i + d]
      BY <2>2, WireBefore
    <2>4. \A i \in 1..Txs' : \E j \in 1..Txs : tx'[i] = tx[j]
      <3>1. TxSame => \A i \in 1..Txs' : \E j \in 1..Txs : tx'[i] = tx[j]
        BY DEF TxSame
      <3>2. ASSUME TxTakes PROVE \A i \in 1..Txs' : i + 1 \in 1..Txs /\ tx'[i] = tx[i + 1]
        BY <1>0, <3>2 DEF TxTakes
      <3> QED BY <1>10, <3>1, <3>2 DEF LostOne
    <2> QED BY <2>1, <2>3, <2>4 DEF Own, Foreign
  <1> QED BY <1>2, <1>3, <1>4, <1>5, <1>6, <1>7, <1>8, <1>9, <1>10, Steps

-----------------------------------------------------------------------------
(* Blocking commands that outlive their call                               *)

LEMMA LeftoverOpened ==
    ASSUME Typed, Placed, Opened, ~hasty'
    PROVE  Unreset'
  <1>1. Quiet /\ Wires' = 0 /\ TxSame /\ pc' = "idle" /\ run' = run
    BY DEF Opened, Placed
  <1>2. Txs' = 0 /\ (run' # Nil => run'.cmd \in Blocking)
    BY <1>1, LineFacts DEF Quiet, TxSame
  <1> QED BY <1>1, <1>2 DEF Unreset

\* A fence stays one while requests are added behind it.
LEMMA FencedMore ==
    ASSUME Typed, Txs' \in Nat, Txs' >= Txs, \A i \in 1..Txs : tx'[i] = tx[i], NEW i \in 1..Txs + 1, Fenced(i)
    PROVE  Fenced(i)'
  <1>1. Txs \in Nat
    BY LineFacts
  <1>2. PICK j \in i..Txs : tx[j].kind = "dummy"
    BY DEF Fenced
  <1>3. j \in 1..Txs /\ j \in i..Txs'
    BY <1>1, <1>2
  <1> QED BY <1>2, <1>3 DEF Fenced

LEMMA LeftoverRequested ==
    ASSUME Typed, Placed, Leftover, Requested, io = "arygon", lost = 0, ~hasty'
    PROVE  /\ stage' \in {"firmware", "init", "open"} => FencedIn'
           /\ stage' = "reset" => Resetting'
  <1>0. /\ Txs \in Nat /\ Txs' = Txs + 1 /\ tx'[Txs + 1] = Request(me') /\ (\A i \in 1..Txs : tx'[i] = tx[i])
        /\ run' = run /\ outer' = outer /\ stage' = stage /\ pc = "idle" /\ pc' # "idle" /\ me' \in Call
        /\ outer = Nil /\ Txs' \in Nat /\ Txs' >= Txs
    BY LineFacts DEF Requested, Placed
  <1>1. ~hasty
    BY DEF Requested
  <1>2. Request(me').call = me' /\ Request(me').kind = "request" /\ (\A c : ~Mine(c))
    BY <1>0, Constants DEF Mine, Busy
  <1>3. CASE stage = "reset"
    <2>1. Txs = 0 /\ (run # Nil => run.cmd \in Blocking)
          /\ \A i \in 1..Wires : wire[i].kind # "junk" => wire[i].call.cmd \in Blocking
      BY <1>0, <1>1, <1>3 DEF Leftover, Resetting, Unreset, Busy
    <2>2. PICK d \in 0..Wires : ShrunkBy(d)
      BY DEF Requested, WireShrunk
    <2>3. \A i \in 1..Wires' : wire'[i].kind # "junk" => wire'[i].call.cmd \in Blocking
      BY <2>1, <2>2, WireBefore
    <2> QED BY <1>0, <1>3, <2>1, <2>3 DEF Resetting, Unreset
  <1>4. CASE stage \in {"firmware", "init"}
    <2>1. FencedIn
      BY <1>1, <1>4 DEF Leftover
    <2>2. me'.cmd \notin Blocking
      BY <1>4, StageCmds DEF Requested
    <2>3. run'.cmd \in Blocking => Fenced(1)'
      BY <1>0, <1>2, <2>1, FencedMore DEF FencedIn
    <2>4. ASSUME NEW i \in 1..Txs', tx'[i].kind = "request", tx'[i].call.cmd \in Blocking
          PROVE  Fenced(i)'
      <3>1. i \in 1..Txs
        BY <1>0, <1>2, <2>2, <2>4
      <3>2. Fenced(i) /\ i \in 1..Txs + 1
        BY <1>0, <1>2, <2>1, <2>4, <3>1 DEF FencedIn
      <3> QED BY <1>0, <3>2, FencedMore
    <2> QED BY <1>0, <1>4, <2>3, <2>4 DEF FencedIn
  <1>5. CASE stage = "open"
    <2>1. FencedIn /\ Quiet
      BY <1>1, <1>5, StageCmds DEF Leftover, Requested
    <2>2. Txs = 0
      BY <2>1, LineFacts DEF Quiet
    <2>3. ~Fenced(1)
      BY <2>2 DEF Fenced
    <2>4. run.cmd \notin Blocking
      BY <1>2, <2>1, <2>3 DEF FencedIn
    <2>5. \A i \in 1..Txs' : tx'[i].call = me'
      BY <1>0, <1>2, <2>2
    <2>6. Mine(me)'
      BY <1>0 DEF Mine, Busy
    <2> QED BY <1>0, <1>5, <2>4, <2>5, <2>6 DEF FencedIn, Mine
  <1> QED BY <1>0, <1>3, <1>4, <1>5

LEMMA LeftoverEnded ==
    ASSUME Typed, Placed, Steady, Leftover, Ended, io = "arygon", lost' = 0, ~hasty'
    PROVE  /\ stage' \in {"firmware", "init", "open"} => FencedIn'
           /\ stage' # "reset"
  <1>0. /\ lost \in Nat /\ lost' >= lost /\ Busy /\ run' = run /\ hasty' = hasty /\ Txs \in Nat /\ Wires \in Nat
        /\ pc \in {"ack", "receive"} /\ me \in Call
    BY LineFacts, TypeFacts DEF Ended, Placed, Busy
  <1>1. lost = 0 /\ lost' # lost + 1 /\ ~hasty
    BY <1>0
  <1>2. TxSame
    BY <1>1 DEF Ended
  <1>3. \A i \in 1..Txs : Fenced(i) => Fenced(i)'
    BY <1>2 DEF Fenced, TxSame
  <1>4. Fenced(1) => Fenced(1)'
    BY <1>2 DEF Fenced, TxSame
  <1>5. ASSUME FencedIn, \A c : Mine(c) => c.cmd \notin Blocking PROVE FencedIn'
    <2>1. run'.cmd \in Blocking => Fenced(1)'
      BY <1>0, <1>4, <1>5 DEF FencedIn
    <2>2. \A i \in 1..Txs' : tx'[i].kind = "request" /\ tx'[i].call.cmd \in Blocking => Fenced(i)'
      BY <1>2, <1>3, <1>5 DEF FencedIn, TxSame
    <2> QED BY <2>1, <2>2 DEF FencedIn
  <1>6. ASSUME run.cmd \notin Blocking, Txs = 0 PROVE FencedIn'
    BY <1>0, <1>2, <1>6 DEF FencedIn, TxSame
  <1>7. CASE stage = "reset"
    <2>1. CASE stage' = "closed"
      BY <2>1
    <2>2. CASE stage' # "closed"
      <3>1. Wires >= 1 /\ Accepts(wire[1])
        BY <1>7, <2>2 DEF Ended
      <3>2. me.cmd = "ResetTama" /\ me.cmd \in Raw /\ me.cmd \notin Blocking
        BY <1>0, <1>7, StageCmds DEF Placed, Raw
      <3>3. wire[1].kind = "reply" /\ wire[1].call.cmd \notin Blocking
        BY <3>1, <3>2 DEF Accepts
      <3>4. ~Unreset
        BY <1>0, <3>1, <3>3 DEF Unreset
      <3>5. Txs = 0 /\ run.cmd \notin Blocking
        BY <1>1, <1>7, <3>2, <3>4, Constants DEF Leftover, Resetting
      <3> QED BY <1>6, <1>7, <3>5, Stages
    <2> QED BY <2>1, <2>2
  <1>8. CASE stage \in {"firmware", "init"}
    <2>1. me.cmd \notin Blocking
      BY <1>0, <1>8, StageCmds DEF Placed
    <2> QED BY <1>1, <1>5, <1>8, <2>1, Stages DEF Leftover, Mine
  <1>9. CASE stage = "open"
    <2>1. CASE outer # Nil \/ me.cmd \notin Blocking
      BY <1>1, <1>5, <1>9, <2>1, Stages DEF Leftover, Mine
    <2>2. CASE outer = Nil /\ me.cmd \in Blocking
      <3>1. Wires >= 1 /\ (pc = "ack" => wire[1].kind \notin {"ack", "refused"})
        BY <2>2 DEF Ended
      <3>2. Lockstep
        BY <1>1, <1>9 DEF Lockstep
      <3>3. pc = "receive" /\ SteadyReply
        <4>1. CASE pc = "ack"
          <5>1. SteadyAck
            BY <2>2, <3>2, <4>1 DEF Steady
          <5>2. wire[1] = Ack(me)
            BY <1>1, <3>1, <5>1 DEF SteadyAck, Sent
          <5> QED BY <1>0, <3>1, <4>1, <5>2, Constants
        <4>2. CASE pc = "receive"
          BY <2>2, <3>2, <4>2 DEF Steady
        <4> QED BY <1>0, <4>1, <4>2
      <3>4. Txs = 0 /\ run = Nil
        BY <1>0, <3>1, <3>3 DEF SteadyReply, Sent
      <3> QED BY <1>6, <3>4, Constants, Stages
    <2> QED BY <2>1, <2>2
  <1>10. stage' \in {"firmware", "init", "open"} => stage \in {"reset", "firmware", "init", "open"}
    BY Stages DEF Placed
  <1> QED BY <1>7, <1>8, <1>9, <1>10, Stages

LEMMA LeftoverNested ==
    ASSUME Typed, Nested
    PROVE  FencedIn'
  <1>0. /\ Txs \in Nat /\ Txs' = Txs + 2 /\ tx'[Txs + 1] = Dummy /\ tx'[Txs + 2] = Request(me')
        /\ me' \in Call /\ me'.cmd = "Diagnose"
    BY LineFacts DEF Nested
  <1>1. tx'[Txs + 1].kind = "dummy" /\ tx'[Txs + 2].call.cmd \notin Blocking
    BY <1>0, Constants, StageCmds
  <1>2. \A i \in 1..Txs + 1 : Txs + 1 \in i..Txs'
    BY <1>0
  <1>3. \A i \in 1..Txs + 1 : Fenced(i)'
    BY <1>1, <1>2 DEF Fenced
  <1>4. \A i \in 1..Txs' : i \in 1..Txs + 1 \/ i = Txs + 2
    BY <1>0
  <1>5. 1 \in 1..Txs + 1
    BY <1>0
  <1> QED BY <1>1, <1>3, <1>4, <1>5 DEF FencedIn

LEMMA LeftoverTaken ==
    ASSUME Typed, Placed, Leftover, Taken, io = "arygon", lost' = 0, ~hasty
    PROVE  /\ stage \in {"firmware", "init", "open"} => FencedIn'
           /\ stage = "reset" => Resetting'
  <1>0. /\ Txs \in Nat /\ Txs >= 1 /\ Txs' = Txs - 1 /\ lost \in Nat
        /\ \A i \in 1..Txs' : tx'[i] = tx[i + 1] /\ i + 1 \in 1..Txs
        /\ UNCHANGED <<pc, me, outer, stage>>
    BY LineFacts, TypeFacts DEF Taken, TxTakes, host
  <1>1. lost = 0 /\ lost' # lost + 1 /\ tx[1] \in TxFrame /\ 1 \in 1..Txs
    BY <1>0, LineFacts DEF Taken
  <1>2. (tx[1].kind = "dummy" /\ run' = Nil) \/ (tx[1].kind = "request" /\ run' = tx[1].call)
    BY <1>1 DEF Taken
  <1>3. ASSUME stage \in {"firmware", "init", "open"} PROVE FencedIn'
    <2>1. FencedIn
      BY <1>1, <1>3 DEF Leftover
    <2>2. \A c : Mine(c) => Mine(c)'
      BY <1>0 DEF Mine, Busy
    <2>3. ASSUME NEW i \in 1..Txs', Fenced(i + 1) PROVE Fenced(i)'
      <3>1. PICK j \in i + 1 .. Txs : tx[j].kind = "dummy"
        BY <2>3 DEF Fenced
      <3>2. j - 1 \in i..Txs' /\ j - 1 \in 1..Txs' /\ (j - 1) + 1 = j
        BY <1>0, <3>1
      <3>3. tx'[j - 1] = tx[j]
        BY <1>0, <3>2
      <3> QED BY <3>1, <3>2, <3>3 DEF Fenced
    <2>4. ASSUME tx[1].kind = "request", Fenced(1) PROVE Fenced(1)'
      <3>1. PICK j \in 1..Txs : tx[j].kind = "dummy"
        BY <2>4 DEF Fenced
      <3>2. j # 1
        BY <2>4, <3>1
      <3>3. j - 1 \in 1..Txs' /\ (j - 1) + 1 = j
        BY <1>0, <3>1, <3>2
      <3>4. tx'[j - 1] = tx[j]
        BY <1>0, <3>3
      <3> QED BY <3>1, <3>3, <3>4 DEF Fenced
    <2>5. run'.cmd \in Blocking => Mine(run') \/ Fenced(1)'
      BY <1>1, <1>2, <2>1, <2>4, Constants DEF FencedIn
    <2>6. ASSUME NEW i \in 1..Txs', tx'[i].kind = "request", tx'[i].call.cmd \in Blocking
          PROVE  Mine(tx'[i].call) \/ Fenced(i)'
      <3>1. i + 1 \in 1..Txs /\ tx'[i] = tx[i + 1]
        BY <1>0
      <3>2. Mine(tx[i + 1].call) \/ Fenced(i + 1)
        BY <2>1, <2>6, <3>1 DEF FencedIn
      <3> QED BY <2>3, <3>1, <3>2
    <2> QED BY <1>0, <2>5, <2>6 DEF FencedIn, Mine, Busy
  <1>4. ASSUME stage = "reset" PROVE Resetting'
    <2>1. Txs = 1 /\ tx[1] = Request(me) /\ pc # "idle"
      BY <1>0, <1>1, <1>4 DEF Leftover, Resetting, Unreset
    <2>2. me \in Call
      BY <2>1 DEF Placed, Busy
    <2>3. tx[1].kind = "request" /\ tx[1].call = me
      BY <2>1, <2>2, Constants
    <2> QED BY <1>0, <1>2, <2>1, <2>3 DEF Resetting, Busy
  <1> QED BY <1>3, <1>4

LEMMA LeftoverReplied ==
    ASSUME Typed, Placed, Leftover, Replied, io = "arygon", lost = 0, ~hasty
    PROVE  /\ stage \in {"firmware", "init", "open"} => FencedIn'
           /\ stage = "reset" => Resetting'
  <1>0. TxSame /\ run # Nil /\ run' = Nil /\ WireGrows(Reply(run)) /\ UNCHANGED <<pc, me, outer, stage>> /\ Wires \in Nat
    BY LineFacts DEF Replied, host
  <1>1. ASSUME stage \in {"firmware", "init", "open"} PROVE FencedIn'
    <2>1. FencedIn
      BY <1>1 DEF Leftover
    <2>2. run'.cmd \notin Blocking
      BY <1>0, Constants
    <2>3. \A i \in 1..Txs : Fenced(i) => Fenced(i)'
      BY <1>0 DEF Fenced, TxSame
    <2> QED BY <1>0, <2>1, <2>2, <2>3 DEF FencedIn, TxSame, Mine, Busy
  <1>2. ASSUME stage = "reset" PROVE Resetting'
    <2>1. Resetting
      BY <1>2 DEF Leftover
    <2>2. CASE Unreset
      <3>1. run \in Call
        BY <1>0, TypeFacts
      <3>2. Reply(run).call.cmd \in Blocking
        BY <1>0, <2>2, <3>1, Constants DEF Unreset
      <3>3. \A i \in 1..Wires' : wire'[i].kind # "junk" => wire'[i].call.cmd \in Blocking
        <4>1. \A i \in 1..Wires' : (i \in 1..Wires /\ wire'[i] = wire[i]) \/ wire'[i] = Reply(run)
          BY <1>0 DEF WireGrows
        <4> QED BY <2>2, <3>2, <4>1 DEF Unreset
      <3> QED BY <1>0, <2>2, <3>3 DEF Unreset, Resetting, TxSame
    <2>3. CASE Busy /\ Txs = 0
      BY <1>0, <2>3 DEF Resetting, Busy, TxSame
    <2> QED BY <2>1, <2>2, <2>3 DEF Resetting
  <1> QED BY <1>1, <1>2

LEMMA LeftoverStep ==
    ASSUME Typed, Placed, Steady, Leftover, [Next]_vars
    PROVE  Leftover'
  <1> SUFFICES ASSUME io' = "arygon", lost' = 0, ~hasty'
               PROVE  /\ stage' \in {"firmware", "init", "open"} => FencedIn'
                      /\ stage' = "reset" => Resetting'
    BY DEF Leftover
  <1>0. lost \in Nat
    BY TypeFacts
  <1>1. CASE Opened
    BY <1>1, LeftoverOpened DEF Opened, Resetting
  <1>2. CASE Requested
    <2>1. io = "arygon" /\ lost = 0
      BY <1>2 DEF Requested
    <2> QED BY <1>2, <2>1, LeftoverRequested
  <1>3. CASE Acknowledged
    <2>1. /\ TxSame /\ UNCHANGED <<io, stage, me, outer, hasty, run, lost>> /\ pc' = "receive" /\ pc = "ack"
          /\ Wires' = Wires - 1 /\ \A i \in 1..Wires' : wire'[i] = wire[i + 1]
      BY <1>3 DEF Acknowledged
    <2>2. (stage \in {"firmware", "init", "open"} => FencedIn) /\ (stage = "reset" => Resetting)
      BY <2>1 DEF Leftover
    <2>3. FencedIn => FencedIn'
      BY <2>1 DEF FencedIn, Fenced, Mine, Busy, TxSame
    <2>4. \A i \in 1..Wires' : i + 1 \in 1..Wires
      BY <2>1, LineFacts
    <2>5. Resetting => Resetting'
      BY <2>1, <2>4 DEF Resetting, Unreset, Busy, TxSame
    <2> QED BY <2>1, <2>2, <2>3, <2>5
  <1>4. CASE Ended
    <2>1. io = "arygon"
      BY <1>4 DEF Ended
    <2> QED BY <1>4, <2>1, LeftoverEnded
  <1>5. CASE Nested
    <2>1. stage' = "open"
      BY <1>5 DEF Nested, Placed
    <2> QED BY <1>5, <2>1, LeftoverNested
  <1>6. CASE Unmoved
    <2>1. TxSame /\ WireSame /\ UNCHANGED <<io, pc, me, outer, hasty, run, lost>>
      BY <1>6 DEF Unmoved
    <2>2. stage' = stage \/ stage' = "closed"
      BY <1>6, <2>1 DEF Unmoved
    <2>3. (FencedIn => FencedIn') /\ (Resetting => Resetting')
      BY <2>1 DEF FencedIn, Fenced, Mine, Resetting, Unreset, Busy, TxSame, WireSame
    <2> QED BY <2>1, <2>2, <2>3 DEF Leftover
  <1>7. CASE Taken
    <2>1. io = "arygon" /\ ~hasty /\ stage' = stage
      BY <1>7 DEF Taken, host
    <2> QED BY <1>7, <2>1, LeftoverTaken
  <1>8. CASE Replied
    <2>1. io = "arygon" /\ ~hasty /\ stage' = stage /\ lost = 0
      BY <1>8 DEF Replied, host
    <2> QED BY <1>8, <2>1, LeftoverReplied
  <1>9. CASE LostOne
    BY <1>0, <1>9 DEF LostOne
  <1> QED BY <1>1, <1>2, <1>3, <1>4, <1>5, <1>6, <1>7, <1>8, <1>9, Steps

-----------------------------------------------------------------------------
(* One request under way at a time                                         *)

LEMMA SteadyRequested ==
    ASSUME Typed, Placed, Steady, Leftover, Requested, Lockstep'
    PROVE  Sent'
  <1>0. /\ Txs \in Nat /\ Wires \in Nat /\ Txs' = Txs + 1 /\ tx'[Txs + 1] = Request(me') /\ run' = run
        /\ UNCHANGED <<io, failed, lost>> /\ stage' = stage /\ pc = "idle"
    BY LineFacts DEF Requested
  <1>1. CASE ~failed'
    <2>1. Txs = 0 /\ Wires = 0 /\ run = Nil
      BY <1>0, <1>1 DEF Steady
    <2>2. PICK d \in 0..Wires : ShrunkBy(d)
      BY DEF Requested, WireShrunk
    <2>3. Wires' = 0
      <3>1. d = 0 /\ Wires' = Wires - d
        BY <2>1, <2>2 DEF ShrunkBy
      <3> QED BY <2>1, <3>1
    <2> QED BY <1>0, <2>1, <2>3 DEF Sent
  <1>2. CASE io = "arygon" /\ lost = 0 /\ ~hasty' /\ stage = "open"
    <2>1. ~hasty /\ Quiet /\ Wires' = 0
      BY <1>2, StageCmds DEF Requested
    <2>2. Txs = 0 /\ FencedIn
      BY <1>2, <2>1, LineFacts DEF Quiet, Leftover
    <2>3. run.cmd \notin Blocking
      BY <1>0, <2>2 DEF FencedIn, Fenced, Mine, Busy
    <2>4. run = Nil
      BY <2>1, <2>3 DEF Quiet
    <2> QED BY <1>0, <2>1, <2>2, <2>4 DEF Sent
  <1> QED BY <1>0, <1>1, <1>2 DEF Lockstep

LEMMA SteadyAcknowledged ==
    ASSUME Typed, Placed, SteadyAck, Acknowledged
    PROVE  SteadyReply'
  <1>0. /\ Wires \in Nat /\ Wires >= 1 /\ Wires' = Wires - 1 /\ \A i \in 1..Wires' : wire'[i] = wire[i + 1]
        /\ TxSame /\ UNCHANGED <<io, me, run, lost>> /\ wire[1].kind \in {"ack", "refused"}
    BY LineFacts DEF Acknowledged
  <1>1. /\ Txs = 0 /\ Wires <= 2 /\ run \in {me, Nil} /\ (run # Nil => Wires <= 1)
        /\ Wires = 2 => wire[2] = Reply(me)
    BY <1>0 DEF SteadyAck, Sent
  <1>2. Wires' <= 1 /\ (run' # Nil => Wires' = 0)
    BY <1>0, <1>1
  <1>3. ASSUME NEW i \in 1..Wires' PROVE wire'[i] = Reply(me)
    <2>1. i = 1 /\ Wires = 2 /\ i + 1 = 2
      BY <1>0, <1>1
    <2> QED BY <1>0, <1>1, <2>1
  <1>4. Txs' = 0 /\ me' = me /\ run' \in {me, Nil}
    BY <1>0, <1>1 DEF TxSame
  <1>5. \A i \in 1..Wires' : wire'[i] = Reply(me')
    BY <1>3, <1>4
  <1> QED BY <1>2, <1>4, <1>5 DEF SteadyReply

LEMMA SteadyTaken ==
    ASSUME Typed, Placed, Taken, Busy, me \in Call
    PROVE  /\ pc = "ack" /\ SteadyAck => SteadyAck'
           /\ pc = "receive" /\ SteadyReply => SteadyReply'
  <1>0. /\ Txs \in Nat /\ Wires \in Nat /\ Txs >= 1 /\ Txs' = Txs - 1 /\ lost \in Nat /\ UNCHANGED <<io, me, pc>>
    BY LineFacts, TypeFacts DEF Taken, TxTakes, host
  <1>1. (SteadyAck => Sent) /\ (SteadyReply => Sent /\ io = "arygon" /\ me.cmd \in Raw)
    BY <1>0 DEF SteadyAck, SteadyReply
  <1>2. pc = "ack" => ~(io = "arygon" /\ me.cmd \in Raw)
    BY DEF Placed
  <1>3. ASSUME Sent
        PROVE  /\ Txs' = 0 /\ Wires = 0 /\ run = Nil
               /\ \/ run' = me /\ lost' = lost /\ IF io = "arygon" /\ me.cmd \in Raw THEN Wires' = 0 ELSE Wires' = 1 /\ wire'[1] = Ack(me)
                  \/ run' = Nil /\ lost' = lost + 1 /\ Wires' = 1 /\ wire'[1] = Refusal(me)
    <2>1. tx[1] = Request(me) /\ Txs = 1 /\ Wires = 0 /\ run = Nil
      BY <1>3 DEF Sent
    <2>2. tx[1].kind = "request" /\ tx[1].call = me
      BY <2>1, Constants
    <2>3. WireSame => Wires' = 0
      BY <2>1 DEF WireSame
    <2>4. ASSUME NEW p, WireGrows(p) PROVE Wires' = 1 /\ wire'[1] = p
      BY <2>1, <2>4 DEF WireGrows
    <2> QED BY <1>0, <2>1, <2>2, <2>3, <2>4 DEF Taken
  <1>4. lost' # 0 \/ lost' = lost
    BY <1>0, <1>3, <1>1 DEF Taken
  <1>5. ASSUME pc = "ack", SteadyAck PROVE SteadyAck'
    <2>1. Txs' = 0 /\ Wires' = 1 /\ run' \in {me, Nil} /\ me' = me
      BY <1>0, <1>1, <1>2, <1>3, <1>5
    <2>2. wire'[1] = Ack(me) \/ (wire'[1] = Refusal(me) /\ lost' # 0 /\ run' = Nil)
      BY <1>0, <1>1, <1>2, <1>3, <1>5
    <2>3. Ack(me) # Refusal(me)
      BY Constants
    <2>4. \A i \in 1..Wires' : i = 1
      BY <2>1
    <2> QED BY <2>1, <2>2, <2>3, <2>4 DEF SteadyAck
  <1>6. ASSUME pc = "receive", SteadyReply PROVE SteadyReply'
    <2>1. Txs' = 0 /\ Wires' <= 1 /\ Wires' \in Nat /\ run' \in {me, Nil} /\ me' = me
      BY <1>0, <1>1, <1>3, <1>6
    <2>2. Wires' = 0 \/ (Wires' = 1 /\ wire'[1] = Refusal(me) /\ lost' # 0 /\ run' = Nil)
      BY <1>0, <1>1, <1>3, <1>6
    <2>3. \A i \in 1..Wires' : i = 1
      BY <2>1
    <2> QED BY <2>1, <2>2, <2>3 DEF SteadyReply
  <1> QED BY <1>5, <1>6

LEMMA SteadyReplied ==
    ASSUME Typed, Placed, Replied, me \in Call
    PROVE  /\ SteadyAck => SteadyAck'
           /\ SteadyReply => SteadyReply'
  <1>0. /\ Wires \in Nat /\ TxSame /\ run # Nil /\ run' = Nil /\ UNCHANGED <<io, me, lost>>
        /\ Wires' = Wires + 1 /\ wire'[Wires + 1] = Reply(run) /\ \A i \in 1..Wires : wire'[i] = wire[i]
    BY LineFacts DEF Replied, WireGrows, host
  <1>1. Reply(me) # Refusal(me)
    BY Constants
  <1>2. ASSUME SteadyAck PROVE SteadyAck'
    <2>1. /\ Txs = 0 /\ Wires <= 1 /\ run = me
          /\ \A i \in 1..Wires : wire[i] \in {Ack(me), Reply(me), Junk}
          /\ lost = 0 => Wires > 0 /\ wire[1] = Ack(me)
      BY <1>0, <1>2 DEF SteadyAck, Sent
    <2>2. Txs' = 0 /\ Wires' <= 2 /\ run' = Nil /\ me' = me /\ lost' = lost
      BY <1>0, <2>1 DEF TxSame
    <2>3. \A i \in 1..Wires' : wire'[i] \in {Ack(me), Reply(me), Junk}
      <3>1. \A i \in 1..Wires' : i \in 1..Wires \/ i = Wires + 1
        BY <1>0
      <3> QED BY <1>0, <2>1, <3>1
    <2>4. Wires' = 2 => wire'[2] = Reply(me)
      <3>1. Wires' = 2 => Wires + 1 = 2
        BY <1>0
      <3> QED BY <1>0, <2>1, <3>1
    <2>5. lost' = 0 => Wires' > 0 /\ wire'[1] = Ack(me)
      <3>1. Wires > 0 => 1 \in 1..Wires
        BY <1>0
      <3> QED BY <1>0, <2>1, <3>1
    <2>6. Refusal(me) \notin {Ack(me), Reply(me), Junk}
      BY Constants
    <2> QED BY <2>2, <2>3, <2>4, <2>5, <2>6 DEF SteadyAck
  <1>3. ASSUME SteadyReply PROVE SteadyReply'
    <2>1. Txs = 0 /\ Wires = 0 /\ run = me
      BY <1>0, <1>3 DEF SteadyReply, Sent
    <2>2. Txs' = 0 /\ Wires' = 1 /\ run' = Nil /\ me' = me /\ wire'[1] = Reply(me)
      BY <1>0, <2>1 DEF TxSame
    <2>3. \A i \in 1..Wires' : wire'[i] = Reply(me)
      BY <2>2
    <2> QED BY <2>2, <2>3 DEF SteadyReply
  <1> QED BY <1>2, <1>3

LEMMA SteadyLost ==
    ASSUME Typed, Placed, LostOne, me \in Call
    PROVE  /\ SteadyAck => SteadyAck'
           /\ SteadyReply => SteadyReply'
  <1>0. /\ Wires \in Nat /\ Txs \in Nat /\ UNCHANGED <<io, me, run>> /\ lost' # 0
    BY LineFacts, TypeFacts DEF LostOne, host
  <1>1. ASSUME TxTakes, WireSame, Sent
        PROVE  Txs' = 0 /\ Wires' = 0 /\ run' = Nil
    BY <1>0, <1>1 DEF TxTakes, WireSame, Sent
  <1>2. ASSUME TxTakes PROVE Txs >= 1
    BY <1>2 DEF TxTakes
  <1>3. ASSUME TxTakes, WireSame
        PROVE  (SteadyAck => SteadyAck') /\ (SteadyReply => SteadyReply')
    <2>1. (SteadyAck => Sent) /\ (SteadyReply => Sent)
      BY <1>2, <1>3 DEF SteadyAck, SteadyReply
    <2>2. Sent => SteadyAck' /\ SteadyReply'
      BY <1>0, <1>1, <1>3 DEF SteadyAck, SteadyReply
    <2> QED BY <2>1, <2>2
  <1>4. ASSUME TxSame, Wires >= 1, WireShrunk
        PROVE  (SteadyAck => SteadyAck') /\ (SteadyReply => SteadyReply')
    <2>1. PICK d \in 0..Wires : ShrunkBy(d)
      BY <1>4 DEF WireShrunk
    <2>2. /\ Wires' = Wires - d /\ Wires' \in Nat /\ Txs' = Txs
          /\ \A i \in 1..Wires' : i + d \in 1..Wires /\ (wire'[i] = wire[i + d] \/ (i = 1 /\ wire'[i] = Junk))
      BY <1>0, <1>4, <2>1 DEF ShrunkBy, TxSame
    <2>3. ASSUME SteadyAck PROVE SteadyAck'
      <3>1. /\ Txs = 0 /\ Wires <= 2 /\ run \in {me, Nil} /\ (run # Nil => Wires <= 1)
            /\ \A i \in 1..Wires : /\ wire[i] \in {Ack(me), Refusal(me), Reply(me), Junk}
                                   /\ wire[i] = Refusal(me) => Wires = 1 /\ run = Nil
            /\ Wires = 2 => wire[2] = Reply(me)
        BY <1>4, <2>3 DEF SteadyAck, Sent
      <3>2. Wires' <= 2 /\ (run # Nil => Wires' <= 1)
        BY <1>0, <2>2, <3>1
      <3>3. ASSUME NEW i \in 1..Wires'
            PROVE  wire'[i] \in {Ack(me), Refusal(me), Reply(me), Junk} /\ (wire'[i] = Refusal(me) => Wires' = 1 /\ run = Nil)
        <4>1. i + d \in 1..Wires
          BY <2>2
        <4>2. Junk # Refusal(me)
          BY Constants
        <4>3. Wires = 1 => Wires' = 1
          BY <1>0, <2>2
        <4> QED BY <2>2, <3>1, <4>1, <4>2, <4>3
      <3>4. ASSUME Wires' = 2 PROVE wire'[2] = Reply(me)
        <4>1. Wires = 2 /\ d = 0 /\ 2 \in 1..Wires' /\ 2 + d = 2
          BY <1>0, <2>2, <3>1, <3>4
        <4> QED BY <2>2, <3>1, <4>1
      <3> QED BY <1>0, <2>2, <3>1, <3>2, <3>3, <3>4 DEF SteadyAck
    <2>4. ASSUME SteadyReply PROVE SteadyReply'
      <3>1. /\ Txs = 0 /\ Wires <= 1 /\ run \in {me, Nil} /\ (run # Nil => Wires = 0)
            /\ \A i \in 1..Wires : wire[i] \in {Refusal(me), Reply(me), Junk}
        BY <1>4, <2>4 DEF SteadyReply, Sent
      <3>2. Wires' <= 1 /\ (run # Nil => Wires' = 0)
        BY <1>0, <2>2, <3>1
      <3>3. \A i \in 1..Wires' : wire'[i] \in {Refusal(me), Reply(me), Junk}
        BY <2>2, <3>1
      <3> QED BY <1>0, <2>2, <3>1, <3>2, <3>3 DEF SteadyReply
    <2> QED BY <2>3, <2>4
  <1> QED BY <1>3, <1>4 DEF LostOne

LEMMA SteadyStep ==
    ASSUME Typed, Placed, Steady, Leftover, [Next]_vars
    PROVE  Steady'
  <1>0. /\ Wires \in Nat /\ Txs \in Nat /\ lost \in Nat /\ pc \in {"idle", "ack", "receive"} /\ me \in Call \cup {Nil}
    BY LineFacts, TypeFacts
  <1>1. CASE Opened
    <2>1. pc' = "idle" /\ pc = "idle" /\ TxSame /\ WireShrunk /\ UNCHANGED <<failed, run>> /\ result'.outcome = "none"
      BY <1>1 DEF Opened, Placed
    <2>2. ASSUME Wires = 0 PROVE Wires' = 0
      <3>1. PICK d \in 0..Wires : ShrunkBy(d)
        BY <2>1 DEF WireShrunk
      <3>2. d = 0 /\ Wires' = Wires - d
        BY <2>2, <3>1 DEF ShrunkBy
      <3> QED BY <2>2, <3>2
    <2> QED BY <2>1, <2>2 DEF Steady, Foreign, TxSame
  <1>2. CASE Requested
    <2>1. pc' # "idle" /\ UNCHANGED <<io, failed, result>> /\ (pc' = "receive" => io = "arygon" /\ me'.cmd \in Raw)
      BY <1>2 DEF Requested
    <2>2. Lockstep' => Sent'
      BY <1>2, SteadyRequested
    <2>3. Sent' => SteadyAck' /\ (pc' = "receive" => SteadyReply')
      BY <2>1 DEF SteadyAck, SteadyReply
    <2> QED BY <2>1, <2>2, <2>3 DEF Steady, Foreign
  <1>3. CASE Acknowledged
    <2>1. pc = "ack" /\ pc' = "receive" /\ UNCHANGED <<io, stage, outer, result, failed, hasty, lost>>
      BY <1>3 DEF Acknowledged
    <2>2. Lockstep' => Lockstep
      BY <2>1 DEF Lockstep
    <2>3. Lockstep' /\ outer' = Nil => SteadyReply'
      BY <1>3, <2>1, <2>2, SteadyAcknowledged DEF Steady
    <2> QED BY <2>1, <2>3 DEF Steady, Foreign
  <1>4. CASE Ended
    <2>1. /\ pc' = "idle" /\ run' = run /\ (~failed' => ~failed /\ outer = Nil /\ result'.outcome = "payload")
          /\ result'.call = (IF outer = Nil THEN me ELSE outer)
          /\ result'.outcome = "payload" =>
                pc = "receive" /\ Wires >= 1 /\ wire[1].kind = "reply" /\ result'.from = wire[1].call /\ Wires' = Wires - 1
      BY <1>4 DEF Ended
    <2>2. me \in Call
      BY <1>4 DEF Ended, Placed
    <2>3. ASSUME ~failed' PROVE Txs' = 0 /\ Wires' = 0 /\ run' = Nil /\ ~Foreign'
      <3>1. Lockstep /\ outer = Nil /\ pc = "receive" /\ Wires >= 1 /\ wire[1].kind = "reply"
        BY <2>1, <2>3 DEF Lockstep
      <3>2. SteadyReply
        BY <3>1 DEF Steady
      <3>3. Txs = 0 /\ Wires = 1 /\ run = Nil /\ wire[1] \in {Refusal(me), Reply(me), Junk}
        BY <1>0, <3>1, <3>2 DEF SteadyReply, Sent
      <3>4. Txs' = 0
        BY <1>0, <1>4, <3>3 DEF Ended, TxSame, TxDrops
      <3>5. wire[1].call = me
        BY <2>2, <3>1, <3>3, Constants
      <3> QED BY <2>1, <2>3, <3>1, <3>3, <3>4, <3>5 DEF Foreign
    <2> QED BY <2>1, <2>3 DEF Steady
  <1>5. CASE Nested
    <2>1. pc' = "ack" /\ outer' # Nil /\ UNCHANGED <<failed, result>>
      <3>1. me \in Call
        BY <1>5, TypeFacts DEF Nested, Placed, Busy
      <3> QED BY <1>5, <3>1, Constants DEF Nested
    <2> QED BY <2>1 DEF Steady, Foreign
  <1>6. CASE Unmoved
    <2>1. TxSame /\ WireSame /\ UNCHANGED <<io, pc, me, outer, result, failed, hasty, run, lost>>
      BY <1>6 DEF Unmoved
    <2>2. Foreign' => failed'
      BY <2>1 DEF Steady, Foreign
    <2>3. pc' = "idle" /\ ~failed' => Txs' = 0 /\ Wires' = 0 /\ run' = Nil
      BY <2>1 DEF Steady, TxSame, WireSame
    <2>4. pc # "idle" => stage' = stage
      BY <1>6 DEF Unmoved
    <2>5. pc # "idle" => (Lockstep' <=> Lockstep)
      BY <2>1, <2>4 DEF Lockstep
    <2>6. (SteadyAck' <=> SteadyAck) /\ (SteadyReply' <=> SteadyReply)
      BY <2>1 DEF SteadyAck, SteadyReply, Sent, TxSame, WireSame
    <2>7. Lockstep' /\ outer' = Nil => (pc' = "ack" => SteadyAck') /\ (pc' = "receive" => SteadyReply')
      BY <2>1, <2>5, <2>6 DEF Steady
    <2> QED BY <2>2, <2>3, <2>7 DEF Steady
  <1>7. CASE Taken \/ Replied \/ LostOne
    <2>1. UNCHANGED <<io, stage, pc, outer, result, failed, hasty>> /\ lost' \in {lost, lost + 1}
      BY <1>7 DEF Taken, Replied, LostOne, host
    <2>2. Lockstep' => Lockstep
      BY <1>0, <2>1 DEF Lockstep
    <2>3. Foreign' => failed'
      BY <2>1 DEF Steady, Foreign
    <2>4. ASSUME pc = "idle", ~failed PROVE FALSE
      <3>1. Txs = 0 /\ Wires = 0 /\ run = Nil
        BY <2>4 DEF Steady
      <3> QED BY <1>7, <3>1 DEF Taken, TxTakes, Replied, LostOne
    <2>5. ASSUME pc # "idle", Lockstep, outer = Nil
          PROVE  (pc = "ack" => SteadyAck') /\ (pc = "receive" => SteadyReply')
      <3>1. Busy /\ me \in Call
        BY <2>5 DEF Busy, Placed
      <3>2. (pc = "ack" => SteadyAck) /\ (pc = "receive" => SteadyReply)
        BY <2>5 DEF Steady
      <3> QED BY <1>7, <3>1, <3>2, SteadyTaken, SteadyReplied, SteadyLost
    <2>6. Lockstep' /\ outer' = Nil => (pc' = "ack" => SteadyAck') /\ (pc' = "receive" => SteadyReply')
      BY <2>1, <2>2, <2>5
    <2> QED BY <2>1, <2>3, <2>4, <2>6 DEF Steady
  <1> QED BY <1>1, <1>2, <1>3, <1>4, <1>5, <1>6, <1>7, Steps

-----------------------------------------------------------------------------
(* Callers that let the line settle                                        *)

LEMMA SettledRequested ==
    ASSUME Typed, Placed, Leftover, Requested, stage = "open", ~hasty'
    PROVE  SettledAck'
  <1>0. /\ Txs \in Nat /\ Txs' = Txs + 1 /\ tx'[Txs + 1] = Request(me') /\ UNCHANGED <<io, lost, run>> /\ pc = "idle"
    BY LineFacts DEF Requested
  <1>1. ~hasty /\ Quiet /\ Wires' = 0
    BY StageCmds DEF Requested
  <1>2. Txs = 0
    BY <1>1, LineFacts DEF Quiet
  <1>3. \A i \in 1..Txs' : tx'[i] = Request(me')
    BY <1>0, <1>2
  <1>4. ASSUME io = "arygon", run # Nil PROVE lost > 0
    <2>1. CASE lost = 0
      <3>1. FencedIn
        BY <1>1, <1>4, <2>1 DEF Leftover
      <3>2. run.cmd \notin Blocking
        BY <1>0, <1>2, <3>1 DEF FencedIn, Fenced, Mine, Busy
      <3> QED BY <1>1, <1>4, <3>2 DEF Quiet
    <2> QED BY <2>1, TypeFacts
  <1> QED BY <1>0, <1>1, <1>3, <1>4 DEF SettledAck

LEMMA SettledAcknowledged ==
    ASSUME Typed, Placed, SettledAck, Acknowledged
    PROVE  SettledReply'
  <1>0. /\ Wires \in Nat /\ Wires >= 1 /\ Wires' = Wires - 1 /\ \A i \in 1..Wires' : wire'[i] = wire[i + 1] /\ i + 1 \in 2..Wires
        /\ TxSame /\ UNCHANGED <<io, me, run, lost>> /\ wire[1].kind \in {"ack", "refused"} /\ 1 \in 1..Wires /\ Txs \in Nat
        /\ me \in Call /\ 1 + 1 = 2
    BY LineFacts DEF Acknowledged, Placed, Busy
  <1>1. Txs' = 0
    BY <1>0 DEF SettledAck, TxSame
  <1>2. CASE wire[1].kind = "ack"
    <2>1. run \in {me, Nil} /\ \A j \in 2..Wires : wire[j] = Reply(me)
      BY <1>0, <1>2 DEF SettledAck
    <2>2. \A i \in 1..Wires' : wire'[i].call = me
      BY <1>0, <2>1, Constants
    <2> QED BY <1>0, <1>1, <2>1, <2>2 DEF SettledReply
  <1>3. CASE wire[1].kind = "refused"
    <2>1. TwoFaults \/ (run = Nil /\ \A j \in 2..Wires : wire[j].kind # "reply")
      BY <1>0, <1>3 DEF SettledAck
    <2>2. TwoFaults => TwoFaults'
      BY <1>0 DEF TwoFaults
    <2>3. (\A j \in 2..Wires : wire[j].kind # "reply") => \A i \in 1..Wires' : wire'[i].kind # "reply"
      BY <1>0
    <2> QED BY <1>0, <1>1, <2>1, <2>2, <2>3 DEF SettledReply
  <1> QED BY <1>0, <1>2, <1>3

LEMMA SettledTaken ==
    ASSUME Typed, Placed, Order, Taken, me \in Call
    PROVE  /\ pc = "ack" /\ SettledAck => SettledAck'
           /\ SettledReply => SettledReply'
  <1>0. /\ Txs \in Nat /\ Txs >= 1 /\ Txs' = Txs - 1 /\ Wires \in Nat /\ lost \in Nat
        /\ UNCHANGED <<io, me>> /\ \A i \in 1..Txs' : tx'[i] = tx[i + 1] /\ i + 1 \in 2..Txs
    BY LineFacts, TypeFacts DEF Taken, TxTakes, host
  <1>1. ~SettledReply
    BY <1>0 DEF SettledReply
  <1>2. ASSUME pc = "ack", SettledAck PROVE SettledAck'
    <2>1. tx[1] = Request(me) /\ tx[1].kind = "request" /\ tx[1].call = me
      BY <1>0, <1>2, Constants DEF SettledAck
    <2>2. /\ \A i \in 1..Wires : wire[i].kind \notin {"ack", "refused"}
          /\ io = "arygon" /\ run # Nil => lost > 0
      BY <1>0, <1>2 DEF SettledAck
    <2>3. Txs = 1
      <3>1. CASE Txs >= 2
        <4>1. 1 \in 1..Txs /\ 2 \in 1..Txs
          BY <1>0, <3>1
        <4>2. tx[2] = tx[1]
          BY <1>2, <4>1 DEF SettledAck
        <4>3. tx[1].call.id < tx[2].call.id /\ tx[1].call.id \in Nat
          BY <2>1, <4>1, <4>2, FrameFacts DEF Order
        <4> QED BY <4>2, <4>3
      <3> QED BY <1>0, <3>1
    <2>4. Txs' = 0
      BY <1>0, <2>3
    <2>5. ASSUME run' = me, WireGrows(Ack(me)) PROVE SettledAck'
      <3>1. Ack(me).kind = "ack" /\ me' = me
        BY <1>0, Constants
      <3>2. Wires' = Wires + 1 /\ wire'[Wires + 1] = Ack(me) /\ \A i \in 1..Wires : wire'[i] = wire[i]
        BY <2>5 DEF WireGrows
      <3>3. \A i \in 1..Wires' : wire'[i].kind \in {"ack", "refused"} => i = Wires'  /\ wire'[i].kind = "ack"
        BY <1>0, <2>2, <3>1, <3>2
      <3>4. \A i \in 1..Wires' : \A j \in i + 1 .. Wires' : i # Wires'
        BY <1>0, <3>2
      <3> QED BY <2>4, <2>5, <3>1, <3>3, <3>4 DEF SettledAck
    <2>6. ASSUME run' = run, WireGrows(Refusal(me)), lost' = lost + 1, io = "arygon" PROVE SettledAck'
      <3>1. Refusal(me).kind = "refused" /\ me' = me
        BY <1>0, Constants
      <3>2. Wires' = Wires + 1 /\ wire'[Wires + 1] = Refusal(me) /\ \A i \in 1..Wires : wire'[i] = wire[i]
        BY <2>6 DEF WireGrows
      <3>3. \A i \in 1..Wires' : wire'[i].kind \in {"ack", "refused"} => i = Wires'  /\ wire'[i].kind = "refused"
        BY <1>0, <2>2, <3>1, <3>2
      <3>4. \A i \in 1..Wires' : \A j \in i + 1 .. Wires' : i # Wires'
        BY <1>0, <3>2
      <3>5. TwoFaults' \/ run' = Nil
        BY <1>0, <2>2, <2>6 DEF TwoFaults
      <3>6. io' = "arygon"
        BY <1>0, <2>6
      <3> QED BY <2>4, <2>6, <3>1, <3>3, <3>4, <3>5, <3>6 DEF SettledAck
    <2>7. ~(io = "arygon" /\ me.cmd \in Raw)
      BY <1>2 DEF Placed
    <2> QED BY <2>1, <2>5, <2>6, <2>7 DEF Taken
  <1> QED BY <1>1, <1>2

LEMMA SettledReplied ==
    ASSUME Typed, Placed, Replied, me \in Call
    PROVE  /\ SettledAck => SettledAck'
           /\ SettledReply => SettledReply'
  <1>0. /\ Wires \in Nat /\ TxSame /\ run # Nil /\ run' = Nil /\ UNCHANGED <<io, me, lost>> /\ run \in Call
        /\ Wires' = Wires + 1 /\ wire'[Wires + 1] = Reply(run) /\ \A i \in 1..Wires : wire'[i] = wire[i]
    BY LineFacts, TypeFacts DEF Replied, WireGrows, host
  <1>1. Reply(run).kind = "reply" /\ Reply(run).call = run
    BY <1>0, Constants
  <1>2. \A i \in 1..Wires' : (i \in 1..Wires /\ wire'[i] = wire[i]) \/ (i = Wires' /\ wire'[i] = Reply(run))
    BY <1>0
  <1>3. ASSUME SettledAck PROVE SettledAck'
    <2>1. \A i \in 1..Txs' : tx'[i] = Request(me')
      BY <1>0, <1>3 DEF SettledAck, TxSame
    <2>2. ASSUME Txs' > 0 PROVE \A i \in 1..Wires' : wire'[i].kind \notin {"ack", "refused"}
      BY <1>0, <1>1, <1>2, <1>3, <2>2 DEF SettledAck, TxSame
    <2>3. ASSUME NEW i \in 1..Wires', wire'[i].kind = "ack", NEW j \in i + 1 .. Wires'
          PROVE  wire'[j] = Reply(me')
      <3>1. i \in 1..Wires /\ wire[i].kind = "ack"
        BY <1>1, <1>2, <2>3
      <3>2. run = me /\ \A k \in i + 1 .. Wires : wire[k] = Reply(me)
        BY <1>0, <1>3, <3>1 DEF SettledAck
      <3>3. j \in i + 1 .. Wires \/ j = Wires + 1
        BY <1>0, <3>1
      <3>4. j \in i + 1 .. Wires => j \in 1..Wires
        BY <1>0, <3>1
      <3> QED BY <1>0, <3>2, <3>3, <3>4
    <2>4. ASSUME NEW i \in 1..Wires', wire'[i].kind = "refused" PROVE TwoFaults'
      <3>1. i \in 1..Wires /\ wire[i].kind = "refused"
        BY <1>1, <1>2, <2>4
      <3>2. TwoFaults
        BY <1>0, <1>3, <3>1 DEF SettledAck
      <3> QED BY <1>0, <3>2 DEF TwoFaults
    <2> QED BY <1>0, <2>1, <2>2, <2>3, <2>4 DEF SettledAck
  <1>4. ASSUME SettledReply PROVE SettledReply'
    <2>1. Txs' = 0 /\ (TwoFaults => TwoFaults')
      BY <1>0, <1>4 DEF SettledReply, TwoFaults, TxSame
    <2>2. TwoFaults \/ (run = me /\ \A i \in 1..Wires : wire[i].kind = "reply" => wire[i].call = me)
      BY <1>0, <1>4 DEF SettledReply
    <2> QED BY <1>0, <1>1, <1>2, <2>1, <2>2 DEF SettledReply
  <1> QED BY <1>3, <1>4

LEMMA SettledLost ==
    ASSUME Typed, Placed, LostOne, me \in Call
    PROVE  /\ SettledAck => SettledAck'
           /\ SettledReply => SettledReply'
  <1>0. /\ Wires \in Nat /\ Txs \in Nat /\ UNCHANGED <<io, me, run>> /\ lost \in Nat /\ lost' = lost + 1
    BY LineFacts, TypeFacts DEF LostOne, host
  <1>1. PICK d \in 0..Wires : ShrunkBy(d)
    BY HostMoves DEF HostStep, WireShrunk
  <1>2. /\ Wires' = Wires - d /\ Wires' \in Nat
        /\ \A i \in 1..Wires' : i + d \in 1..Wires
    BY <1>0, <1>1 DEF ShrunkBy
  <1>3. \A i \in 1..Wires' : wire'[i].kind # "junk" => wire'[i] = wire[i + d]
    BY <1>1, WireBefore
  <1>4. Txs' \in Nat /\ Txs' <= Txs /\ \A i \in 1..Txs' : \E j \in 1..Txs : tx'[i] = tx[j]
    <2>1. TxSame => Txs' = Txs /\ \A i \in 1..Txs' : \E j \in 1..Txs : tx'[i] = tx[j]
      BY DEF TxSame
    <2>2. ASSUME TxTakes PROVE Txs' = Txs - 1 /\ Txs >= 1 /\ \A i \in 1..Txs' : i + 1 \in 1..Txs /\ tx'[i] = tx[i + 1]
      BY <1>0, <2>2 DEF TxTakes
    <2> QED BY <1>0, <2>1, <2>2 DEF LostOne
  <1>5. TwoFaults => TwoFaults'
    BY <1>0 DEF TwoFaults
  <1>6. ASSUME SettledAck PROVE SettledAck'
    <2>1. \A i \in 1..Txs' : tx'[i] = Request(me')
      BY <1>0, <1>4, <1>6 DEF SettledAck
    <2>2. ASSUME Txs' > 0
          PROVE  (\A i \in 1..Wires' : wire'[i].kind \notin {"ack", "refused"}) /\ lost' > 0
      <3>1. Txs > 0
        BY <1>0, <1>4, <2>2
      <3> QED BY <1>0, <1>2, <1>3, <1>6, <3>1 DEF SettledAck
    <2>3. ASSUME NEW i \in 1..Wires', wire'[i].kind \in {"ack", "refused"}
          PROVE  /\ i + d \in 1..Wires /\ wire'[i] = wire[i + d]
                 /\ \A j \in i + 1 .. Wires' : j \in 1..Wires' /\ j + d \in i + d + 1 .. Wires /\ wire'[j] = wire[j + d]
      <3>1. i + d \in 1..Wires /\ wire'[i] = wire[i + d]
        BY <1>2, <1>3, <2>3
      <3>2. ASSUME NEW j \in i + 1 .. Wires' PROVE j \in 1..Wires' /\ j + d \in i + d + 1 .. Wires /\ wire'[j] = wire[j + d]
        <4>1. j \in 1..Wires' /\ j + d \in i + d + 1 .. Wires /\ j # 1
          BY <1>0, <1>1, <1>2
        <4> QED BY <1>1, <4>1 DEF ShrunkBy
      <3> QED BY <3>1, <3>2
    <2>4. ASSUME NEW i \in 1..Wires', wire'[i].kind = "ack"
          PROVE  run' \in {me', Nil} /\ \A j \in i + 1 .. Wires' : wire'[j] = Reply(me')
      <3>1. i + d \in 1..Wires /\ wire[i + d].kind = "ack"
        BY <2>3, <2>4
      <3>2. run \in {me, Nil} /\ \A j \in i + d + 1 .. Wires : wire[j] = Reply(me)
        BY <1>6, <3>1 DEF SettledAck
      <3> QED BY <1>0, <2>3, <2>4, <3>2
    <2>5. ASSUME NEW i \in 1..Wires', wire'[i].kind = "refused"
          PROVE  TwoFaults' \/ (io' = "arygon" /\ run' = Nil /\ \A j \in i + 1 .. Wires' : wire'[j].kind # "reply")
      <3>1. i + d \in 1..Wires /\ wire[i + d].kind = "refused"
        BY <2>3, <2>5
      <3>2. TwoFaults \/ (io = "arygon" /\ run = Nil /\ \A j \in i + d + 1 .. Wires : wire[j].kind # "reply")
        BY <1>6, <3>1 DEF SettledAck
      <3> QED BY <1>0, <1>5, <2>3, <2>5, <3>2
    <2> QED BY <2>1, <2>2, <2>4, <2>5 DEF SettledAck
  <1>7. ASSUME SettledReply PROVE SettledReply'
    <2>1. Txs' = 0
      BY <1>0, <1>4, <1>7 DEF SettledReply
    <2>2. TwoFaults \/ (run \in {me, Nil} /\ \A i \in 1..Wires : wire[i].kind = "reply" => wire[i].call = me)
      BY <1>7 DEF SettledReply
    <2> QED BY <1>0, <1>2, <1>3, <1>5, <2>1, <2>2 DEF SettledReply
  <1> QED BY <1>6, <1>7

LEMMA SettledStep ==
    ASSUME Typed, Placed, Order, Leftover, Settled, [Next]_vars
    PROVE  Settled'
  <1>0. /\ lost \in Nat /\ pc \in {"idle", "ack", "receive"} /\ stage \in {"closed", "open"} \cup DOMAIN StageCmd
    BY TypeFacts, StageCmds
  <1>1. ASSUME UNCHANGED <<io, result>>, lost' >= lost, lost' \in Nat, hasty => hasty'
        PROVE  Foreign' /\ result'.call.cmd \in AppCmd => hasty' \/ TwoFaults'
    BY <1>0, <1>1 DEF Settled, Foreign, TwoFaults
  <1>2. CASE Opened
    <2>1. pc' = "idle" /\ result'.outcome = "none"
      BY <1>2 DEF Opened, Placed
    <2> QED BY <2>1 DEF Settled, Foreign
  <1>3. CASE Requested
    <2>1. UNCHANGED <<io, result, lost>> /\ stage' = stage /\ (hasty => hasty')
      BY <1>3 DEF Requested
    <2>2. stage = "open" => pc' = "ack"
      BY <1>3, StageCmds DEF Requested
    <2>3. stage = "open" /\ ~hasty' => SettledAck'
      BY <1>3, SettledRequested
    <2>4. Foreign' /\ result'.call.cmd \in AppCmd => hasty' \/ TwoFaults'
      BY <1>0, <1>1, <2>1
    <2> QED BY <2>1, <2>2, <2>3, <2>4 DEF Settled
  <1>4. CASE Acknowledged
    <2>1. pc = "ack" /\ pc' = "receive" /\ UNCHANGED <<io, stage, outer, result, hasty, lost>>
      BY <1>4 DEF Acknowledged
    <2>2. stage' = "open" /\ outer' = Nil /\ ~hasty' => SettledReply'
      BY <1>4, <2>1, SettledAcknowledged DEF Settled
    <2>3. Foreign' /\ result'.call.cmd \in AppCmd => hasty' \/ TwoFaults'
      BY <1>0, <1>1, <2>1
    <2> QED BY <2>1, <2>2, <2>3 DEF Settled
  <1>5. CASE Ended
    <2>1. /\ pc' = "idle" /\ UNCHANGED <<io, hasty>> /\ result'.call = (IF outer = Nil THEN me ELSE outer) /\ Busy
          /\ outer # Nil => result'.outcome # "payload"
          /\ result'.outcome = "payload" =>
                pc = "receive" /\ Wires >= 1 /\ wire[1].kind = "reply" /\ result'.from = wire[1].call
      BY <1>5 DEF Ended
    <2>2. lost' \in Nat /\ lost' >= lost
      BY <1>5 DEF Ended
    <2>3. ASSUME Foreign', result'.call.cmd \in AppCmd, ~hasty' PROVE TwoFaults'
      <3>1. outer = Nil /\ result'.call = me /\ pc = "receive" /\ wire[1].kind = "reply" /\ wire[1].call # me /\ 1 \in 1..Wires
        BY <2>1, <2>3, LineFacts DEF Foreign
      <3>2. stage = "open"
        BY <1>0, <2>1, <2>3, <3>1, StageCmds DEF Placed
      <3>3. SettledReply
        BY <2>1, <2>3, <3>1, <3>2 DEF Settled
      <3>4. TwoFaults
        BY <3>1, <3>3 DEF SettledReply
      <3> QED BY <1>0, <2>1, <2>2, <3>4 DEF TwoFaults
    <2> QED BY <2>1, <2>3 DEF Settled
  <1>6. CASE Nested
    <2>1. outer' # Nil /\ UNCHANGED <<io, result, hasty, lost>>
      <3>1. me \in Call
        BY <1>6, TypeFacts DEF Nested, Placed, Busy
      <3> QED BY <1>6, <3>1, Constants DEF Nested
    <2>2. Foreign' /\ result'.call.cmd \in AppCmd => hasty' \/ TwoFaults'
      BY <1>0, <1>1, <2>1
    <2> QED BY <2>1, <2>2 DEF Settled
  <1>7. CASE Unmoved
    <2>1. TxSame /\ WireSame /\ UNCHANGED <<io, pc, me, outer, result, hasty, run, lost>>
      BY <1>7 DEF Unmoved
    <2>2. stage' = "open" => stage = "open"
      BY <1>7, <2>1 DEF Unmoved
    <2>3. (SettledAck => SettledAck') /\ (SettledReply => SettledReply')
      BY <2>1 DEF SettledAck, SettledReply, TwoFaults, TxSame, WireSame
    <2>4. Foreign' /\ result'.call.cmd \in AppCmd => hasty' \/ TwoFaults'
      BY <1>0, <1>1, <2>1
    <2> QED BY <2>1, <2>2, <2>3, <2>4 DEF Settled
  <1>8. CASE Taken \/ Replied \/ LostOne
    <2>1. UNCHANGED <<io, stage, pc, outer, result, hasty>> /\ lost' \in {lost, lost + 1}
      BY <1>8 DEF Taken, Replied, LostOne, host
    <2>2. Foreign' /\ result'.call.cmd \in AppCmd => hasty' \/ TwoFaults'
      BY <1>0, <1>1, <2>1
    <2>3. ASSUME pc # "idle", stage = "open", outer = Nil, ~hasty
          PROVE  (pc = "ack" => SettledAck') /\ (pc = "receive" => SettledReply')
      <3>1. me \in Call
        BY <2>3 DEF Busy, Placed
      <3>2. (pc = "ack" => SettledAck) /\ (pc = "receive" => SettledReply)
        BY <2>3 DEF Settled
      <3> QED BY <1>8, <3>1, <3>2, SettledTaken, SettledReplied, SettledLost
    <2> QED BY <2>1, <2>2, <2>3 DEF Settled
  <1> QED BY <1>2, <1>3, <1>4, <1>5, <1>6, <1>7, <1>8, Steps

-----------------------------------------------------------------------------
(* The aborted command                                                     *)

LEMMA StoppedSame ==
    ASSUME Typed, Stopped, Aborted' = Aborted, TxSame, run' \in {run, Nil}, io' = io, lost' >= lost, lost' \in Nat
    PROVE  Stopped'
  <1>0. lost \in Nat
    BY TypeFacts
  <1> SUFFICES ASSUME io = "arygon", lost' <= 1, Aborted # Nil, run' = Aborted \/ \E i \in 1..Txs : tx[i] = Request(Aborted)
               PROVE  /\ Txs' >= 1 /\ tx'[Txs'] # Request(Aborted)
                      /\ lost' = 0 => Txs' >= 2 /\ tx'[Txs' - 1].kind = "dummy"
    BY DEF Stopped, TxSame
  <1>1. lost <= 1 /\ (lost' = 0 => lost = 0)
    BY <1>0
  <1>2. run = Aborted \/ \E i \in 1..Txs : tx[i] = Request(Aborted)
    OBVIOUS
  <1>3. Txs >= 1 /\ tx[Txs] # Request(Aborted) /\ (lost = 0 => Txs >= 2 /\ tx[Txs - 1].kind = "dummy")
    BY <1>1, <1>2 DEF Stopped
  <1> QED BY <1>1, <1>3 DEF TxSame

\* A packet taken from the line is not the last of those that end the command.
LEMMA StoppedTakes ==
    ASSUME Typed, Stopped, Aborted' = Aborted, TxTakes, io' = io, lost' \in {lost, lost + 1},
           run' = Aborted => \/ tx[1] = Request(Aborted)
                             \/ run = Aborted /\ lost' = lost + 1
                             \/ Aborted = Nil
    PROVE  Stopped'
  <1>0. lost \in Nat /\ Txs \in Nat
    BY TypeFacts, LineFacts
  <1>1. Txs >= 1 /\ Txs' = Txs - 1 /\ \A i \in 1..Txs' : tx'[i] = tx[i + 1] /\ i + 1 \in 2..Txs
    BY <1>0 DEF TxTakes
  <1>2. SUFFICES ASSUME io = "arygon", lost' <= 1, Aborted # Nil,
                        run' = Aborted \/ \E i \in 1..Txs' : tx'[i] = Request(Aborted)
                 PROVE  /\ Txs' >= 1 /\ tx'[Txs'] # Request(Aborted)
                        /\ lost' = 0 => Txs' >= 2 /\ tx'[Txs' - 1].kind = "dummy"
    BY DEF Stopped
  <1>3. lost <= 1 /\ (lost' = 0 => lost = 0) /\ (lost' = lost + 1 => lost = 0 /\ lost' # 0)
    BY <1>0, <1>2
  <1>4. (run = Aborted /\ lost' = lost + 1) \/ \E i \in 1..Txs : tx[i] = Request(Aborted)
    <2>1. 1 \in 1..Txs /\ 2..Txs \subseteq 1..Txs
      BY <1>0, <1>1
    <2> QED BY <1>1, <1>2, <2>1
  <1>5. Txs >= 1 /\ tx[Txs] # Request(Aborted) /\ (lost = 0 => Txs >= 2 /\ tx[Txs - 1].kind = "dummy")
    BY <1>2, <1>3, <1>4 DEF Stopped
  <1>6. Aborted \in Call
    BY <1>2, TypeFacts DEF Aborted
  <1>7. Request(Aborted).kind # "dummy"
    BY <1>6, Constants
  <1>8. Txs >= 2 /\ (lost' = 0 => Txs >= 3)
    <2>1. CASE run = Aborted /\ lost' = lost + 1
      BY <1>3, <1>5, <2>1
    <2>2. CASE \E i \in 1..Txs : tx[i] = Request(Aborted)
      <3>1. PICK i \in 1..Txs : tx[i] = Request(Aborted)
        BY <2>2
      <3>2. i # Txs /\ (lost = 0 => i # Txs - 1)
        BY <1>5, <1>7, <3>1
      <3> QED BY <1>0, <1>3, <3>1, <3>2
    <2> QED BY <1>4, <2>1, <2>2
  <1>9. Txs' >= 1 /\ (lost' = 0 => Txs' >= 2)
    BY <1>0, <1>1, <1>8
  <1>10. tx'[Txs'] = tx[Txs]
    <2>1. Txs' \in 1..Txs' /\ Txs' + 1 = Txs
      BY <1>0, <1>1, <1>8
    <2> QED BY <1>1, <2>1
  <1>11. ASSUME lost' = 0 PROVE tx'[Txs' - 1] = tx[Txs - 1]
    <2>1. Txs' - 1 \in 1..Txs' /\ (Txs' - 1) + 1 = Txs - 1
      BY <1>0, <1>1, <1>8, <1>11
    <2> QED BY <1>1, <2>1
  <1> QED BY <1>3, <1>5, <1>9, <1>10, <1>11

LEMMA StoppedStep ==
    ASSUME Typed, Placed, Stopped, [Next]_vars
    PROVE  Stopped'
  <1>0. lost \in Nat /\ Txs \in Nat /\ calls \in Nat /\ run \in Call \cup {Nil} /\ outer \in Call \cup {Nil}
        /\ me \in Call \cup {Nil} /\ pc \in {"idle", "ack", "receive"}
    BY TypeFacts, LineFacts
  <1>1. Aborted' = Nil => Stopped'
    BY DEF Stopped
  <1>2. CASE Opened
    <2>1. outer' = Nil /\ result'.outcome = "none"
      BY <1>2 DEF Opened, Placed
    <2>2. Aborted' = Nil
      BY <2>1 DEF Aborted
    <2> QED BY <1>1, <2>2
  <1>3. CASE Requested
    <2>1. outer' = Nil /\ pc' # "idle"
      BY <1>3 DEF Requested, Placed
    <2>2. Aborted' = Nil
      BY <2>1 DEF Aborted
    <2> QED BY <1>1, <2>2
  <1>4. CASE Acknowledged
    <2>1. TxSame /\ UNCHANGED <<io, outer, run, lost>> /\ pc = "ack" /\ pc' = "receive"
      BY <1>4 DEF Acknowledged
    <2>2. Aborted' = Aborted
      BY <2>1 DEF Aborted
    <2> QED BY <1>0, <2>1, <2>2, StoppedSame
  <1>5. CASE Ended
    <2>1. /\ pc' = "idle" /\ outer' = Nil /\ UNCHANGED <<io, run>> /\ lost' \in Nat /\ lost' >= lost
          /\ result'.call = (IF outer = Nil THEN me ELSE outer) /\ (outer # Nil => result'.outcome = "EOPABORTED")
          /\ io = "arygon" /\ outer = Nil => result'.outcome # "EOPABORTED"
      BY <1>5 DEF Ended
    <2>2. CASE outer = Nil
      <3>1. io' = "arygon" => Aborted' = Nil
        BY <2>1, <2>2 DEF Aborted
      <3> QED BY <3>1 DEF Stopped
    <2>3. CASE outer # Nil
      <3>1. Aborted' = outer /\ Aborted = outer
        BY <2>1, <2>3 DEF Aborted
      <3>2. CASE TxSame
        BY <2>1, <3>1, <3>2, StoppedSame
      <3>3. CASE lost' = lost + 1 /\ TxDrops
        <4>1. Txs' = Txs - 1 /\ \A i \in 1..Txs' : tx'[i] = tx[i]
          BY <3>3 DEF TxDrops
        <4>2. SUFFICES ASSUME io = "arygon", lost' <= 1, run = outer \/ \E i \in 1..Txs' : tx'[i] = Request(outer)
                       PROVE  Txs' >= 1 /\ tx'[Txs'] # Request(outer) /\ lost' # 0
          BY <2>1, <3>1 DEF Stopped
        <4>3. lost = 0 /\ lost' # 0
          BY <1>0, <3>3, <4>2
        <4>4. run = outer \/ \E i \in 1..Txs : tx[i] = Request(outer)
          <5>1. 1..Txs' \subseteq 1..Txs
            BY <1>0, <4>1
          <5> QED BY <4>1, <4>2, <5>1
        <4>5. Txs >= 2 /\ tx[Txs - 1].kind = "dummy"
          BY <2>3, <3>1, <4>2, <4>3, <4>4 DEF Stopped
        <4>6. Txs' >= 1 /\ Txs' \in 1..Txs'
          BY <1>0, <4>1, <4>5
        <4>7. tx'[Txs'].kind = "dummy"
          BY <4>1, <4>5, <4>6
        <4>8. Request(outer).kind # "dummy"
          BY <1>0, <2>3, Constants
        <4> QED BY <4>3, <4>6, <4>7, <4>8
      <3> QED BY <1>5, <3>2, <3>3 DEF Ended
    <2> QED BY <2>2, <2>3
  <1>6. CASE Nested
    <2>1. /\ Txs' = Txs + 2 /\ tx'[Txs + 1] = Dummy /\ tx'[Txs + 2] = Request(me') /\ me' \in Call /\ me'.id = calls + 1
          /\ outer' = (IF outer = Nil THEN me ELSE outer)
      BY <1>6 DEF Nested
    <2>2. me \in Call /\ me.id = calls
      BY <1>6, TypeFacts DEF Nested, Placed, Busy, Typed
    <2>3. outer' \in Call /\ outer' # Nil /\ outer'.id \in Nat /\ outer'.id <= calls
      BY <1>0, <2>1, <2>2, Constants DEF Placed
    <2>4. Aborted' = outer' /\ outer' # me'
      BY <1>0, <2>1, <2>3 DEF Aborted
    <2>5. Request(outer') # Request(me')
      BY <2>1, <2>3, <2>4, Constants
    <2>6. Txs' >= 2 /\ Txs' - 1 = Txs + 1 /\ Txs' >= 1
      BY <1>0, <2>1
    <2>7. tx'[Txs' - 1].kind = "dummy" /\ tx'[Txs'] = Request(me')
      BY <2>1, <2>6, Constants
    <2> QED BY <2>4, <2>5, <2>6, <2>7 DEF Stopped
  <1>7. CASE Unmoved
    <2>1. TxSame /\ UNCHANGED <<io, pc, outer, result, run, lost>>
      BY <1>7 DEF Unmoved
    <2>2. Aborted' = Aborted
      BY <2>1 DEF Aborted
    <2> QED BY <1>0, <2>1, <2>2, StoppedSame
  <1>8. CASE Taken
    <2>1. TxTakes /\ io' = io /\ lost' \in {lost, lost + 1} /\ UNCHANGED <<pc, outer, result>>
      BY <1>8 DEF Taken, host
    <2>2. Aborted' = Aborted
      BY <2>1 DEF Aborted
    <2>3. tx[1] \in TxFrame /\ (tx[1].kind = "request" => tx[1] = Request(tx[1].call))
      BY <1>0, <2>1, LineFacts, Constants DEF TxTakes
    <2>4. run' = Aborted => tx[1] = Request(Aborted) \/ (run = Aborted /\ lost' = lost + 1) \/ Aborted = Nil
      BY <1>8, <2>3 DEF Taken
    <2> QED BY <2>1, <2>2, <2>4, StoppedTakes
  <1>9. CASE Replied
    <2>1. TxSame /\ UNCHANGED <<io, pc, outer, result, lost>> /\ run' = Nil
      BY <1>9 DEF Replied, host
    <2>2. Aborted' = Aborted
      BY <2>1 DEF Aborted
    <2> QED BY <1>0, <2>1, <2>2, StoppedSame
  <1>10. CASE LostOne
    <2>1. UNCHANGED <<io, pc, outer, result, run>> /\ lost' = lost + 1
      BY <1>10 DEF LostOne, host
    <2>2. Aborted' = Aborted
      BY <2>1 DEF Aborted
    <2>3. CASE TxTakes
      BY <2>1, <2>2, <2>3, StoppedTakes
    <2>4. CASE TxSame
      BY <1>0, <2>1, <2>2, <2>4, StoppedSame
    <2> QED BY <1>10, <2>3, <2>4 DEF LostOne
  <1> QED BY <1>2, <1>3, <1>4, <1>5, <1>6, <1>7, <1>8, <1>9, <1>10, Steps

-----------------------------------------------------------------------------
(* The theorems                                                            *)

LEMMA SerialStart == Init => SerialInv
  <1> SUFFICES ASSUME Init PROVE SerialInv
    OBVIOUS
  <1>1. /\ io \in Io /\ stage = "closed" /\ pc = "idle" /\ me = Nil /\ outer = Nil /\ last_command = "none" /\ seq = 0
        /\ result = [call |-> Nil, outcome |-> "none", from |-> Nil] /\ acked = {} /\ tx = <<>> /\ wire = <<>> /\ run = Nil
        /\ calls = 0 /\ aborts = 0 /\ lost = 0
    BY DEF Init
  <1>2. Txs = 0 /\ Wires = 0 /\ tx \in Seq(TxFrame) /\ wire \in Seq(WireFrame)
    BY <1>1, NoFrames DEF Txs, Wires
  <1>3. /\ signalled \in BOOLEAN /\ pipe_ok \in BOOLEAN /\ failed \in BOOLEAN /\ hasty \in BOOLEAN
        /\ half \in BOOLEAN /\ gone \in BOOLEAN /\ ~signalled /\ pipe_ok
    <2>1. half = FALSE /\ gone = FALSE /\ signalled = FALSE /\ pipe_ok = TRUE /\ failed = FALSE /\ hasty = FALSE
      BY DEF Init
    <2> QED BY <2>1, Zenon
  <1>4. Typed
    <2>1. TypeOK
      BY <1>1, <1>3, SerialAssumption DEF TypeOK, Outcome, Busy
    <2>2. io \in {"arygon", "acr122s"} /\ me.id = calls
      BY <1>1, SerialAssumption DEF Nil
    <2>3. calls \in Nat /\ aborts \in 0..MaxAborts /\ lost \in 0..MaxLost /\ calls <= MaxCalls + aborts
      BY <1>1, SerialAssumption
    <2> QED BY <1>1, <1>2, <1>3, <2>1, <2>2, <2>3 DEF Typed
  <1>5. result.outcome = "none" /\ result.call = Nil
    BY <1>1
  <1>6. Placed
    BY <1>1, <1>3, <1>5, Constants DEF Placed, Busy
  <1>7. Order /\ Own /\ Steady /\ Settled /\ Leftover
    BY <1>1, <1>2, <1>5 DEF Order, Own, Steady, Settled, Leftover, Foreign
  <1>8. Stopped
    BY <1>1, <1>5 DEF Stopped, Aborted
  <1> QED BY <1>4, <1>6, <1>7, <1>8 DEF SerialInv

LEMMA SerialStep == SerialInv /\ [Next]_vars => SerialInv'
  BY TypedStep, PlacedStep, OrderStep, OwnStep, SteadyStep, SettledStep, LeftoverStep, StoppedStep DEF SerialInv

\* The invariant of pn53x_transceive over drivers/arygon.c and drivers/acr122s.c: what
\* each stage asks, the order of requests and answers, what can be under way on a line
\* on which no call failed or the callers let it settle, and what ends an aborted command.
THEOREM SerialInductive == Spec => []SerialInv
  <1>1. Init => SerialInv
    BY SerialStart
  <1>2. SerialInv /\ [Next]_vars => SerialInv'
    BY SerialStep
  <1> QED BY <1>1, <1>2, PTL DEF Spec

\* arygon_tama_send, acr122s_send and the receives after them: a call returns the answer
\* to another one only after a call has failed, only when it did not read its own
\* acknowledgement, and, if the application made it, only where the line was not let
\* settle or two faults left an older blocking command running on the ARYGON.
THEOREM ForeignNeedsHasteHolds == Spec => []ForeignNeedsHaste
  <1>1. SerialInv => ForeignNeedsHaste
    BY DEF SerialInv, Own, Steady, Settled, TwoFaults, ForeignNeedsHaste
  <1> QED BY <1>1, SerialInductive, PTL

\* arygon_abort: when an aborted call returns, the command it left running is followed
\* by a packet that will end it, unless both the dummy packet and Diagnose were lost.
THEOREM AbortStopsCommandHolds == Spec => []AbortStopsCommand
  <1>1. ASSUME SerialInv PROVE AbortStopsCommand
    <2>1. Typed /\ TypeOK /\ Txs \in Nat
      BY <1>1, LineFacts DEF SerialInv, Typed
    <2>2. ASSUME io = "arygon", pc = "idle", result.outcome = "EOPABORTED", run = result.call, lost <= 1
          PROVE  \E i \in 1..Len(tx) : tx[i].kind \in {"request", "dummy"}
      <3>1. outer = Nil /\ result.call # Nil
        BY <1>1, <2>2 DEF SerialInv, Placed
      <3>2. Aborted = result.call
        BY <2>2, <3>1 DEF Aborted
      <3>3. Txs >= 1
        BY <1>1, <2>2, <3>1, <3>2 DEF SerialInv, Stopped
      <3>4. Txs \in 1..Txs /\ tx[Txs] \in TxFrame
        BY <2>1, <3>3, LineFacts
      <3>5. tx[Txs].kind \in {"request", "dummy"}
        BY <3>4, Constants
      <3> QED BY <3>4, <3>5 DEF Txs
    <2> QED BY <2>1, <2>2 DEF AbortStopsCommand
  <1> QED BY <1>1, SerialInductive, PTL
=============================================================================
