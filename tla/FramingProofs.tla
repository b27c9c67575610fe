--------------------------- MODULE FramingProofs ---------------------------
(***************************************************************************)
(* For frames of any length: pn53x_wrap_frame puts every bit in its place, *)
(* and what one device sends another receives unchanged.  For answers of   *)
(* any length: a timed exchange gives them in order.  For every time-out:  *)
(* the code the chip is told comes near it.  For any cards: what a         *)
(* selection or a listing gives is what the cards said.                    *)
(*                                                                         *)
(* The loop invariants rest on one linear relation between the positions   *)
(* of each loop: data byte uiDataPos and its parity bit begin at bit       *)
(* 9 * uiDataPos of the frame, which is bit uiBitPos of the byte the       *)
(* pointer is at.                                                          *)
(***************************************************************************)
EXTENDS Framing, Timing, Targets, FiniteSetTheorems, SequenceTheorems, TLAPS

\* The length of the frame on the air.
FrameBits == IF bPar \/ szTxBits < 9 THEN szTxBits ELSE szTxBits + (szTxBits \div 8)

\* The first bits of the frame are those of the air frame.
FrameHolds == \A n \in 0 .. szFrameBits - 1 : frame[n] = OnAir(n)

\* The first d data bytes of a wrapped frame, each with its parity bit.
Placed(d) == \A i \in Nat : i < d =>
                /\ \A k \in 0..7 : frame[9 * i + k] = Data(i, k)
                /\ frame[9 * i + 8] = Parity(i)

InWrap ==
    pc = "wrap" => szBitsLeft = szTxBits /\ uiDataPos = 0 /\ uiBitPos = 0 /\ pbtFrame = 0 /\ ret = 0

InLoop ==
    pc = "loop" =>
        /\ ~bPar /\ szTxBits > 8 /\ szFrameBits = FrameBits
        /\ 8 * pbtFrame + uiBitPos = 9 * uiDataPos
        /\ szBitsLeft = szTxBits - 8 * uiDataPos /\ szBitsLeft > 0
        /\ Placed(uiDataPos)

InSend == pc = "send" => szFrameBits = FrameBits /\ FrameHolds /\ (bPar \/ szTxBits > 0)

InUnwrap ==
    pc = "unwrap" =>
        /\ szFrameBits = FrameBits /\ FrameHolds
        /\ bPar \/ szTxBits > 0
        /\ szBitsLeft = szFrameBits
        /\ uiDataPos = 0 /\ uiBitPos = 0 /\ pbtFrame = 0

\* The first d bytes have been received, as far as they belong to the frame.
Received(d) ==
    /\ \A n \in 0 .. szTxBits - 1 : n < 8 * d => pbtRx[n] = Data(n \div 8, n % 8)
    /\ \A i \in 0 .. (szTxBits \div 8) - 1 : i < d => pbtRxPar[i] = Parity(i)

InReverse ==
    pc = "reverse" =>
        /\ ~bPar /\ szTxBits > 8 /\ szFrameBits = FrameBits /\ FrameHolds
        /\ ret = szTxBits
        /\ 8 * pbtFrame + uiBitPos = uiDataPos
        /\ szBitsLeft = szFrameBits - 9 * uiDataPos
        /\ Received(uiDataPos)

AtEnd == pc = "done" => RoundTrip /\ OneByteOver

Buffers == DOMAIN frame = 0..Cap /\ DOMAIN pbtRx = 0..Cap /\ DOMAIN pbtRxPar = 0..Cap
              /\ pbtRxPar = [i \in 0..Cap |-> pbtRxPar[i]]

\* The inductive invariant.
FramingInv == TypeOK /\ Buffers /\ InWrap /\ InLoop /\ InSend /\ InUnwrap /\ InReverse /\ AtEnd

USE FramingAssumption

\* The lengths: eight bits become nine and back, and the bytes and last bits
\* handed to the chip determine the number of bits.
LEMMA WrappedLength ==
    \A n \in Nat : /\ n + (n \div 8) \in Nat
                   /\ n + (n \div 8) <= 2 * n
                   /\ (n + (n \div 8)) - ((n + (n \div 8)) \div 9) = n
  BY SMT

LEMMA RecoveredLength == TypeOK => SentBits = szFrameBits /\ Recovered = szFrameBits
  BY SMT DEF TypeOK, SentBits, Recovered, RxBytes, RxLastBits, ui8Bits, szFrameBytes, Cap

\* Once the loop of pn53x_wrap_frame has placed the bytes that these bits need,
\* every bit of the frame fr is right.
LEMMA PlacedIsRight ==
    ASSUME NEW fr, NEW bits \in Nat, NEW d \in Nat, 8 * d >= bits,
           \A i \in Nat : i < d => /\ \A k \in 0..7 : fr[9 * i + k] = Data(i, k)
                                   /\ fr[9 * i + 8] = Parity(i),
           NEW n \in 0 .. (bits + (bits \div 8)) - 1
    PROVE  fr[n] = IF n % 9 = 8 THEN Parity(n \div 9) ELSE Data(n \div 9, n % 9)
  <1>1. PICK i \in Nat, k \in 0..8 : i = n \div 9 /\ k = n % 9
    BY SMT
  <1>2. n = 9 * i + k /\ i < d
    BY <1>1, SMT
  <1>3. CASE k = 8
    <2>1. fr[9 * i + 8] = Parity(i)
      BY <1>2
    <2> QED BY <1>1, <1>2, <1>3, <2>1
  <1>4. CASE k # 8
    <2>1. k \in 0..7
      BY <1>4, SMT
    <2>2. fr[9 * i + k] = Data(i, k)
      BY <1>2, <2>1
    <2> QED BY <1>1, <1>2, <1>4, <2>2
  <1> QED BY <1>3, <1>4

LEMMA InitFraming == Init => FramingInv
  <1> SUFFICES ASSUME Init PROVE FramingInv
    OBVIOUS
  <1>1. TypeOK
    BY SMT DEF Init, TypeOK, Cap
  <1>2. Buffers
    BY DEF Init, Buffers
  <1>3. InWrap /\ InLoop /\ InSend /\ InUnwrap /\ InReverse /\ AtEnd
    BY DEF Init, InWrap, InLoop, InSend, InUnwrap, InReverse, AtEnd
  <1> QED BY <1>1, <1>2, <1>3 DEF FramingInv

LEMMA StepCopy == FramingInv /\ copy => FramingInv'
  <1> SUFFICES ASSUME FramingInv, copy PROVE FramingInv'
    OBVIOUS
  <1> USE DEF copy
  <1>1. TypeOK'
    BY SMT DEF FramingInv, TypeOK, Cap, loopVars
  <1>2. Buffers'
    BY DEF FramingInv, Buffers, Cap
  <1>3. InSend'
    <2>1. szFrameBits' = FrameBits' /\ (bPar \/ szTxBits > 0)'
      BY SMT DEF FrameBits, FramingInv, TypeOK
    <2>2. ASSUME NEW n \in 0 .. szTxBits - 1 PROVE frame'[n] = Data(n \div 8, n % 8)
      BY <2>2, SMT DEF FramingInv, TypeOK, Cap
    <2>3. bPar \/ szTxBits < 9
      BY SMT DEF FramingInv, TypeOK
    <2> QED BY <2>1, <2>2, <2>3 DEF InSend, FrameHolds, OnAir
  <1>4. InWrap' /\ InLoop' /\ InUnwrap' /\ InReverse' /\ AtEnd'
    BY DEF InWrap, InLoop, InUnwrap, InReverse, AtEnd
  <1> QED BY <1>1, <1>2, <1>3, <1>4 DEF FramingInv

LEMMA StepWrapNothing == FramingInv /\ wrap_nothing => FramingInv'
  <1> SUFFICES ASSUME FramingInv, wrap_nothing PROVE FramingInv'
    OBVIOUS
  <1> USE DEF wrap_nothing, Fails
  <1>1. TypeOK'
    BY SMT DEF FramingInv, TypeOK, Cap, loopVars
  <1>2. Buffers'
    BY DEF FramingInv, Buffers
  <1>3. InWrap' /\ InLoop' /\ InSend' /\ InUnwrap' /\ InReverse'
    BY DEF InWrap, InLoop, InSend, InUnwrap, InReverse
  <1>4. AtEnd'
    BY <1>1, SMT DEF AtEnd, RoundTrip, OneByteOver
  <1> QED BY <1>1, <1>2, <1>3, <1>4 DEF FramingInv

LEMMA StepWrapFrame == FramingInv /\ wrap_frame => FramingInv'
  <1> SUFFICES ASSUME FramingInv, wrap_frame PROVE FramingInv'
    OBVIOUS
  <1> USE DEF wrap_frame
  <1>1. TypeOK'
    BY WrappedLength, SMT DEF FramingInv, TypeOK, Cap, loopVars
  <1>2. Buffers'
    BY DEF FramingInv, Buffers
  <1>3. InLoop'
    <2>1. szFrameBits' = FrameBits' /\ ~bPar' /\ (szTxBits > 8)'
      BY SMT DEF FrameBits, FramingInv, TypeOK
    <2>2. (8 * pbtFrame + uiBitPos = 9 * uiDataPos)' /\ (szBitsLeft = szTxBits - 8 * uiDataPos /\ szBitsLeft > 0)'
      BY SMT DEF FramingInv, InWrap, TypeOK, loopVars
    <2>3. Placed(uiDataPos)'
      BY SMT DEF FramingInv, InWrap, Placed, loopVars
    <2> QED BY <2>1, <2>2, <2>3 DEF InLoop
  <1>4. InWrap' /\ InSend' /\ InUnwrap' /\ InReverse' /\ AtEnd'
    BY DEF InWrap, InSend, InUnwrap, InReverse, AtEnd
  <1> QED BY <1>1, <1>2, <1>3, <1>4 DEF FramingInv

LEMMA StepWrapStep == FramingInv /\ wrap_step => FramingInv'
  <1> SUFFICES ASSUME FramingInv, wrap_step PROVE FramingInv'
    OBVIOUS
  <1> USE DEF wrap_step
  <1>1. /\ ~bPar /\ szTxBits > 8 /\ szFrameBits = FrameBits
        /\ 8 * pbtFrame + uiBitPos = 9 * uiDataPos
        /\ szBitsLeft = szTxBits - 8 * uiDataPos /\ szBitsLeft > 0
        /\ Placed(uiDataPos) /\ TypeOK
    BY DEF FramingInv, InLoop
  <1>2. TypeOK'
    BY <1>1, SMT DEF TypeOK, Cap
  <1>3. Buffers'
    BY DEF FramingInv, Buffers, Wrapped
  <1>4. Placed(uiDataPos)'
    <2> SUFFICES ASSUME NEW i \in Nat, i < uiDataPos + 1
                 PROVE  /\ \A k \in 0..7 : frame'[9 * i + k] = Data(i, k)
                        /\ frame'[9 * i + 8] = Parity(i)
      BY <1>1, SMT DEF Placed, TypeOK
    <2>1. 9 * i + 8 <= Cap /\ 9 * i + 8 \in 0..Cap /\ uiDataPos \in Nat
      BY <1>1, SMT DEF TypeOK, Cap
    <2>2. ASSUME NEW n \in 0 .. Cap
          PROVE  /\ n < 9 * uiDataPos => frame'[n] = frame[n]
                 /\ n >= 9 * uiDataPos /\ n < 9 * uiDataPos + 8 => frame'[n] = Data(uiDataPos, n - 9 * uiDataPos)
                 /\ n = 9 * uiDataPos + 8 => frame'[n] = Parity(uiDataPos)
      <3> DEFINE first == 8 * pbtFrame + uiBitPos
      <3>1. first \in Nat /\ first = 9 * uiDataPos /\ n \in Nat
        BY <1>1, SMT DEF TypeOK, Cap
      <3>2. frame'[n] = CASE n \in first .. first + 7 -> Data(uiDataPos, n - first)
                          [] n = first + 8 -> Parity(uiDataPos)
                          [] n \in first + 9 .. 8 * pbtFrame + 15 -> Blank
                          [] OTHER -> frame[n]
        BY <2>2, Zenon DEF Wrapped
      <3> HIDE DEF first
      <3> QED BY <1>1, <3>1, <3>2, SMT DEF TypeOK
    <2>3. CASE i < uiDataPos
      <3>1. frame[9 * i + 8] = Parity(i) /\ frame'[9 * i + 8] = frame[9 * i + 8]
        BY <1>1, <2>1, <2>2, <2>3, SMT DEF Placed
      <3>2. ASSUME NEW k \in 0..7 PROVE frame'[9 * i + k] = Data(i, k)
        <4>1. 9 * i + k \in 0..Cap /\ 9 * i + k < 9 * uiDataPos
          BY <1>1, <2>1, <2>3, SMT DEF TypeOK, Cap
        <4> QED BY <1>1, <2>2, <2>3, <4>1 DEF Placed
      <3> QED BY <3>1, <3>2
    <2>4. CASE i = uiDataPos
      <3>1. frame'[9 * i + 8] = Parity(i)
        BY <2>1, <2>2, <2>4, SMT
      <3>2. ASSUME NEW k \in 0..7 PROVE frame'[9 * i + k] = Data(i, k)
        <4>1. 9 * i + k \in 0..Cap
          BY <1>1, <2>1, SMT DEF TypeOK, Cap
        <4> QED BY <1>1, <2>1, <2>2, <2>4, <4>1, SMT
      <3> QED BY <3>1, <3>2
    <2> QED BY <2>1, <2>3, <2>4, SMT
  <1>5. CASE szBitsLeft < 9
    <2>1. pc' = "send" /\ szFrameBits' = FrameBits' /\ ~bPar' /\ (szTxBits > 8)' /\ uiDataPos' = uiDataPos + 1
      BY <1>1, <1>5 DEF FrameBits
    <2>2. 8 * (uiDataPos + 1) >= szTxBits /\ uiDataPos + 1 \in Nat
      BY <1>1, <1>5, SMT DEF TypeOK
    <2>3. FrameHolds'
      <3>1. szTxBits \in Nat /\ szTxBits' = szTxBits /\ szFrameBits' = szTxBits + (szTxBits \div 8)
        BY <1>1, SMT DEF TypeOK, FrameBits
      <3>2. ASSUME NEW n \in 0 .. szFrameBits' - 1 PROVE frame'[n] = OnAir(n)'
        <4>1. n \in 0 .. (szTxBits + (szTxBits \div 8)) - 1
          BY <3>1, <3>2
        <4>2. \A i \in Nat : i < uiDataPos + 1 => /\ \A k \in 0..7 : frame'[9 * i + k] = Data(i, k)
                                                 /\ frame'[9 * i + 8] = Parity(i)
          BY <1>4, <2>1 DEF Placed
        <4>3. frame'[n] = IF n % 9 = 8 THEN Parity(n \div 9) ELSE Data(n \div 9, n % 9)
          BY <2>2, <3>1, <4>1, <4>2, PlacedIsRight
        <4>4. ~(bPar \/ szTxBits < 9)'
          BY <1>1, <3>1, SMT
        <4> QED BY <4>3, <4>4 DEF OnAir
      <3> QED BY <3>2 DEF FrameHolds
    <2>4. InSend'
      BY <1>2, <2>1, <2>3, SMT DEF InSend, TypeOK
    <2> QED BY <1>2, <1>3, <2>1, <2>4 DEF FramingInv, InWrap, InLoop, InUnwrap, InReverse, AtEnd
  <1>6. CASE ~(szBitsLeft < 9)
    <2>1. pc' = "loop" /\ szFrameBits' = FrameBits' /\ ~bPar' /\ (szTxBits > 8)' /\ uiDataPos' = uiDataPos + 1
      BY <1>1, <1>6 DEF FrameBits
    <2>2. (8 * pbtFrame + uiBitPos = 9 * uiDataPos)'
      BY <1>1, <1>6, SMT DEF TypeOK
    <2>3. (szBitsLeft = szTxBits - 8 * uiDataPos /\ szBitsLeft > 0)'
      BY <1>1, <1>6, SMT DEF TypeOK
    <2>4. Placed(uiDataPos)'
      BY <1>4
    <2>5. InLoop'
      BY <2>1, <2>2, <2>3, <2>4 DEF InLoop
    <2> QED BY <1>2, <1>3, <2>1, <2>5 DEF FramingInv, InWrap, InSend, InUnwrap, InReverse, AtEnd
  <1> QED BY <1>5, <1>6

LEMMA StepTransmit == FramingInv /\ transmit => FramingInv'
  <1> SUFFICES ASSUME FramingInv, transmit PROVE FramingInv'
    OBVIOUS
  <1> USE DEF transmit
  <1>1. SentBits = szFrameBits /\ Recovered = szFrameBits
    BY RecoveredLength DEF FramingInv
  <1>2. TypeOK'
    BY <1>1, SMT DEF FramingInv, TypeOK, Cap
  <1>3. Buffers'
    BY DEF FramingInv, Buffers
  <1>4. szFrameBits' = FrameBits' /\ (bPar \/ szTxBits > 0)'
    BY <1>1 DEF FramingInv, InSend, FrameBits
  <1>5. FrameHolds'
    <2>1. ASSUME NEW n \in 0 .. szFrameBits - 1 PROVE frame'[n] = frame[n] /\ OnAir(n)' = OnAir(n)
      <3>1. n \in 0..Cap /\ n < SentBits
        BY <1>1, SMT DEF FramingInv, TypeOK, Cap
      <3> QED BY <3>1 DEF OnAir
    <2> QED BY <1>1, <2>1 DEF FramingInv, InSend, FrameHolds
  <1>6. InUnwrap'
    BY <1>1, <1>4, <1>5 DEF InUnwrap
  <1> QED BY <1>2, <1>3, <1>6 DEF FramingInv, InWrap, InLoop, InSend, InReverse, AtEnd

LEMMA StepUncopy == FramingInv /\ uncopy => FramingInv'
  <1> SUFFICES ASSUME FramingInv, uncopy PROVE FramingInv'
    OBVIOUS
  <1> USE DEF uncopy
  <1>1. TypeOK /\ szFrameBits = FrameBits /\ FrameHolds
    BY DEF FramingInv, InUnwrap
  <1>2. szFrameBits = szTxBits /\ (bPar \/ szTxBits < 9)
    BY <1>1, SMT DEF TypeOK, FrameBits
  <1>3. TypeOK'
    BY <1>1, <1>2, SMT DEF TypeOK, Cap, loopVars
  <1>4. Buffers'
    BY DEF FramingInv, Buffers
  <1>5. ASSUME NEW n \in 0 .. szTxBits - 1 PROVE pbtRx'[n] = Data(n \div 8, n % 8)
    <2>1. n \in 0..Cap /\ n < 8 * ((szFrameBits + 7) \div 8)
      BY <1>1, <1>2, SMT DEF TypeOK, Cap
    <2>2. pbtRx'[n] = frame[n]
      BY <2>1
    <2>3. frame[n] = OnAir(n)
      BY <1>1, <1>2 DEF FrameHolds
    <2> QED BY <1>2, <2>2, <2>3 DEF OnAir
  <1>6. RoundTrip' /\ OneByteOver'
    <2>1. ~(~bPar /\ szTxBits > 8)
      BY <1>1, <1>2, SMT DEF TypeOK
    <2> QED BY <1>2, <1>3, <1>5, <2>1 DEF RoundTrip, OneByteOver
  <1> QED BY <1>3, <1>4, <1>6 DEF FramingInv, InWrap, InLoop, InSend, InUnwrap, InReverse, AtEnd

LEMMA StepUnwrapFrame == FramingInv /\ unwrap_frame => FramingInv'
  <1> SUFFICES ASSUME FramingInv, unwrap_frame PROVE FramingInv'
    OBVIOUS
  <1> USE DEF unwrap_frame
  <1>1. /\ TypeOK /\ szFrameBits = FrameBits /\ FrameHolds /\ szBitsLeft = szFrameBits
        /\ uiDataPos = 0 /\ uiBitPos = 0 /\ pbtFrame = 0
    BY DEF FramingInv, InUnwrap
  <1>2. szTxBits > 8 /\ szFrameBits = szTxBits + (szTxBits \div 8)
    BY <1>1, SMT DEF TypeOK, FrameBits
  <1>3. ret' = szTxBits
    BY <1>1, <1>2, WrappedLength, SMT DEF TypeOK
  <1>4. TypeOK'
    BY <1>1, <1>3, SMT DEF TypeOK, loopVars
  <1>5. Buffers'
    BY DEF FramingInv, Buffers
  <1>6. FrameHolds' /\ szFrameBits' = FrameBits'
    BY <1>1 DEF FrameHolds, FrameBits, OnAir
  <1>7. Received(uiDataPos)'
    BY <1>1, SMT DEF Received, TypeOK, loopVars
  <1>8. InReverse'
    BY <1>1, <1>2, <1>3, <1>6, <1>7, SMT DEF InReverse, TypeOK, loopVars
  <1> QED BY <1>4, <1>5, <1>8 DEF FramingInv, InWrap, InLoop, InSend, InUnwrap, AtEnd

LEMMA StepUnwrapStep == FramingInv /\ unwrap_step => FramingInv'
  <1> SUFFICES ASSUME FramingInv, unwrap_step PROVE FramingInv'
    OBVIOUS
  <1> USE DEF unwrap_step
  <1>1. /\ ~bPar /\ szTxBits > 8 /\ FrameHolds /\ ret = szTxBits
        /\ szFrameBits = FrameBits /\ TypeOK
        /\ 8 * pbtFrame + uiBitPos = uiDataPos
        /\ szBitsLeft = szFrameBits - 9 * uiDataPos
        /\ Received(uiDataPos)
    BY DEF FramingInv, InReverse
  <1>2. /\ szTxBits \in Nat /\ uiDataPos \in Nat
        /\ szFrameBits = szTxBits + (szTxBits \div 8)
        /\ From = 9 * uiDataPos
    BY <1>1, SMT DEF TypeOK, FrameBits, From
  <1>3. TypeOK'
    <2>1. szBitsLeft' \in 0..Cap
      <3>1. szBitsLeft \in 0..Cap /\ Cap \in Nat
        BY <1>1, SMT DEF TypeOK, Cap
      <3>2. CASE szBitsLeft < 9
        BY <3>1, <3>2
      <3>3. CASE ~(szBitsLeft < 9)
        <4>1. szBitsLeft' = szBitsLeft - 9
          BY <3>3
        <4> QED BY <3>1, <3>3, <4>1, SMT
      <3> QED BY <3>2, <3>3
    <2>2. uiDataPos' \in Nat /\ uiBitPos' \in 0..7 /\ pbtFrame' \in Nat
      <3>1. uiDataPos \in Nat /\ uiBitPos \in 0..7 /\ pbtFrame \in Nat
        BY <1>1 DEF TypeOK
      <3>2. uiDataPos' = uiDataPos + 1
        OBVIOUS
      <3>3. uiBitPos' = uiBitPos \/ uiBitPos' = IF uiBitPos = 7 THEN 0 ELSE uiBitPos + 1
        OBVIOUS
      <3>4. pbtFrame' = pbtFrame \/ pbtFrame' = pbtFrame + 1
        OBVIOUS
      <3> HIDE DEF unwrap_step
      <3> QED BY <3>1, <3>2, <3>3, <3>4, SMT
    <2>3. pc' \in {"reverse", "done"}
      OBVIOUS
    <2> QED BY <1>1, <2>1, <2>2, <2>3 DEF TypeOK, Cap
  <1>4. Buffers'
    BY DEF FramingInv, Buffers
  \* the bits of the frame that this iteration moves
  <1>5. ASSUME NEW k \in 0..8, 9 * uiDataPos + k < szFrameBits
        PROVE  frame[From + k] = IF k = 8 THEN Parity(uiDataPos) ELSE Data(uiDataPos, k)
    <2>1. 9 * uiDataPos + k \in 0 .. szFrameBits - 1
      <3>1. szFrameBits \in Nat
        BY <1>2, SMT
      <3> HIDE DEF unwrap_step
      <3> QED BY <1>2, <1>5, <3>1, SMT
    <2>2. (9 * uiDataPos + k) \div 9 = uiDataPos /\ (9 * uiDataPos + k) % 9 = k
      BY <1>2, SMT
    <2>3. frame[9 * uiDataPos + k] = OnAir(9 * uiDataPos + k)
      BY <1>1, <2>1 DEF FrameHolds
    <2>4. ~(bPar \/ szTxBits < 9)
      BY <1>1, <1>2, SMT
    <2> QED BY <1>2, <2>2, <2>3, <2>4 DEF OnAir
  <1>6. Received(uiDataPos)'
    <2>1. ASSUME NEW n \in 0 .. szTxBits - 1, n < 8 * (uiDataPos + 1)
          PROVE  pbtRx'[n] = Data(n \div 8, n % 8)
      <3>1. n \in 0..Cap /\ n % 8 \in 0..8 /\ n % 8 # 8
        BY <1>1, <1>2, SMT DEF TypeOK, Cap
      <3>2. CASE n \div 8 = uiDataPos
        <4>1. 9 * uiDataPos + (n % 8) < szFrameBits
          BY <1>2, <3>2, SMT
        <4>2. frame[From + (n % 8)] = Data(uiDataPos, n % 8)
          BY <1>5, <3>1, <4>1
        <4>3. pbtRx'[n] = frame[From + (n % 8)]
          BY <3>1, <3>2
        <4> QED BY <3>2, <4>2, <4>3
      <3>3. CASE n \div 8 # uiDataPos
        <4>1. n < 8 * uiDataPos
          BY <1>2, <2>1, <3>3, SMT
        <4>2. pbtRx'[n] = pbtRx[n]
          BY <3>1, <3>3
        <4> QED BY <1>1, <4>1, <4>2 DEF Received
      <3> QED BY <3>2, <3>3
    <2>2. ASSUME NEW i \in 0 .. (szTxBits \div 8) - 1, i < uiDataPos + 1
          PROVE  pbtRxPar'[i] = Parity(i)
      <3> i \in 0..Cap
        BY <1>1, <1>2, SMT DEF TypeOK, Cap
      <3>1. i \in DOMAIN pbtRxPar
        BY DEF FramingInv, Buffers
      <3>2. CASE i = uiDataPos
        <4>1. 9 * uiDataPos + 8 < szFrameBits
          BY <1>2, <3>2, SMT
        <4>2. frame[From + 8] = Parity(uiDataPos)
          BY <1>5, <4>1, SMT
        <4> QED BY <3>1, <3>2, <4>2
      <3>3. CASE i # uiDataPos
        <4>1. i < uiDataPos
          BY <1>2, <2>2, <3>3, SMT
        <4>2. pbtRxPar'[i] = pbtRxPar[i]
          BY <3>1, <3>3
        <4> QED BY <1>1, <4>1, <4>2 DEF Received
      <3> QED BY <3>2, <3>3
    <2> QED BY <2>1, <2>2 DEF Received
  <1>7. CASE szBitsLeft < 9
    <2>1. szTxBits < 8 * (uiDataPos + 1) /\ szTxBits \div 8 < uiDataPos + 1
      BY <1>1, <1>2, <1>7, SMT
    <2>2. 8 * (uiDataPos + 1) <= szTxBits + 8
      BY <1>1, <1>2, SMT DEF TypeOK
    <2>3. \A n \in 0 .. szTxBits - 1 : pbtRx'[n] = Data(n \div 8, n % 8)
      <3>1. \A n \in 0 .. szTxBits - 1 : n < 8 * uiDataPos'
        BY <1>2, <2>1, SMT
      <3> QED BY <1>6, <3>1 DEF Received
    <2>4. \A i \in 0 .. (szTxBits \div 8) - 1 : pbtRxPar'[i] = Parity(i)
      <3>1. \A i \in 0 .. (szTxBits \div 8) - 1 : i < uiDataPos'
        BY <1>2, <2>1, SMT
      <3> QED BY <1>6, <3>1 DEF Received
    <2>5. RoundTrip'
      BY <1>1, <1>3, <2>3, <2>4 DEF RoundTrip
    <2>6. OneByteOver'
      BY <1>1, <2>2 DEF OneByteOver
    <2>7. pc' = "done"
      BY <1>7
    <2> QED BY <1>3, <1>4, <2>5, <2>6, <2>7 DEF FramingInv, InWrap, InLoop, InSend, InUnwrap, InReverse, AtEnd
  <1>8. CASE ~(szBitsLeft < 9)
    <2>1. (8 * pbtFrame + uiBitPos = uiDataPos)' /\ (szBitsLeft = szFrameBits - 9 * uiDataPos)'
      BY <1>1, <1>8, SMT DEF TypeOK
    <2>2. FrameHolds' /\ szFrameBits' = FrameBits'
      BY <1>1 DEF FrameHolds, FrameBits, OnAir
    <2>3. InReverse'
      BY <1>1, <1>6, <2>1, <2>2 DEF InReverse
    <2>4. pc' = "reverse"
      BY <1>8
    <2> QED BY <1>3, <1>4, <2>3, <2>4 DEF FramingInv, InWrap, InLoop, InSend, InUnwrap, AtEnd
  <1> QED BY <1>7, <1>8

LEMMA StutterFraming == FramingInv /\ UNCHANGED vars => FramingInv'
  BY SMTT(60) DEF FramingInv, vars, loopVars, TypeOK, Buffers, InWrap, InLoop, InSend, InUnwrap, InReverse, AtEnd,
         RoundTrip, OneByteOver, FrameHolds, FrameBits, OnAir, Placed, Received

\* The loop invariants of pn53x_wrap_frame and pn53x_unwrap_frame hold for frames
\* of any length.
THEOREM FramingSafety == Spec => []FramingInv
  <1>1. FramingInv /\ [Next]_vars => FramingInv'
    BY StepCopy, StepWrapNothing, StepWrapFrame, StepWrapStep, StepTransmit, StepUncopy,
       StepUnwrapFrame, StepUnwrapStep, StutterFraming DEF Next
  <1> QED BY <1>1, InitFraming, PTL DEF Spec

\* pn53x_wrap_frame puts every data bit and every parity bit where the chip sends it
\* in its turn, for any number of bits.
THEOREM WrapIsRight == Spec => []FrameRight
  <1>1. FramingInv => FrameRight
    BY DEF FramingInv, InSend, FrameHolds, FrameRight
  <1> QED BY <1>1, FramingSafety, PTL

\* What one device sends the other one's pn53x_unwrap_frame returns, bit by bit, for
\* any number of bits.
THEOREM UnwrapUndoesWrap == Spec => []RoundTrip
  <1>1. FramingInv => RoundTrip
    BY DEF FramingInv, AtEnd, RoundTrip
  <1> QED BY <1>1, FramingSafety, PTL

\* pn53x_unwrap_frame writes at most one byte more than it returns, for any number of
\* bits.
THEOREM UnwrapStaysClose == Spec => []OneByteOver
  <1>1. FramingInv => OneByteOver
    BY DEF FramingInv, AtEnd, OneByteOver
  <1> QED BY <1>1, FramingSafety, PTL

-----------------------------------------------------------------------------
(* The clocks: timed exchanges and time-outs                               *)

Held == Len(rx)      \* bytes the caller has
Level == Len(fifo)   \* bytes in the FIFO

TimingTypeOK ==
    /\ timeouts \in [atr : Nat, com : Nat]
    /\ stage \in {"idle", "poll", "data", "level", "done", "error"}
    /\ total \in Nat /\ sent \in Nat /\ sent <= total
    /\ fifo \in Seq(Nat) /\ rx \in Seq(Nat) /\ sz \in Nat /\ polls \in Nat /\ Len(fifo) <= FifoSize
    /\ early \in BOOLEAN /\ overrun \in BOOLEAN /\ lost \in Nat

\* What the caller has and what the FIFO holds are the bytes sent so far, in order.
BytesOK ==
    lost = 0 /\ ~overrun =>
      /\ \A i \in 1..Held : rx[i] = i
      /\ \A i \in 1..Level : fifo[i] = Held + i
      /\ Held + Level = sent

\* A burst is no longer than the FIFO was found to be, and the last look at the
\* level found nothing.
BurstOK ==
    /\ stage = "data" /\ lost = 0 => sz <= Level
    /\ stage = "done" => Level = 0 /\ (early <=> sent < total)

ToldOK == lost = 0 => told = Various_timings(timeouts)

TimingInv == TimingTypeOK /\ BytesOK /\ BurstOK /\ ToldOK

\* The thresholds of pn53x_int_to_timeout
LEMMA Thresholds ==
    /\ 3280 \div 2^0 = 3280 /\ 3280 \div 2^1 = 1640 /\ 3280 \div 2^2 = 820 /\ 3280 \div 2^3 = 410
    /\ 3280 \div 2^4 = 205 /\ 3280 \div 2^5 = 102 /\ 3280 \div 2^6 = 51 /\ 3280 \div 2^7 = 25
    /\ 3280 \div 2^8 = 12 /\ 3280 \div 2^9 = 6 /\ 3280 \div 2^10 = 3
  <1>1. 2^0 = 1 /\ 2^1 = 2 /\ 2^2 = 4 /\ 2^3 = 8 /\ 2^4 = 16 /\ 2^5 = 32 /\ 2^6 = 64 /\ 2^7 = 128
        /\ 2^8 = 256 /\ 2^9 = 512 /\ 2^10 = 1024
    OBVIOUS
  <1>2. QED
    BY <1>1

\* The time a code stands for, in units of 100 us
LEMMA CodeTimes ==
    ASSUME NEW c \in Nat
    PROVE  /\ c = 5 => 2^(c - 1) = 16
           /\ c = 6 => 2^(c - 1) = 32
           /\ c = 7 => 2^(c - 1) = 64
           /\ c = 8 => 2^(c - 1) = 128
           /\ c = 9 => 2^(c - 1) = 256
           /\ c = 10 => 2^(c - 1) = 512
           /\ c = 11 => 2^(c - 1) = 1024
           /\ c = 12 => 2^(c - 1) = 2048
           /\ c = 13 => 2^(c - 1) = 4096
           /\ c = 14 => 2^(c - 1) = 8192
           /\ c = 15 => 2^(c - 1) = 16384
           /\ c = 16 => 2^(c - 1) = 32768
  <1>1. /\ c = 5 => c - 1 = 4
        /\ c = 6 => c - 1 = 5
        /\ c = 7 => c - 1 = 6
        /\ c = 8 => c - 1 = 7
        /\ c = 9 => c - 1 = 8
        /\ c = 10 => c - 1 = 9
        /\ c = 11 => c - 1 = 10
        /\ c = 12 => c - 1 = 11
        /\ c = 13 => c - 1 = 12
        /\ c = 14 => c - 1 = 13
        /\ c = 15 => c - 1 = 14
        /\ c = 16 => c - 1 = 15
    OBVIOUS
  <1> DEFINE E(n) == 2^n
  <1>2. /\ E(4) = 16 /\ E(5) = 32 /\ E(6) = 64 /\ E(7) = 128 /\ E(8) = 256 /\ E(9) = 512 /\ E(10) = 1024
        /\ E(11) = 2048 /\ E(12) = 4096 /\ E(13) = 8192 /\ E(14) = 16384 /\ E(15) = 32768
    OBVIOUS
  <1>3. 2^(c - 1) = E(c - 1)
    OBVIOUS
  <1> HIDE DEF E
  <1> QED BY <1>1, <1>2, <1>3

\* Thresholds fall, so the ones a time-out does not exceed are the first ones.
LEMMA CodeIs ==
    ASSUME NEW ms \in Nat, ms # 0, NEW m \in 0..11,
           \A k \in 0..10 : ms <= 3280 \div 2^k <=> k < m
    PROVE  int_to_timeout(ms) = 16 - m
  <1> DEFINE Th(k) == 3280 \div 2^k
             K == {k \in 0..10 : ms <= Th(k)}
  <1>1. \A k \in 0..10 : ms <= Th(k) <=> k < m
    OBVIOUS
  <1>2. int_to_timeout(ms) = 16 - Cardinality(K)
    BY DEF int_to_timeout
  <1> HIDE DEF Th
  <1>3. K = 0 .. m - 1
    BY <1>1
  <1>4. Cardinality(0 .. m - 1) = m
    <2>1. 0 \in Int /\ m - 1 \in Int
      OBVIOUS
    <2>2. Cardinality(0 .. m - 1) = IF 0 > m - 1 THEN 0 ELSE m - 1 - 0 + 1
      BY <2>1, FS_Interval
    <2> QED BY <2>2
  <1> HIDE DEF K
  <1> QED BY <1>2, <1>3, <1>4

\* pn53x_int_to_timeout as a table
LEMMA Codes ==
    ASSUME NEW ms \in Nat
    PROVE  /\ ms = 0 => int_to_timeout(ms) = 0
           /\ ms > 3280 => int_to_timeout(ms) = 16
           /\ ms > 1640 /\ ms <= 3280 => int_to_timeout(ms) = 15
           /\ ms > 820 /\ ms <= 1640 => int_to_timeout(ms) = 14
           /\ ms > 410 /\ ms <= 820 => int_to_timeout(ms) = 13
           /\ ms > 205 /\ ms <= 410 => int_to_timeout(ms) = 12
           /\ ms > 102 /\ ms <= 205 => int_to_timeout(ms) = 11
           /\ ms > 51 /\ ms <= 102 => int_to_timeout(ms) = 10
           /\ ms > 25 /\ ms <= 51 => int_to_timeout(ms) = 9
           /\ ms > 12 /\ ms <= 25 => int_to_timeout(ms) = 8
           /\ ms > 6 /\ ms <= 12 => int_to_timeout(ms) = 7
           /\ ms > 3 /\ ms <= 6 => int_to_timeout(ms) = 6
           /\ ms > 0 /\ ms <= 3 => int_to_timeout(ms) = 5
  <1> DEFINE First(m) == \A k \in 0..10 : ms <= 3280 \div 2^k <=> k < m
  <1>1. ms = 0 => int_to_timeout(ms) = 0
    BY DEF int_to_timeout
  <1>2. \A k \in 0..10 : k = 0 \/ k = 1 \/ k = 2 \/ k = 3 \/ k = 4 \/ k = 5 \/ k = 6 \/ k = 7 \/ k = 8 \/ k = 9 \/ k = 10
    OBVIOUS
  <1>3. /\ ms > 3280 => First(0)
        /\ ms > 1640 /\ ms <= 3280 => First(1)
        /\ ms > 820 /\ ms <= 1640 => First(2)
        /\ ms > 410 /\ ms <= 820 => First(3)
        /\ ms > 205 /\ ms <= 410 => First(4)
        /\ ms > 102 /\ ms <= 205 => First(5)
        /\ ms > 51 /\ ms <= 102 => First(6)
        /\ ms > 25 /\ ms <= 51 => First(7)
        /\ ms > 12 /\ ms <= 25 => First(8)
        /\ ms > 6 /\ ms <= 12 => First(9)
        /\ ms > 3 /\ ms <= 6 => First(10)
        /\ ms > 0 /\ ms <= 3 => First(11)
    BY <1>2, Thresholds
  <1>4. \A m \in 0..11 : ms # 0 /\ First(m) => int_to_timeout(ms) = 16 - m
    BY CodeIs
  <1> HIDE DEF First
  <1> QED BY <1>1, <1>3, <1>4

\* Every time-out a caller asks for has a code that comes near it.
LEMMA CodeIsNear ==
    ASSUME NEW ms \in Nat, NEW c, c = int_to_timeout(ms)
    PROVE  LET T == IF c = 0 THEN 0 ELSE 2^(c - 1)
           IN /\ T = 0 <=> ms = 0
              /\ T <= 10 * ms \/ T <= 16
              /\ ms <= 3280 => 2 * T + 100 >= 10 * ms
  <1>1. CASE ms = 0
    BY <1>1, Codes
  <1>2. CASE ms > 3280
    <2>1. c = 16
      BY <1>2, Codes
    <2>2. 2^(c - 1) = 32768
      BY <2>1, CodeTimes
    <2> QED BY <1>2, <2>1, <2>2
  <1>3. CASE ms > 1640 /\ ms <= 3280
    <2>1. c = 15
      BY <1>3, Codes
    <2>2. 2^(c - 1) = 16384
      BY <2>1, CodeTimes
    <2> QED BY <1>3, <2>1, <2>2
  <1>4. CASE ms > 820 /\ ms <= 1640
    <2>1. c = 14
      BY <1>4, Codes
    <2>2. 2^(c - 1) = 8192
      BY <2>1, CodeTimes
    <2> QED BY <1>4, <2>1, <2>2
  <1>5. CASE ms > 410 /\ ms <= 820
    <2>1. c = 13
      BY <1>5, Codes
    <2>2. 2^(c - 1) = 4096
      BY <2>1, CodeTimes
    <2> QED BY <1>5, <2>1, <2>2
  <1>6. CASE ms > 205 /\ ms <= 410
    <2>1. c = 12
      BY <1>6, Codes
    <2>2. 2^(c - 1) = 2048
      BY <2>1, CodeTimes
    <2> QED BY <1>6, <2>1, <2>2
  <1>7. CASE ms > 102 /\ ms <= 205
    <2>1. c = 11
      BY <1>7, Codes
    <2>2. 2^(c - 1) = 1024
      BY <2>1, CodeTimes
    <2> QED BY <1>7, <2>1, <2>2
  <1>8. CASE ms > 51 /\ ms <= 102
    <2>1. c = 10
      BY <1>8, Codes
    <2>2. 2^(c - 1) = 512
      BY <2>1, CodeTimes
    <2> QED BY <1>8, <2>1, <2>2
  <1>9. CASE ms > 25 /\ ms <= 51
    <2>1. c = 9
      BY <1>9, Codes
    <2>2. 2^(c - 1) = 256
      BY <2>1, CodeTimes
    <2> QED BY <1>9, <2>1, <2>2
  <1>10. CASE ms > 12 /\ ms <= 25
    <2>1. c = 8
      BY <1>10, Codes
    <2>2. 2^(c - 1) = 128
      BY <2>1, CodeTimes
    <2> QED BY <1>10, <2>1, <2>2
  <1>11. CASE ms > 6 /\ ms <= 12
    <2>1. c = 7
      BY <1>11, Codes
    <2>2. 2^(c - 1) = 64
      BY <2>1, CodeTimes
    <2> QED BY <1>11, <2>1, <2>2
  <1>12. CASE ms > 3 /\ ms <= 6
    <2>1. c = 6
      BY <1>12, Codes
    <2>2. 2^(c - 1) = 32
      BY <2>1, CodeTimes
    <2> QED BY <1>12, <2>1, <2>2
  <1>13. CASE ms > 0 /\ ms <= 3
    <2>1. c = 5
      BY <1>13, Codes
    <2>2. 2^(c - 1) = 16
      BY <2>1, CodeTimes
    <2> QED BY <1>13, <2>1, <2>2
  <1> QED BY <1>1, <1>2, <1>3, <1>4, <1>5, <1>6, <1>7, <1>8, <1>9, <1>10, <1>11, <1>12, <1>13

\* The FIFO, byte by byte
LEMMA FifoFacts ==
    ASSUME TimingTypeOK
    PROVE  Held \in Nat /\ Level \in Nat /\ (fifo = <<>> <=> Level = 0)
  BY DEF TimingTypeOK, Held, Level

LEMMA NoBytes == <<>> \in Seq(Nat) /\ Len(<<>>) = 0
  OBVIOUS

\* A byte goes to the end of the FIFO.
LEMMA ByteIn ==
    ASSUME NEW s \in Seq(Nat), NEW e \in Nat
    PROVE  /\ Append(s, e) \in Seq(Nat) /\ Len(Append(s, e)) = Len(s) + 1
           /\ Append(s, e)[Len(s) + 1] = e /\ \A i \in 1..Len(s) : Append(s, e)[i] = s[i]
  OBVIOUS

\* A burst is stored behind what the caller has.
LEMMA BytesStored ==
    ASSUME NEW r \in Seq(Nat), NEW b \in Seq(Nat)
    PROVE  /\ r \o b \in Seq(Nat) /\ Len(r \o b) = Len(r) + Len(b)
           /\ \A i \in 1..Len(r) : (r \o b)[i] = r[i]
           /\ \A i \in 1..Len(b) : (r \o b)[Len(r) + i] = b[i]
  OBVIOUS

\* Reading n bytes takes them off the head of the FIFO.
LEMMA BytesOut ==
    ASSUME NEW s \in Seq(Nat), NEW n \in Nat
    PROVE  /\ SubSeq(s, n + 1, Len(s)) \in Seq(Nat)
           /\ Len(SubSeq(s, n + 1, Len(s))) = (IF n < Len(s) THEN Len(s) - n ELSE 0)
           /\ \A i \in 1 .. Len(s) - n : SubSeq(s, n + 1, Len(s))[i] = s[n + i]
  <1> DEFINE l == Len(s)
             t == SubSeq(s, n + 1, l)
  <1>1. l \in Nat /\ \A i \in 1..l : s[i] \in Nat
    OBVIOUS
  <1> HIDE DEF l
  <1>2. n + 1 \in Int /\ l \in Int /\ \A i \in n + 1 .. l : s[i] \in Nat
    BY <1>1
  <1>3. /\ t \in Seq(Nat) /\ Len(t) = IF n + 1 <= l THEN l - (n + 1) + 1 ELSE 0
        /\ \A i \in 1 .. l - (n + 1) + 1 : t[i] = s[n + 1 + i - 1]
    BY <1>2, SubSeqProperties
  <1> HIDE DEF t
  <1>4. l - (n + 1) + 1 = l - n /\ \A i \in 1 .. l - n : n + 1 + i - 1 = n + i
    BY <1>1
  <1>5. t \in Seq(Nat) /\ Len(t) = (IF n < l THEN l - n ELSE 0) /\ \A i \in 1 .. l - n : t[i] = s[n + i]
    BY <1>1, <1>3, <1>4
  <1> QED BY <1>5 DEF l, t

LEMMA InitTiming == TimingInit => TimingInv
  <1> SUFFICES ASSUME TimingInit PROVE TimingInv
    OBVIOUS
  <1>1. early \in BOOLEAN /\ overrun \in BOOLEAN
    BY Zenon DEF TimingInit
  <1>2. TimingTypeOK
    BY <1>1, NoBytes, TimingAssumption DEF TimingInit, TimingTypeOK
  <1>3. Held = 0 /\ Level = 0 /\ sent = 0 /\ stage = "idle"
    BY NoBytes DEF TimingInit, Held, Level
  <1>4. BytesOK /\ BurstOK
    BY <1>3 DEF BytesOK, BurstOK
  <1>5. int_to_timeout(103) = 11 /\ int_to_timeout(52) = 10
    BY Codes
  <1>6. ToldOK
    BY <1>5 DEF TimingInit, ToldOK, Various_timings
  <1> QED BY <1>2, <1>4, <1>6 DEF TimingInv

LEMMA StepSetProperty ==
    ASSUME TimingInv, NEW p \in {"atr", "com"}, NEW ms \in Millis, set_property_int(p, ms)
    PROVE  TimingInv'
  <1>1. /\ timeouts' = [timeouts EXCEPT ![p] = ms]
        /\ UNCHANGED <<stage, total, sent, fifo, rx, sz, polls, early, overrun>>
        /\ \/ told' = Various_timings(timeouts') /\ UNCHANGED lost
           \/ lost' = lost + 1
    BY DEF set_property_int, exchange
  <1>2. ms \in Nat /\ lost' \in Nat /\ (lost' = 0 => lost = 0 /\ told' = Various_timings(timeouts'))
    BY <1>1, TimingAssumption DEF TimingInv, TimingTypeOK
  <1>3. timeouts' \in [atr : Nat, com : Nat]
    BY <1>1, <1>2 DEF TimingInv, TimingTypeOK
  <1>4. TimingTypeOK'
    BY <1>1, <1>2, <1>3 DEF TimingInv, TimingTypeOK
  <1>5. BytesOK' /\ BurstOK'
    BY <1>1, <1>2 DEF TimingInv, BytesOK, BurstOK, Held, Level
  <1>6. ToldOK'
    BY <1>2 DEF ToldOK
  <1> QED BY <1>4, <1>5, <1>6 DEF TimingInv

\* A step of the exchange leaves the time-outs alone; losses only add up.
LEMMA ToldKept ==
    ASSUME TimingInv, UNCHANGED <<timeouts, told>>, lost' = lost \/ lost' = lost + 1
    PROVE  /\ ToldOK' /\ lost' \in Nat /\ (lost' = 0 => lost = 0)
           /\ timeouts' \in [atr : Nat, com : Nat]
  <1>1. lost \in Nat
    BY DEF TimingInv, TimingTypeOK
  <1>2. lost' \in Nat /\ (lost' = 0 => lost = 0)
    BY <1>1
  <1> QED BY <1>2 DEF TimingInv, TimingTypeOK, ToldOK

\* Nothing sent and nothing held: at the start of an exchange and after it.
LEMMA FreshTiming ==
    ASSUME TimingInv, UNCHANGED <<timeouts, told>>, lost' = lost \/ lost' = lost + 1,
           total' \in Nat, sent' = 0, fifo' = <<>>, rx' = <<>>, sz' \in Nat, polls' = 0, early' = FALSE, overrun' = FALSE,
           stage' \in {"idle", "poll", "error"}
    PROVE  TimingInv'
  <1>1. early' \in BOOLEAN /\ overrun' \in BOOLEAN
    BY Zenon
  <1>2. TimingTypeOK'
    BY <1>1, ToldKept, NoBytes, TimingAssumption DEF TimingTypeOK
  <1>3. Held' = 0 /\ Level' = 0
    BY NoBytes DEF Held, Level
  <1>4. BytesOK' /\ BurstOK'
    BY <1>3 DEF BytesOK, BurstOK
  <1> QED BY <1>2, <1>4, ToldKept DEF TimingInv

LEMMA StepTransceive ==
    ASSUME TimingInv, NEW n \in AnswerLens, NEW call \in TimedCall, transceive_timed(n, call)
    PROVE  TimingInv'
  <1>1. n \in Nat /\ 0 \in Nat
    BY TimingAssumption
  <1> QED BY <1>1, FreshTiming DEF transceive_timed

LEMMA StepReturn ==
    ASSUME TimingInv, timed_return
    PROVE  TimingInv'
  <1>1. 0 \in Nat
    OBVIOUS
  <1> QED BY <1>1, FreshTiming DEF timed_return

\* The bytes stay where they are, and the host goes on.
LEMMA BytesKept ==
    ASSUME TimingInv, UNCHANGED <<timeouts, told, total, sent, fifo, rx, overrun>>, lost' = lost \/ lost' = lost + 1,
           sz' \in Nat, polls' \in Nat, early' \in BOOLEAN, stage' \in {"poll", "data", "done", "error"},
           stage' = "data" /\ lost' = 0 => sz' = Level,
           stage' = "done" => Level = 0 /\ (early' <=> sent < total)
    PROVE  TimingInv'
  <1>1. TimingTypeOK'
    BY ToldKept DEF TimingInv, TimingTypeOK
  <1>2. UNCHANGED <<Held, Level>> /\ Level \in Nat
    BY FifoFacts DEF Held, Level, TimingInv
  <1>3. BytesOK'
    BY <1>2, ToldKept DEF TimingInv, BytesOK
  <1>4. BurstOK'
    BY <1>2, ToldKept DEF TimingInv, BurstOK
  <1> QED BY <1>1, <1>3, <1>4, ToldKept DEF TimingInv

LEMMA StepPoll ==
    ASSUME TimingInv, poll_level
    PROVE  TimingInv'
  <1>1. /\ UNCHANGED <<timeouts, told, total, sent, fifo, rx, early, overrun>> /\ polls' = polls + 1
        /\ \/ sz' = Level /\ lost' = lost
           \/ (sz' = sz \/ sz' \in Uninit) /\ lost' = lost + 1
        /\ stage' \in {"poll", "data"}
    BY DEF poll_level, Level
  <1>2. sz' \in Nat /\ polls' \in Nat /\ early' \in BOOLEAN /\ (lost' = 0 => sz' = Level)
    <2>1. sz \in Nat /\ polls \in Nat /\ early \in BOOLEAN /\ lost \in Nat /\ Level \in Nat
      BY FifoFacts DEF TimingInv, TimingTypeOK
    <2>2. \A x \in Uninit : x \in Nat
      BY TimingAssumption
    <2>3. sz' \in Nat /\ (lost' = 0 => sz' = Level)
      BY <1>1, <2>1, <2>2
    <2> QED BY <1>1, <2>1, <2>3
  <1> QED BY <1>1, <1>2, BytesKept

LEMMA StepLevel ==
    ASSUME TimingInv, read_level
    PROVE  TimingInv'
  <1>1. /\ UNCHANGED <<timeouts, told, total, sent, fifo, rx, polls, overrun, lost>>
        /\ sz' = Level /\ stage' = (IF sz' = 0 THEN "done" ELSE "data") /\ early' = (sz' = 0 /\ sent < total)
    BY DEF read_level, Level
  <1>2. early' \in BOOLEAN /\ (sz' = 0 => (early' <=> sent < total))
    BY <1>1, Zenon
  <1>3. sz' \in Nat /\ polls' \in Nat
    BY <1>1, FifoFacts DEF TimingInv, TimingTypeOK
  <1> QED BY <1>1, <1>2, <1>3, BytesKept

LEMMA StepError ==
    ASSUME TimingInv, read_error
    PROVE  TimingInv'
  BY BytesKept DEF read_error, TimingInv, TimingTypeOK

LEMMA StepData ==
    ASSUME TimingInv, read_data
    PROVE  TimingInv'
  <1> DEFINE k == sz % 128
             burst == [i \in 1..k |-> IF i <= Len(fifo) THEN fifo[i] ELSE Garbage]
  <1>1. /\ stage = "data" /\ stage' = "level" /\ rx' = rx \o burst /\ fifo' = SubSeq(fifo, sz + 1, Len(fifo))
        /\ UNCHANGED <<timeouts, told, total, sent, sz, polls, early, overrun, lost>>
    BY DEF read_data
  <1>2. fifo \in Seq(Nat) /\ rx \in Seq(Nat) /\ sz \in Nat /\ sent \in Nat /\ Level <= FifoSize
    BY DEF TimingInv, TimingTypeOK, Level
  <1>8. k \in Nat /\ (sz <= Level => k = sz)
    <2>1. \A x \in Nat : x % 128 \in Nat /\ (x < 128 => x % 128 = x)
      OBVIOUS
    <2>2. Level \in Nat /\ FifoSize \in 0..127
      BY FifoFacts, TimingAssumption DEF TimingInv
    <2>3. sz <= Level => sz < 128
      BY <1>2, <2>2
    <2> QED BY <1>2, <2>1, <2>3
  <1> HIDE DEF burst, k
  <1>3. /\ rx' \in Seq(Nat) /\ Held' = Held + k
        /\ \A i \in 1..Held : rx'[i] = rx[i]
        /\ \A i \in 1..k : rx'[Held + i] = IF i <= Level THEN fifo[i] ELSE 0
        /\ fifo' \in Seq(Nat) /\ Level' = (IF sz < Level THEN Level - sz ELSE 0)
        /\ \A i \in 1..Level' : fifo'[i] = fifo[sz + i]
    <2>1. /\ burst \in Seq(Nat) /\ Len(burst) = k
          /\ \A i \in 1..k : burst[i] = IF i <= Len(fifo) THEN fifo[i] ELSE 0
      BY <1>2, <1>8 DEF burst, Garbage
    <2>2. /\ rx' \in Seq(Nat) /\ Len(rx') = Len(rx) + k
          /\ \A i \in 1..Len(rx) : rx'[i] = rx[i]
      BY <1>1, <1>2, <2>1, BytesStored
    <2>3. \A i \in 1..k : rx'[Len(rx) + i] = burst[i]
      BY <1>1, <1>2, <2>1, BytesStored
    <2>4. /\ fifo' \in Seq(Nat) /\ Len(fifo') = (IF sz < Len(fifo) THEN Len(fifo) - sz ELSE 0)
          /\ \A i \in 1 .. Len(fifo) - sz : fifo'[i] = fifo[sz + i]
      BY <1>1, <1>2, BytesOut
    <2>5. Level \in Nat /\ Level' = (IF sz < Level THEN Level - sz ELSE 0) /\ \A i \in 1 .. Level - sz : fifo'[i] = fifo[sz + i]
      BY <2>4, FifoFacts DEF Level, TimingInv
    <2>6. \A i \in 1..Level' : i \in 1 .. Level - sz
      BY <1>2, <2>5
    <2>7. \A i \in 1..k : rx'[Held + i] = IF i <= Level THEN fifo[i] ELSE 0
      BY <2>1, <2>3 DEF Held, Level
    <2> QED BY <2>2, <2>4, <2>5, <2>6, <2>7 DEF Held
  <1>4. Held \in Nat /\ Level \in Nat
    BY FifoFacts DEF TimingInv
  <1>5. TimingTypeOK'
    <2>1. Len(fifo') <= FifoSize
      BY <1>2, <1>3, <1>4, TimingAssumption DEF Level
    <2> QED BY <1>1, <1>3, <2>1, ToldKept DEF TimingInv, TimingTypeOK
  <1>6. BurstOK'
    BY <1>1 DEF BurstOK
  <1>7. BytesOK'
    <2> SUFFICES ASSUME lost = 0, ~overrun
                 PROVE  /\ \A i \in 1..Held' : rx'[i] = i
                        /\ \A i \in 1..Level' : fifo'[i] = Held' + i
                        /\ Held' + Level' = sent
      BY <1>1 DEF BytesOK
    <2>1. /\ \A i \in 1..Held : rx[i] = i
          /\ \A i \in 1..Level : fifo[i] = Held + i
          /\ Held + Level = sent /\ sz <= Level /\ k = sz
      BY <1>1, <1>8 DEF TimingInv, BytesOK, BurstOK
    <2>2. ASSUME NEW i \in 1..Held' PROVE rx'[i] = i
      <3>3. i \in Nat \ {0} /\ i <= Held + k
        BY <1>3, <1>4, <1>8
      <3>1. CASE i <= Held
        <4>1. i \in 1..Held
          BY <1>4, <3>1, <3>3
        <4> QED BY <1>3, <2>1, <4>1
      <3>2. CASE i > Held
        <4>1. i - Held \in 1..k /\ i - Held \in 1..Level /\ i = Held + (i - Held)
          BY <1>2, <1>4, <1>8, <2>1, <3>2, <3>3
        <4>3. i - Held <= Level
          BY <1>4, <4>1
        <4>2. rx'[Held + (i - Held)] = fifo[i - Held]
          BY <1>3, <4>1, <4>3
        <4> QED BY <2>1, <4>1, <4>2
      <3> QED BY <1>4, <3>1, <3>2
    <2>3. ASSUME NEW i \in 1..Level' PROVE fifo'[i] = Held' + i
      <3>1. sz + i \in 1..Level /\ Held + (sz + i) = Held' + i
        BY <1>2, <1>3, <1>4, <2>1
      <3> QED BY <1>3, <2>1, <3>1
    <2>4. Held' + Level' = sent
      BY <1>2, <1>3, <1>4, <2>1
    <2> QED BY <2>2, <2>3, <2>4
  <1> QED BY <1>1, <1>5, <1>6, <1>7, ToldKept DEF TimingInv

LEMMA StepReceive ==
    ASSUME TimingInv, receive_byte
    PROVE  TimingInv'
  <1>1. /\ stage \in {"poll", "data", "level"} /\ sent < total /\ sent' = sent + 1
        /\ UNCHANGED <<timeouts, told, stage, total, rx, sz, polls, early, lost>>
        /\ \/ fifo' = Append(fifo, sent') /\ overrun' = overrun /\ Level < FifoSize
           \/ fifo' = fifo /\ overrun' = TRUE
    BY DEF receive_byte, Level
  <1>2. /\ fifo \in Seq(Nat) /\ sent \in Nat /\ total \in Nat /\ sent' \in Nat /\ sent' <= total
        /\ Held \in Nat /\ Level \in Nat
    BY <1>1, FifoFacts DEF TimingInv, TimingTypeOK
  <1>3. Held' = Held
    BY <1>1 DEF Held
  <1>4. CASE fifo' = Append(fifo, sent') /\ overrun' = overrun /\ Level < FifoSize
    <2>1. /\ fifo' \in Seq(Nat) /\ Level' = Level + 1 /\ fifo'[Level + 1] = sent'
          /\ (\A i \in 1..Level : fifo'[i] = fifo[i]) /\ Len(fifo') <= FifoSize
      BY <1>2, <1>4, ByteIn, TimingAssumption DEF Level
    <2>2. TimingTypeOK'
      BY <1>1, <1>2, <1>4, <2>1, ToldKept DEF TimingInv, TimingTypeOK
    <2>3. BurstOK'
      BY <1>1, <1>2, <1>3, <1>4, <2>1 DEF TimingInv, TimingTypeOK, BurstOK
    <2>4. ASSUME lost = 0, ~overrun
          PROVE  /\ \A i \in 1..Held : rx[i] = i
                 /\ \A i \in 1..Level' : fifo'[i] = Held + i
                 /\ Held + Level' = sent'
      <3>1. /\ \A i \in 1..Held : rx[i] = i
            /\ \A i \in 1..Level : fifo[i] = Held + i
            /\ Held + Level = sent
        BY <2>4 DEF TimingInv, BytesOK
      <3>2. \A i \in 1..Level' : i \in 1..Level \/ i = Level + 1
        BY <1>2, <2>1
      <3>3. sent' = Held + (Level + 1) /\ Held + Level' = sent'
        BY <1>1, <1>2, <2>1, <3>1
      <3>4. \A i \in 1..Level' : fifo'[i] = Held + i
        BY <2>1, <3>1, <3>2, <3>3
      <3> QED BY <3>1, <3>3, <3>4
    <2>5. BytesOK'
      BY <1>1, <1>3, <1>4, <2>4 DEF BytesOK
    <2> QED BY <1>1, <2>2, <2>3, <2>5, ToldKept DEF TimingInv
  <1>5. CASE fifo' = fifo /\ overrun' = TRUE
    <2>1. overrun' \in BOOLEAN /\ overrun'
      BY <1>5, Zenon
    <2>2. TimingTypeOK'
      BY <1>1, <1>2, <1>5, <2>1, ToldKept DEF TimingInv, TimingTypeOK
    <2>3. Level' = Level
      BY <1>5 DEF Level
    <2>4. BytesOK' /\ BurstOK'
      BY <1>1, <2>1, <2>3 DEF TimingInv, BytesOK, BurstOK
    <2> QED BY <1>1, <2>2, <2>4, ToldKept DEF TimingInv
  <1> QED BY <1>1, <1>4, <1>5

LEMMA StutterTiming == TimingInv /\ UNCHANGED timing_vars => TimingInv'
  BY DEF TimingInv, TimingTypeOK, BytesOK, BurstOK, ToldOK, Held, Level, timing_vars, exchange

\* The bytes of an answer are in order in the FIFO and in the caller's buffer, and
\* the chip was told the time-outs it was given, for answers and FIFOs of any size.
THEOREM TimingSafety == TimingSpec => []TimingInv
  <1>1. TimingInv /\ TimingNext => TimingInv'
    BY StepSetProperty, StepTransceive, StepPoll, StepData, StepLevel, StepError, StepReceive, StepReturn DEF TimingNext
  <1> QED BY <1>1, InitTiming, StutterTiming, PTL DEF TimingSpec

\* A timed exchange gives the answer of the card in order, and whole unless the card
\* was slower than the host or the FIFO ran over: for any length of the answer and
\* any size of the FIFO.
THEOREM TimedAnswerHolds == TimingSpec => []TimedAnswer
  <1>1. TimingInv => TimedAnswer
    <2> SUFFICES ASSUME TimingInv, stage = "done", lost = 0 PROVE TimedAnswer
      BY DEF TimedAnswer
    <2>1. rx \in Seq(Nat) /\ Held \in Nat /\ Level = 0 /\ sent \in Nat /\ total \in Nat /\ sent <= total
      BY FifoFacts DEF TimingInv, TimingTypeOK, BurstOK
    <2>2. ASSUME lost = 0, ~overrun PROVE rx = [i \in 1..Len(rx) |-> i]
      <3>1. \A i \in 1..Len(rx) : rx[i] = i
        BY <2>2 DEF TimingInv, BytesOK, Held
      <3>2. rx = [i \in 1..Len(rx) |-> rx[i]]
        BY <2>1
      <3> QED BY <3>1, <3>2
    <2>3. ASSUME Held < total PROVE early \/ overrun
      <3>1. ~overrun => Held >= sent
        BY <2>1 DEF TimingInv, BytesOK
      <3>2. early <=> sent < total
        BY DEF TimingInv, BurstOK
      <3> QED BY <2>1, <2>3, <3>1, <3>2
    <2> QED BY <2>2, <2>3 DEF TimedAnswer, Held
  <1> QED BY <1>1, TimingSafety, PTL

\* The time-out the chip is told is never longer than asked but by its shortest step,
\* and about half of it or more: for every number of milliseconds a caller may ask for.
THEOREM TimeoutsNearHolds == TimingSpec => []TimeoutsNear
  <1>1. TimingInv => TimeoutsNear
    <2> SUFFICES ASSUME TimingInv, lost = 0, NEW p \in {"atr", "com"}
                 PROVE  LET ms == timeouts[p]
                            T == IF told[p] = 0 THEN 0 ELSE 2^(told[p] - 1)
                        IN /\ T = 0 <=> ms = 0
                           /\ T <= 10 * ms \/ T <= 16
                           /\ ms <= 3280 => 2 * T + 100 >= 10 * ms
      BY DEF TimeoutsNear
    <2>1. timeouts[p] \in Nat
      BY DEF TimingInv, TimingTypeOK
    <2>2. told[p] = int_to_timeout(timeouts[p])
      BY DEF TimingInv, ToldOK, Various_timings
    <2> QED BY <2>1, <2>2, CodeIsNear
  <1> QED BY <1>1, TimingSafety, PTL

-----------------------------------------------------------------------------
(* Sequences of numbers, by their positions                                *)

\* The numbers in a word of n numbers are s[1] to s[n].
Word(s, n) == s \in Seq(Int) /\ Len(s) = n

LEMMA SameWord ==
    ASSUME NEW n \in Nat, NEW s, NEW t, Word(s, n), Word(t, n), \A i \in 1..n : s[i] = t[i]
    PROVE  s = t
  <1>1. s = [i \in 1..n |-> s[i]] /\ t = [i \in 1..n |-> t[i]]
    BY DEF Word
  <1> QED BY <1>1

\* A part of a word, by its positions.
LEMMA PartOf ==
    ASSUME NEW n \in Nat, NEW s, Word(s, n), NEW a \in Nat \ {0}, NEW b \in Nat, NEW k \in Nat,
           b <= n, k = b - a + 1
    PROVE  Word(SubSeq(s, a, b), k) /\ \A i \in 1..k : SubSeq(s, a, b)[i] = s[a + i - 1]
  <1> DEFINE p == SubSeq(s, a, b)
  <1>0. s \in Seq(Int) /\ Len(s) = n
    BY DEF Word
  <1>1. p = [i \in 1 .. b - a + 1 |-> s[a + i - 1]]
    BY <1>0
  <1>2. \A i \in 1 .. b - a + 1 : s[a + i - 1] \in Int
    BY <1>0
  <1>4. p \in [1..k -> Int]
    BY <1>1, <1>2
  <1>5. p \in Seq(Int) /\ Len(p) = k
    BY <1>1, <1>4
  <1> QED BY <1>1, <1>5 DEF Word

\* Words put together, by their positions.
Joined(v, s, a, t, b) ==
    /\ Word(v, a + b)
    /\ \A i \in 1..a : v[i] = s[i]
    /\ \A i \in a + 1 .. a + b : v[i] = t[i - a]

LEMMA JoinOf ==
    ASSUME NEW a \in Nat, NEW b \in Nat, NEW s, NEW t, Word(s, a), Word(t, b)
    PROVE  Joined(s \o t, s, a, t, b)
  <1>1. s \in Seq(Int) /\ Len(s) = a /\ t \in Seq(Int) /\ Len(t) = b
    BY DEF Word
  <1>2. s \o t \in Seq(Int) /\ Len(s \o t) = a + b
    BY <1>1, ConcatProperties
  <1>3. \A i \in 1..a : (s \o t)[i] = s[i]
    BY <1>1
  <1>4. \A i \in a + 1 .. a + b : (s \o t)[i] = t[i - a]
    BY <1>1
  <1> QED BY <1>2, <1>3, <1>4 DEF Word, Joined

\* p is k numbers of s from position a on.
Part(p, s, a, k) == Word(p, k) /\ \A i \in 1..k : p[i] = s[a + i - 1]

LEMMA PartIs ==
    ASSUME NEW n \in Nat, NEW s, Word(s, n), NEW a \in Nat \ {0}, NEW b \in Nat, NEW k \in Nat,
           b <= n, k = b - a + 1
    PROVE  Part(SubSeq(s, a, b), s, a, k)
  BY PartOf DEF Part

LEMMA BytesOf ==
    ASSUME NEW c \in Card, NEW k \in Nat
    PROVE  Word(Bytes(c, k), k) /\ \A i \in 1..k : Bytes(c, k)[i] = c.seed + i - 1
  BY TargetsAssumption DEF Bytes, Word

LEMMA CascadedTen ==
    ASSUME NEW u, Word(u, 10), NEW k \in Int
    PROVE  /\ Word(Cascaded(u), 12)
           /\ iso14443_cascade_uid(u) = Cascaded(u)
           /\ szUidLen(Cascaded(u)) = 10
           /\ Word(abtUid(Cascaded(u), k), 10) /\ \A i \in 1..8 : abtUid(Cascaded(u), k)[i] = u[i]
  <1> DEFINE w == <<CT, u[1], u[2], u[3], CT, u[4], u[5], u[6], u[7], u[8], u[9], u[10]>>
             ct == <<CT>>
             a == SubSeq(u, 1, 3)
             b == SubSeq(u, 4, 10)
             x == ct \o a
             y == x \o ct
             z == y \o b
             p == SubSeq(w, 2, 4)
             q == SubSeq(w, 6, 10)
             v == p \o q
             e == <<k, 0>>
             n == v \o e
  <1>1. \A i \in 1..10 : u[i] \in Int
    BY ElementOfSeq DEF Word
  <1>2. Word(w, 12)
    BY <1>1 DEF CT, Word
  <1>3. /\ w[1] = CT /\ w[5] = CT
        /\ \A i \in 2..4 : w[i] = u[i - 1]
        /\ \A i \in 6..12 : w[i] = u[i - 2]
    OBVIOUS
  <1>4. Word(ct, 1) /\ ct[1] = CT
    BY DEF CT, Word
  <1>18. Word(e, 2)
    BY DEF Word
  <1> HIDE DEF w, ct, e
  <1>5. Word(a, 3) /\ \A i \in 1..3 : a[i] = u[1 + i - 1]
    BY PartOf, SMTT(30)
  <1>6. Word(b, 7) /\ \A i \in 1..7 : b[i] = u[4 + i - 1]
    BY PartOf
  <1>7. Word(p, 3) /\ \A i \in 1..3 : p[i] = w[2 + i - 1]
    BY <1>2, PartOf
  <1>8. Word(q, 5) /\ \A i \in 1..5 : q[i] = w[6 + i - 1]
    BY <1>2, PartOf
  <1> HIDE DEF a, b, p, q
  <1>9. /\ Word(x, 4)
        /\ \A i \in 1..1 : x[i] = ct[i]
        /\ \A i \in 1 + 1 .. 4 : x[i] = a[i - 1]
    <2>1. 1 \in Nat /\ 3 \in Nat
      OBVIOUS
    <2>2. Word(ct, 1) /\ Word(a, 3)
      BY <1>4, <1>5
    <2>3. Joined(x, ct, 1, a, 3)
      BY <2>1, <2>2, JoinOf, Zenon
    <2> HIDE DEF x
    <2> QED BY <2>3 DEF Joined
  <1> HIDE DEF x
  <1>10. /\ Word(y, 5)
         /\ \A i \in 1..4 : y[i] = x[i]
         /\ \A i \in 4 + 1 .. 5 : y[i] = ct[i - 4]
    <2>1. 4 \in Nat /\ 1 \in Nat
      OBVIOUS
    <2>2. Word(x, 4) /\ Word(ct, 1)
      BY <1>4, <1>9
    <2>3. Joined(y, x, 4, ct, 1)
      BY <2>1, <2>2, JoinOf, Zenon
    <2> HIDE DEF y
    <2> QED BY <2>3 DEF Joined
  <1> HIDE DEF y
  <1>11. /\ Word(z, 12)
         /\ \A i \in 1..5 : z[i] = y[i]
         /\ \A i \in 5 + 1 .. 12 : z[i] = b[i - 5]
    <2>1. 5 \in Nat /\ 7 \in Nat
      OBVIOUS
    <2>2. Word(y, 5) /\ Word(b, 7)
      BY <1>6, <1>10
    <2>3. Joined(z, y, 5, b, 7)
      BY <2>1, <2>2, JoinOf, Zenon
    <2> HIDE DEF z
    <2> QED BY <2>3 DEF Joined
  <1>12. /\ Word(v, 8)
         /\ \A i \in 1..3 : v[i] = p[i]
         /\ \A i \in 3 + 1 .. 8 : v[i] = q[i - 3]
    <2>1. 3 \in Nat /\ 5 \in Nat
      OBVIOUS
    <2>2. Word(p, 3) /\ Word(q, 5)
      BY <1>7, <1>8
    <2>3. Joined(v, p, 3, q, 5)
      BY <2>1, <2>2, JoinOf, Zenon
    <2> HIDE DEF v
    <2> QED BY <2>3 DEF Joined
  <1> HIDE DEF z, v
  <1>19. Word(n, 10) /\ \A i \in 1..8 : n[i] = v[i]
    <2>1. 8 \in Nat /\ 2 \in Nat
      OBVIOUS
    <2>3. Joined(n, v, 8, e, 2)
      BY <1>12, <1>18, <2>1, JoinOf, Zenon
    <2> HIDE DEF n
    <2> QED BY <2>3 DEF Joined
  <1> HIDE DEF n
  <1>13. z = w
    <2>1. \A i \in 1..12 : z[i] = w[i]
      BY <1>3, <1>4, <1>5, <1>6, <1>9, <1>10, <1>11
    <2> QED BY <1>2, <1>11, <2>1, SameWord
  <1>14. \A i \in 1..8 : n[i] = u[i]
    BY <1>3, <1>7, <1>8, <1>12, <1>19
  <1>15. iso14443_cascade_uid(u) = z
    BY DEF iso14443_cascade_uid, z, y, x, a, b, ct, Word
  <1>20. Tagged(w) /\ Len(w) = 12
    BY <1>2, <1>3 DEF Tagged, Word
  <1>16. abtUid(w, k) = n /\ szUidLen(w) = 10
    BY <1>20 DEF abtUid, szUidLen, n, e, v, p, q
  <1>17. Cascaded(u) = w
    BY DEF Cascaded, w, Word
  <1> QED BY <1>2, <1>13, <1>14, <1>15, <1>16, <1>17, <1>19

LEMMA CascadedSeven ==
    ASSUME NEW u, Word(u, 7), NEW k \in Int
    PROVE  /\ Word(Cascaded(u), 8)
           /\ iso14443_cascade_uid(u) = Cascaded(u)
           /\ szUidLen(Cascaded(u)) = 7
           /\ Word(abtUid(Cascaded(u), k), 8) /\ \A i \in 1..7 : abtUid(Cascaded(u), k)[i] = u[i]
  <1> DEFINE w == <<CT, u[1], u[2], u[3], u[4], u[5], u[6], u[7]>>
             ct == <<CT>>
             v == ct \o u
             p == SubSeq(w, 2, 8)
             e == <<w[8]>>
             n == p \o e
  <1>1. \A i \in 1..7 : u[i] \in Int
    BY ElementOfSeq DEF Word
  <1>2. Word(w, 8)
    BY <1>1 DEF CT, Word
  <1>3. w[1] = CT /\ \A i \in 2..8 : w[i] = u[i - 1]
    OBVIOUS
  <1>4. Word(ct, 1) /\ ct[1] = CT
    BY DEF CT, Word
  <1>12. Word(e, 1)
    BY <1>1 DEF Word
  <1> HIDE DEF w, ct, e
  <1>5. /\ Word(v, 8)
        /\ v[1] = ct[1]
        /\ \A i \in 2..8 : v[i] = u[i - 1]
    <2>1. 1 \in Nat /\ 7 \in Nat
      OBVIOUS
    <2>2. Joined(v, ct, 1, u, 7)
      BY <1>4, <2>1, JoinOf, Zenon
    <2> HIDE DEF v
    <2> QED BY <2>2 DEF Joined
  <1>6. Word(p, 7) /\ \A i \in 1..7 : p[i] = w[2 + i - 1]
    BY <1>2, PartOf
  <1> HIDE DEF v, p
  <1>13. Word(n, 8) /\ \A i \in 1..7 : n[i] = p[i]
    <2>1. 7 \in Nat /\ 1 \in Nat
      OBVIOUS
    <2>2. Joined(n, p, 7, e, 1)
      BY <1>6, <1>12, <2>1, JoinOf, Zenon
    <2> HIDE DEF n
    <2> QED BY <2>2 DEF Joined
  <1> HIDE DEF n
  <1>7. v = w
    <2>1. \A i \in 1..8 : v[i] = w[i]
      BY <1>3, <1>4, <1>5
    <2> QED BY <1>2, <1>5, <2>1, SameWord
  <1>8. \A i \in 1..7 : n[i] = u[i]
    BY <1>3, <1>6, <1>13
  <1>9. iso14443_cascade_uid(u) = v
    BY DEF iso14443_cascade_uid, v, ct, Word
  <1>14. Tagged(w) /\ Len(w) = 8
    BY <1>2, <1>3 DEF Tagged, Word
  <1>10. abtUid(w, k) = n /\ szUidLen(w) = 7
    BY <1>14 DEF abtUid, szUidLen, n, p, e
  <1>11. Cascaded(u) = w
    BY DEF Cascaded, w, Word
  <1> QED BY <1>2, <1>7, <1>8, <1>9, <1>10, <1>11, <1>13

LEMMA CascadedFour ==
    ASSUME NEW u, Word(u, 4)
    PROVE  Cascaded(u) = u /\ iso14443_cascade_uid(u) = u
  BY DEF Word, Cascaded, iso14443_cascade_uid

\* A UID without tags is stored as it is.
LEMMA Untagged ==
    ASSUME NEW n \in {4, 7, 10}, NEW u, Word(u, n), NEW k
    PROVE  szUidLen(u) = n /\ abtUid(u, k) = u
  <1>1. Len(u) = n
    BY DEF Word
  <1>2. ~Tagged(u)
    BY <1>1 DEF Tagged
  <1> QED BY <1>1, <1>2 DEF szUidLen, abtUid

\* The UID a chip passes on, its length, and the bytes of abtUid that are written.
AirUid(ic, c) == IF ic \in Tags THEN Cascaded(Uid(c)) ELSE Uid(c)
AirLen(ic, n) == IF ic \in Tags /\ n # 4 THEN IF n = 7 THEN 8 ELSE 12 ELSE n
StoredLen(ic, n) == IF ic \in Tags /\ n = 7 THEN 8 ELSE n

\* What nfc_initiator_select_passive_target asks for is what the card answers to.
LEMMA UidAsked ==
    ASSUME NEW c \in Card, c.nmt = "ISO14443A"
    PROVE  /\ c.n \in {4, 7, 10} /\ Word(Uid(c), c.n)
           /\ iso14443_cascade_uid(Uid(c)) = Cascaded(Uid(c))
  <1>1. c.n \in {4, 7, 10}
    BY TargetsAssumption DEF UidSizes
  <1>2. Word(Uid(c), c.n)
    BY <1>1, BytesOf DEF Uid
  <1>3. 0 \in Int
    OBVIOUS
  <1> QED BY <1>1, <1>2, <1>3, CascadedFour, CascadedSeven, CascadedTen

\* What pn53x_decode_target_data stores of it.
LEMMA UidOnAir ==
    ASSUME NEW ic, NEW c \in Card, c.nmt = "ISO14443A", NEW k \in Int
    PROVE  /\ Word(AirUid(ic, c), AirLen(ic, c.n)) /\ szUidLen(AirUid(ic, c)) = c.n
           /\ Word(abtUid(AirUid(ic, c), k), StoredLen(ic, c.n))
           /\ \A i \in 1..Known(ic, c) : abtUid(AirUid(ic, c), k)[i] = Uid(c)[i]
           /\ Known(ic, c) <= StoredLen(ic, c.n) /\ Known(ic, c) \in 1..c.n /\ StoredLen(ic, c.n) \in 1..10
  <1>1. c.n \in {4, 7, 10} /\ Word(Uid(c), c.n)
    BY UidAsked
  <1>2. CASE ic \notin Tags \/ c.n = 4
    <2>1. AirUid(ic, c) = Uid(c)
      BY <1>1, <1>2, CascadedFour DEF AirUid
    <2>2. szUidLen(Uid(c)) = c.n /\ abtUid(Uid(c), k) = Uid(c)
      BY <1>1, Untagged
    <2>3. AirLen(ic, c.n) = c.n /\ StoredLen(ic, c.n) = c.n /\ Known(ic, c) = c.n
      BY <1>1, <1>2 DEF AirLen, StoredLen, Known
    <2> QED BY <1>1, <2>1, <2>2, <2>3
  <1>3. CASE ic \in Tags /\ c.n = 7
    <2>1. AirUid(ic, c) = Cascaded(Uid(c)) /\ AirLen(ic, c.n) = 8 /\ StoredLen(ic, c.n) = 8 /\ Known(ic, c) = 7
      BY <1>3 DEF AirUid, AirLen, StoredLen, Known
    <2> QED BY <1>1, <1>3, <2>1, CascadedSeven
  <1>4. CASE ic \in Tags /\ c.n = 10
    <2>1. AirUid(ic, c) = Cascaded(Uid(c)) /\ AirLen(ic, c.n) = 12 /\ StoredLen(ic, c.n) = 10 /\ Known(ic, c) = 8
      BY <1>4 DEF AirUid, AirLen, StoredLen, Known
    <2>2. /\ Word(Cascaded(Uid(c)), 12) /\ szUidLen(Cascaded(Uid(c))) = 10
          /\ Word(abtUid(Cascaded(Uid(c)), k), 10) /\ \A i \in 1..8 : abtUid(Cascaded(Uid(c)), k)[i] = Uid(c)[i]
      BY <1>1, <1>4, CascadedTen
    <2>3. 8 <= 10 /\ 8 \in 1..10 /\ 10 \in 1..10
      OBVIOUS
    <2> QED BY <1>4, <2>1, <2>2, <2>3, Zenon
  <1> QED BY <1>1, <1>2, <1>3, <1>4

\* A cell that a decoder writes.
LEMMA CellOf ==
    ASSUME NEW ic, NEW mem, NEW r, NEW t, NEW name, NEW i, <<name, i>> \in Cells, i \in DOMAIN decode(ic, r, t)[name]
    PROVE  Decoded(ic, mem, r, t)[<<name, i>>] = decode(ic, r, t)[name][i]
  BY DEF Decoded

\* A UID in memory, as far as it is known.
LEMMA UidRead ==
    ASSUME NEW ic, NEW c \in Card, NEW mem, c.nmt = "ISO14443A" => mem[<<"len", 1>>] = c.n,
           \A i \in 1..Known(ic, c) : mem[<<"uid", i>>] = c.seed + i - 1
    PROVE  /\ Len(UidIn(mem, c.nmt)) = c.n /\ \A i \in 1..Known(ic, c) : UidIn(mem, c.nmt)[i] = Uid(c)[i]
  <1>1. c.n \in UidSizes(c.nmt) /\ c.n \in Nat /\ c.seed \in Nat
    BY TargetsAssumption DEF UidSizes
  <1>2. \A i \in 1..c.n : Uid(c)[i] = c.seed + i - 1
    BY <1>1, BytesOf DEF Uid
  <1>3. UidIn(mem, c.nmt) = [i \in 1..c.n |-> mem[<<"uid", i>>]]
    BY <1>1 DEF UidIn, UidSizes
  <1>4. Known(ic, c) \in Nat /\ Known(ic, c) <= c.n
    BY <1>1 DEF Known
  <1>5. Len(UidIn(mem, c.nmt)) = c.n
    BY <1>1, <1>3
  <1>6. ASSUME NEW i \in 1..Known(ic, c) PROVE UidIn(mem, c.nmt)[i] = Uid(c)[i]
    <2>1. i \in 1..c.n
      BY <1>1, <1>4
    <2> QED BY <1>2, <1>3, <2>1
  <1> QED BY <1>5, <1>6

LEMMA UidReadPlain ==
    ASSUME NEW ic, NEW c \in Card, c.nmt # "ISO14443A", NEW mem, \A i \in 1..c.n : mem[<<"uid", i>>] = c.seed + i - 1
    PROVE  Len(UidIn(mem, c.nmt)) = c.n /\ \A i \in 1..Known(ic, c) : UidIn(mem, c.nmt)[i] = Uid(c)[i]
  <1>1. Known(ic, c) = c.n
    BY DEF Known
  <1>2. \A i \in 1..Known(ic, c) : mem[<<"uid", i>>] = c.seed + i - 1
    BY <1>1
  <1> QED BY <1>2, UidRead

\* What has to be decoded of a card that is not ISO14443-A.
LEMMA ShowsPlain ==
    ASSUME NEW ic, NEW c \in Card, c.nmt # "ISO14443A", NEW mem, NEW r,
           Word(decode(ic, r, c.nmt).uid, c.n), \A i \in 1..c.n : decode(ic, r, c.nmt).uid[i] = c.seed + i - 1,
           c.nmt = "ISO14443B" /\ c.opt > 0 => decode(ic, r, c.nmt).opt = <<c.seed>>,
           c.nmt = "ISO14443BI" /\ c.opt > 0 =>
             /\ decode(ic, r, c.nmt).len = <<BufSize - 8>>
             /\ \A i \in 1..c.opt : i \in DOMAIN decode(ic, r, c.nmt).opt /\ decode(ic, r, c.nmt).opt[i] = Bytes(c, c.opt)[i]
    PROVE  Shows(ic, Decoded(ic, mem, r, c.nmt), c)
  <1> DEFINE m == Decoded(ic, mem, r, c.nmt)
             new == decode(ic, r, c.nmt)
  <1>1. c.n \in {4, 8} /\ c.opt \in 0..AtsSize /\ AtsSize \in Nat
    BY TargetsAssumption DEF UidSizes
  <1>2. \A i \in 1..c.n : <<"uid", i>> \in Cells /\ i \in DOMAIN new.uid
    <2> DEFINE uid == new.uid
    <2>1. \A i \in 1..c.n : <<"uid", i>> \in Cells
      BY <1>1 DEF Cells
    <2>2. Word(uid, c.n)
      OBVIOUS
    <2> HIDE DEF uid
    <2>3. DOMAIN uid = 1..c.n
      BY <2>2 DEF Word
    <2> QED BY <2>1, <2>3 DEF uid
  <1>3. \A i \in 1..c.n : m[<<"uid", i>>] = c.seed + i - 1
    <2> SUFFICES ASSUME NEW i \in 1..c.n PROVE m[<<"uid", i>>] = c.seed + i - 1
      OBVIOUS
    <2>1. m[<<"uid", i>>] = new.uid[i]
      BY <1>2, CellOf
    <2> QED BY <2>1
  <1>4. ASSUME c.nmt = "ISO14443B", c.opt > 0 PROVE m[<<"opt", 1>>] = c.seed
    <2>1. <<"opt", 1>> \in Cells
      BY <1>1, <1>4 DEF Cells
    <2>2. new.opt = <<c.seed>>
      BY <1>4
    <2>3. 1 \in DOMAIN new.opt /\ new.opt[1] = c.seed
      BY <2>2
    <2>4. m[<<"opt", 1>>] = new.opt[1]
      BY <2>1, <2>3, CellOf
    <2> QED BY <2>3, <2>4
  <1>7. ASSUME c.nmt = "ISO14443BI", c.opt > 0
        PROVE  m[<<"len", 1>>] = BufSize - 8 /\ \A i \in 1..c.opt : m[<<"opt", i>>] = Bytes(c, c.opt)[i]
    <2>1. <<"len", 1>> \in Cells /\ \A i \in 1..c.opt : <<"opt", i>> \in Cells
      BY <1>1, <1>7 DEF Cells
    <2>2. new.len = <<BufSize - 8>>
      BY <1>7
    <2>3. 1 \in DOMAIN new.len /\ new.len[1] = BufSize - 8
      BY <2>2
    <2>4. m[<<"len", 1>>] = new.len[1]
      BY <2>1, <2>3, CellOf
    <2>5. ASSUME NEW i \in 1..c.opt PROVE m[<<"opt", i>>] = Bytes(c, c.opt)[i]
      <3>1. i \in DOMAIN new.opt /\ new.opt[i] = Bytes(c, c.opt)[i]
        BY <1>7
      <3>2. m[<<"opt", i>>] = new.opt[i]
        BY <2>1, <3>1, CellOf
      <3> QED BY <3>1, <3>2
    <2> QED BY <2>3, <2>4, <2>5
  <1> HIDE DEF m
  <1>5. Len(UidIn(m, c.nmt)) = c.n /\ \A i \in 1..Known(ic, c) : UidIn(m, c.nmt)[i] = Uid(c)[i]
    <2>1. c \in Card /\ c.nmt # "ISO14443A"
      OBVIOUS
    <2> QED BY ONLY <1>3, <2>1, UidReadPlain
  <1>6. Shows(ic, m, c)
    BY <1>4, <1>5, <1>7 DEF Shows
  <1> QED BY <1>6 DEF m

\* Bytes of the optional part that pn53x_decode_target_data stores for ISO14443-B.
AtqbOpt(n) == IF n = 0 THEN 0 ELSE 1

LEMMA DecodesB ==
    ASSUME NEW ic, NEW c \in Card, c.nmt = "ISO14443B", NEW mem
    PROVE  /\ Shows(ic, Decoded(ic, mem, Answer(ic, c), c.nmt), c)
           /\ \E p, s : /\ Word(p, 4) /\ Word(s, AtqbOpt(c.opt))
                       /\ decode(ic, Answer(ic, c), c.nmt) = [uid |-> p, opt |-> s, atqa |-> <<>>, sak |-> <<>>, len |-> <<>>]
  <1> DEFINE h == <<1, 80>>
             y == Bytes(c, 11)
             o == IF c.opt = 0 THEN <<0>> ELSE <<1, c.seed>>
             k == IF c.opt = 0 THEN 1 ELSE 2
             x == h \o y
             r == x \o o
             p == SubSeq(r, 3, 6)
  <1>1. c.n = 4 /\ c.opt \in Nat /\ c.seed \in Nat
    BY TargetsAssumption DEF UidSizes
  <1>2. Word(h, 2) /\ Word(y, 11) /\ (\A i \in 1..11 : y[i] = c.seed + i - 1)
    <2>1. Word(h, 2)
      BY DEF Word
    <2>2. Word(y, 11) /\ \A i \in 1..11 : y[i] = c.seed + i - 1
      BY BytesOf
    <2> QED BY <2>1, <2>2
  <1>3. Word(o, k) /\ k \in {1, 2} /\ (c.opt = 0 => k = 1 /\ o[1] = 0) /\ (c.opt > 0 => k = 2 /\ o[1] = 1 /\ o[2] = c.seed)
    BY <1>1 DEF Word
  <1> HIDE DEF h, y, o, k
  <1>4. Joined(x, h, 2, y, 11)
    <2>1. 2 \in Nat /\ 11 \in Nat
      OBVIOUS
    <2> QED BY <1>2, <2>1, JoinOf, Zenon
  <1> HIDE DEF x
  <1>5. Joined(r, x, 13, o, k)
    <2>1. Word(x, 13) /\ 13 \in Nat /\ k \in Nat
      BY <1>3, <1>4 DEF Joined
    <2>2. Word(o, k)
      BY <1>3
    <2> QED BY <2>1, <2>2, JoinOf, Zenon
  <1> HIDE DEF r
  <1>6. \A i \in 3..13 : r[i] = y[i - 2]
    BY <1>4, <1>5 DEF Joined
  <1>7. r[14] = o[1] /\ (k = 2 => r[15] = o[2])
    BY <1>3, <1>5 DEF Joined
  <1>8. Word(p, 4) /\ \A i \in 1..4 : p[i] = r[3 + i - 1]
    <2>1. Word(r, 13 + k) /\ 13 + k \in Nat /\ 6 <= 13 + k
      BY <1>3, <1>5 DEF Joined
    <2> QED BY <2>1, PartOf
  <1> HIDE DEF p
  <1>9. \A i \in 1..4 : p[i] = c.seed + i - 1
    BY <1>1, <1>2, <1>6, <1>8
  <1>10. decode(ic, r, c.nmt).uid = p
    BY DEF decode, Nothing, p
  <1>11. ASSUME c.opt > 0 PROVE decode(ic, r, c.nmt).opt = <<c.seed>>
    <2>1. r[14] # 0 /\ r[15] = c.seed
      BY <1>3, <1>7, <1>11
    <2>2. decode(ic, r, c.nmt).opt = <<r[15]>>
      BY <2>1 DEF decode, Nothing
    <2> QED BY <2>1, <2>2
  <1>12. Answer(ic, c) = r
    BY DEF Answer, r, x, h, y, o
  <1> DEFINE e == IF r[14] # 0 THEN <<r[15]>> ELSE <<>>
  <1>13. Word(e, AtqbOpt(c.opt))
    <2>1. CASE c.opt = 0
      <3>1. e = <<>>
        BY <1>3, <1>7, <2>1
      <3> QED BY <2>1, <3>1 DEF Word, AtqbOpt
    <2>2. CASE c.opt # 0
      <3>1. e = <<c.seed>>
        BY <1>1, <1>3, <1>7, <2>2
      <3> QED BY <1>1, <2>2, <3>1 DEF Word, AtqbOpt
    <2> QED BY <2>1, <2>2
  <1>14. decode(ic, r, c.nmt) = [uid |-> p, opt |-> e, atqa |-> <<>>, sak |-> <<>>, len |-> <<>>]
    BY DEF decode, Nothing, p
  <1> HIDE DEF e
  <1>15. Shows(ic, Decoded(ic, mem, r, c.nmt), c)
    BY <1>1, <1>8, <1>9, <1>10, <1>11, ShowsPlain
  <1> QED BY <1>8, <1>12, <1>13, <1>14, <1>15

LEMMA DecodesBI ==
    ASSUME NEW ic, NEW c \in Card, c.nmt = "ISO14443BI", NEW mem
    PROVE  /\ Shows(ic, Decoded(ic, mem, Answer(ic, c), c.nmt), c)
           /\ Answer(ic, c)[1] = c.seed
           /\ DecodeFails(Answer(ic, c), c.nmt) => c \in Odd
  <1> DEFINE h == <<c.seed, IF c \in Odd THEN 0 ELSE 7>>
             y == Bytes(c, 4)
             z == Bytes(c, c.opt)
             f == <<128, 64>>
             o == IF c.opt = 0 THEN <<0>> ELSE f \o z
             k == IF c.opt = 0 THEN 1 ELSE c.opt + 2
             x == h \o y
             r == x \o o
             p == SubSeq(r, 3, 6)
             new == decode(ic, r, c.nmt)
  <1>1. c.n = 4 /\ c.opt \in Nat /\ c.seed \in Nat /\ c.opt <= AtsSize /\ AtsSize \in Nat /\ BufSize \in Nat /\ AtsSize + 8 <= BufSize
    BY TargetsAssumption DEF UidSizes
  <1>2. Word(h, 2) /\ Word(y, 4) /\ (\A i \in 1..4 : y[i] = c.seed + i - 1)
    <2>1. Word(h, 2)
      BY <1>1 DEF Word
    <2>2. Word(y, 4) /\ \A i \in 1..4 : y[i] = c.seed + i - 1
      BY BytesOf
    <2> QED BY <2>1, <2>2
  <1>3. h[1] = c.seed /\ (c \notin Odd => h[2] = 7)
    OBVIOUS
  <1>13. Word(z, c.opt) /\ Word(f, 2) /\ f[1] = 128 /\ f[2] = 64
    <2>1. Word(f, 2) /\ f[1] = 128 /\ f[2] = 64
      BY DEF Word
    <2> QED BY <1>1, <2>1, BytesOf
  <1> HIDE DEF h, y, z, f
  <1>12. /\ Word(o, k) /\ k \in Nat \ {0} /\ (c.opt = 0 => o[1] = 0)
         /\ c.opt > 0 => k = c.opt + 2 /\ o[1] = 128 /\ o[2] = 64 /\ \A i \in 1..c.opt : o[2 + i] = z[i]
    <2>1. CASE c.opt = 0
      <3>1. o = <<0>> /\ k = 1
        BY <2>1
      <3>2. Word(<<0>>, 1)
        BY DEF Word
      <3> HIDE DEF o, k
      <3> QED BY <2>1, <3>1, <3>2
    <2>2. CASE c.opt # 0
      <3> DEFINE v == f \o z
      <3>1. 2 \in Nat
        OBVIOUS
      <3>2. Joined(v, f, 2, z, c.opt)
        BY <1>1, <1>13, <3>1, JoinOf, Zenon
      <3> HIDE DEF v
      <3>3. Word(v, 2 + c.opt) /\ v[1] = 128 /\ v[2] = 64 /\ \A i \in 1..c.opt : v[2 + i] = z[i]
        BY <1>1, <1>13, <3>2 DEF Joined
      <3>4. o = v /\ k = 2 + c.opt
        BY <1>1, <2>2 DEF v
      <3> HIDE DEF o, k
      <3> QED BY <1>1, <2>2, <3>3, <3>4
    <2> QED BY <2>1, <2>2
  <1> HIDE DEF o, k
  <1>4. Joined(x, h, 2, y, 4)
    <2>1. 2 \in Nat /\ 4 \in Nat
      OBVIOUS
    <2> QED BY <1>2, <2>1, JoinOf, Zenon
  <1> HIDE DEF x
  <1>5. Joined(r, x, 6, o, k)
    <2>1. Word(x, 6) /\ 6 \in Nat /\ k \in Nat
      BY <1>4, <1>12 DEF Joined
    <2> QED BY <1>12, <2>1, JoinOf, Zenon
  <1> HIDE DEF r
  <1>6. r[1] = c.seed /\ (c \notin Odd => r[2] = 7) /\ \A i \in 3..6 : r[i] = y[i - 2]
    BY <1>3, <1>4, <1>5 DEF Joined
  <1>14. Word(r, 6 + k) /\ Len(r) = 6 + k /\ \A i \in 1..k : r[6 + i] = o[i]
    BY <1>5, <1>12 DEF Joined, Word
  <1>7. Word(p, 4) /\ \A i \in 1..4 : p[i] = r[3 + i - 1]
    <2>1. Word(r, 6 + k) /\ 6 + k \in Nat /\ 6 <= 6 + k
      BY <1>12, <1>14
    <2> QED BY <2>1, PartOf
  <1> HIDE DEF p
  <1>8. \A i \in 1..4 : p[i] = c.seed + i - 1
    BY <1>1, <1>2, <1>6, <1>7
  <1>15. ASSUME c.opt = 0 PROVE Shows(ic, Decoded(ic, mem, r, c.nmt), c)
    <2>1. r[7] = 0
      BY <1>12, <1>14, <1>15
    <2>4. r[7] < 128
      BY <2>1
    <2>5. new = [Nothing EXCEPT !.uid = p, !.sak = <<r[7]>>]
      BY <2>4 DEF decode, p
    <2>2. new.uid = p
      BY <2>5 DEF Nothing
    <2>8. Word(new.uid, c.n) /\ (\A i \in 1..c.n : new.uid[i] = c.seed + i - 1)
      BY <1>1, <1>7, <1>8, <2>2
    <2>9. ~(c.opt > 0)
      BY <1>15
    <2> QED BY <2>8, <2>9, ShowsPlain DEF new
  <1>16. ASSUME c.opt > 0 PROVE Shows(ic, Decoded(ic, mem, r, c.nmt), c)
    <2>1. k = c.opt + 2 /\ 1 \in 1..k /\ 2 \in 1..k
      BY <1>1, <1>12, <1>16
    <2>2. r[6 + 1] = 128 /\ r[6 + 2] = 64
      BY <1>12, <1>14, <1>16, <2>1
    <2>3. r[7] = 128 /\ r[8] = 64
      BY <2>2
    <2>4. ~(r[7] < 128) /\ (r[8] \div 64) % 2 # 0
      BY <2>3
    <2> DEFINE e == [i \in 1 .. BufSize - 8 |-> IF i + 8 <= Len(r) THEN r[i + 8] ELSE Stale]
    <2>5. new = [Nothing EXCEPT !.uid = p, !.sak = <<r[7], r[8]>>, !.len = <<BufSize - 8>>, !.opt = e]
      BY <2>4 DEF decode, p
    <2>6. new.uid = p /\ new.len = <<BufSize - 8>> /\ new.opt = e
      BY <2>5 DEF Nothing
    <2>7. ASSUME NEW i \in 1..c.opt PROVE i \in DOMAIN e /\ e[i] = z[i]
      <3>1. i \in 1 .. BufSize - 8 /\ i + 8 <= Len(r) /\ 2 + i \in 1..k /\ i + 8 = 6 + (2 + i)
        BY <1>1, <1>14, <2>1
      <3>2. e[i] = r[6 + (2 + i)]
        BY <3>1
      <3>3. r[6 + (2 + i)] = z[i]
        BY <1>12, <1>14, <1>16, <3>1
      <3> QED BY <3>1, <3>2, <3>3
    <2> HIDE DEF e
    <2>8. Word(new.uid, c.n) /\ (\A i \in 1..c.n : new.uid[i] = c.seed + i - 1)
      BY <1>1, <1>7, <1>8, <2>6
    <2>9. new.len = <<BufSize - 8>> /\ \A i \in 1..c.opt : i \in DOMAIN new.opt /\ new.opt[i] = Bytes(c, c.opt)[i]
      BY <2>6, <2>7 DEF z
    <2> HIDE DEF new
    <2> QED BY <2>8, <2>9, ShowsPlain DEF new
  <1>10. Answer(ic, c) = r
    BY DEF Answer, r, x, h, y, o, f, z
  <1>11. DecodeFails(r, c.nmt) => c \in Odd
    BY <1>6 DEF DecodeFails
  <1>17. Shows(ic, Decoded(ic, mem, r, c.nmt), c)
    BY <1>1, <1>15, <1>16
  <1> QED BY <1>6, <1>10, <1>11, <1>17

LEMMA DecodesB2SR ==
    ASSUME NEW ic, NEW c \in Card, c.nmt = "ISO14443B2SR", NEW mem
    PROVE  /\ Shows(ic, Decoded(ic, mem, Answer(ic, c), c.nmt), c)
           /\ Answer(ic, c)[1] = c.seed
  <1> DEFINE r == Bytes(c, 8)
             p == SubSeq(r, 1, 8)
  <1>1. c.n = 8 /\ c.seed \in Nat
    BY TargetsAssumption DEF UidSizes
  <1>2. Word(r, 8) /\ \A i \in 1..8 : r[i] = c.seed + i - 1
    BY BytesOf
  <1> HIDE DEF r
  <1>3. Word(p, 8) /\ \A i \in 1..8 : p[i] = r[1 + i - 1]
    BY <1>2, PartOf
  <1> HIDE DEF p
  <1>4. r[1] = c.seed /\ \A i \in 1..8 : p[i] = c.seed + i - 1
    BY <1>1, <1>2, <1>3
  <1>5. decode(ic, r, c.nmt).uid = p
    BY DEF decode, Nothing, p
  <1>6. Answer(ic, c) = r
    BY DEF Answer, r
  <1> QED BY <1>1, <1>3, <1>4, <1>5, <1>6, ShowsPlain

LEMMA DecodesB2CT ==
    ASSUME NEW ic, NEW c \in Card, c.nmt = "ISO14443B2CT", NEW mem
    PROVE  /\ Shows(ic, Decoded(ic, mem, Answer(ic, c), c.nmt), c)
           /\ Answer(ic, c)[1] = c.seed
  <1> DEFINE u == Uid(c)
             a == SubSeq(u, 1, 2)
             b == SubSeq(u, 3, 4)
             h == <<80, 81>>
             x == a \o h
             r == x \o b
             d == SubSeq(r, 1, 2)
             e == SubSeq(r, 5, 6)
             p == d \o e
  <1>1. c.n = 4 /\ c.seed \in Nat
    BY TargetsAssumption DEF UidSizes
  <1>2. Word(u, 4) /\ \A i \in 1..4 : u[i] = c.seed + i - 1
    BY <1>1, BytesOf DEF Uid
  <1>3. Word(h, 2)
    BY DEF Word
  <1> HIDE DEF u, h
  <1>4. Word(a, 2) /\ \A i \in 1..2 : a[i] = u[1 + i - 1]
    BY <1>2, PartOf
  <1>5. Word(b, 2) /\ \A i \in 1..2 : b[i] = u[3 + i - 1]
    BY <1>2, PartOf
  <1> HIDE DEF a, b
  <1>6. Joined(x, a, 2, h, 2)
    <2>1. 2 \in Nat
      OBVIOUS
    <2> QED BY <1>3, <1>4, <2>1, JoinOf, Zenon
  <1> HIDE DEF x
  <1>7. Joined(r, x, 4, b, 2)
    <2>1. Word(x, 4) /\ 4 \in Nat /\ 2 \in Nat
      BY <1>6 DEF Joined
    <2> QED BY <1>5, <2>1, JoinOf, Zenon
  <1> HIDE DEF r
  <1>8. Word(r, 6) /\ r[1] = u[1] /\ r[2] = u[2] /\ r[5] = u[3] /\ r[6] = u[4]
    BY <1>4, <1>5, <1>6, <1>7 DEF Joined
  <1>9. Word(d, 2) /\ \A i \in 1..2 : d[i] = r[1 + i - 1]
    BY <1>8, PartOf
  <1>10. Word(e, 2) /\ \A i \in 1..2 : e[i] = r[5 + i - 1]
    BY <1>8, PartOf
  <1> HIDE DEF d, e
  <1>11. Joined(p, d, 2, e, 2)
    <2>1. 2 \in Nat
      OBVIOUS
    <2> QED BY <1>9, <1>10, <2>1, JoinOf, Zenon
  <1> HIDE DEF p
  <1>12. Word(p, 4) /\ \A i \in 1..4 : p[i] = c.seed + i - 1
    <2>1. Word(p, 4) /\ p[1] = d[1] /\ p[2] = d[2] /\ p[3] = e[1] /\ p[4] = e[2]
      BY <1>11 DEF Joined
    <2>2. p[1] = u[1] /\ p[2] = u[2] /\ p[3] = u[3] /\ p[4] = u[4]
      BY <1>8, <1>9, <1>10, <2>1
    <2> QED BY <1>1, <1>2, <2>1, <2>2
  <1>13. decode(ic, r, c.nmt).uid = p
    BY DEF decode, Nothing, p, d, e
  <1>14. Answer(ic, c) = r
    BY DEF Answer, r, x, a, b, h, u
  <1>15. r[1] = c.seed
    BY <1>1, <1>2, <1>8
  <1> QED BY <1>1, <1>12, <1>13, <1>14, <1>15, ShowsPlain

LEMMA DecodesFelica ==
    ASSUME NEW ic, NEW c \in Card, c.nmt = "FELICA", NEW mem
    PROVE  Shows(ic, Decoded(ic, mem, Answer(ic, c), c.nmt), c)
  <1> DEFINE h == <<1, 18 + c.opt, 1>>
             y == Bytes(c, 8)
             o == Bytes(c, c.opt)
             x == h \o y
             z == x \o y
             r == z \o o
             p == SubSeq(r, 4, 11)
  <1>1. c.n = 8 /\ c.opt \in Nat /\ c.seed \in Nat
    BY TargetsAssumption DEF UidSizes
  <1>2. Word(h, 3) /\ Word(y, 8) /\ Word(o, c.opt) /\ (\A i \in 1..8 : y[i] = c.seed + i - 1)
    <2>1. Word(h, 3)
      BY <1>1 DEF Word
    <2>2. Word(y, 8) /\ \A i \in 1..8 : y[i] = c.seed + i - 1
      BY BytesOf
    <2>3. Word(o, c.opt)
      BY <1>1, BytesOf
    <2> QED BY <2>1, <2>2, <2>3
  <1> HIDE DEF h, y, o
  <1>3. Joined(x, h, 3, y, 8)
    <2>1. 3 \in Nat /\ 8 \in Nat
      OBVIOUS
    <2> QED BY <1>2, <2>1, JoinOf, Zenon
  <1> HIDE DEF x
  <1>4. Joined(z, x, 11, y, 8)
    <2>1. Word(x, 11) /\ 11 \in Nat /\ 8 \in Nat
      BY <1>3 DEF Joined
    <2> QED BY <1>2, <2>1, JoinOf, Zenon
  <1> HIDE DEF z
  <1>5. Joined(r, z, 19, o, c.opt)
    <2>1. Word(z, 19) /\ 19 \in Nat
      BY <1>4 DEF Joined
    <2> QED BY <1>1, <1>2, <2>1, JoinOf, Zenon
  <1> HIDE DEF r
  <1>6. \A i \in 4..11 : r[i] = y[i - 3]
    BY <1>3, <1>4, <1>5 DEF Joined
  <1>7. Word(p, 8) /\ \A i \in 1..8 : p[i] = r[4 + i - 1]
    <2>1. Word(r, 19 + c.opt) /\ 19 + c.opt \in Nat /\ 11 <= 19 + c.opt
      BY <1>1, <1>5 DEF Joined
    <2> QED BY <2>1, PartOf
  <1> HIDE DEF p
  <1>8. \A i \in 1..8 : p[i] = c.seed + i - 1
    BY <1>1, <1>2, <1>6, <1>7
  <1>9. decode(ic, r, c.nmt).uid = p
    BY DEF decode, Nothing, p
  <1>10. Answer(ic, c) = r
    BY DEF Answer, r, z, x, h, y, o
  <1> QED BY <1>1, <1>7, <1>8, <1>9, <1>10, ShowsPlain

LEMMA DecodesOther ==
    ASSUME NEW ic, NEW c \in Card, c.nmt \in {"JEWEL", "DEP"}, NEW mem
    PROVE  Shows(ic, Decoded(ic, mem, Answer(ic, c), c.nmt), c)
  <1> DEFINE h == <<1, 0, 12>>
             y == Bytes(c, 4)
             r == h \o y
             p == SubSeq(r, 4, 7)
  <1>1. c.n = 4 /\ c.seed \in Nat
    BY TargetsAssumption DEF UidSizes
  <1>2. Word(h, 3) /\ Word(y, 4) /\ (\A i \in 1..4 : y[i] = c.seed + i - 1)
    <2>1. Word(h, 3)
      BY <1>1 DEF Word
    <2>2. Word(y, 4) /\ \A i \in 1..4 : y[i] = c.seed + i - 1
      BY BytesOf
    <2> QED BY <2>1, <2>2
  <1> HIDE DEF h, y
  <1>3. Joined(r, h, 3, y, 4)
    <2>1. 3 \in Nat /\ 4 \in Nat
      OBVIOUS
    <2> QED BY <1>2, <2>1, JoinOf, Zenon
  <1> HIDE DEF r
  <1>4. Word(r, 7) /\ \A i \in 4..7 : r[i] = y[i - 3]
    BY <1>3 DEF Joined
  <1>5. Word(p, 4) /\ \A i \in 1..4 : p[i] = r[4 + i - 1]
    BY <1>4, PartOf
  <1> HIDE DEF p
  <1>6. \A i \in 1..4 : p[i] = c.seed + i - 1
    BY <1>1, <1>2, <1>4, <1>5
  <1>7. decode(ic, r, c.nmt).uid = p
    BY DEF decode, Nothing, p
  <1>8. Answer(ic, c) = r
    BY DEF Answer, r, h, y
  <1> QED BY <1>1, <1>5, <1>6, <1>7, <1>8, ShowsPlain

LEMMA DecodesA ==
    ASSUME NEW ic, NEW c \in Card, c.nmt = "ISO14443A", NEW mem
    PROVE  /\ Shows(ic, Decoded(ic, mem, Answer(ic, c), c.nmt), c)
           /\ \E p, s : /\ Word(p, StoredLen(ic, c.n)) /\ Word(s, c.opt)
                       /\ decode(ic, Answer(ic, c), c.nmt) =
                            [uid |-> p, opt |-> s, atqa |-> <<0, 68>>, sak |-> <<32>>, len |-> <<c.n, c.opt>>]
  <1> DEFINE U == Uid(c)
             u == AirUid(ic, c)
             L == AirLen(ic, c.n)
             K == StoredLen(ic, c.n)
             N == Known(ic, c)
             one == <<1>>
             q == IF ic = "PN531" THEN <<68, 0>> ELSE <<0, 68>>
             s == <<32, Len(u)>>
             g == one \o q
             h == g \o s
             x == h \o u
             y == Bytes(c, c.opt)
             f == <<c.opt + 1>>
             o == IF c.opt = 0 THEN <<>> ELSE f \o y
             k == IF c.opt = 0 THEN 0 ELSE c.opt + 1
             r == x \o o
             w == SubSeq(r, 6, 5 + r[5])
             ats == IF Len(r) > r[5] + 5 THEN SubSeq(r, r[5] + 7, r[5] + 5 + r[r[5] + 6]) ELSE <<>>
             p == abtUid(u, c.opt)
             new == decode(ic, r, c.nmt)
  <1>1. c.n \in {4, 7, 10} /\ c.opt \in Nat /\ c.opt <= AtsSize /\ AtsSize \in Nat /\ c.seed \in Nat
    BY TargetsAssumption DEF UidSizes
  <1>2. /\ Word(u, L) /\ szUidLen(u) = c.n /\ Word(p, K) /\ (\A i \in 1..N : p[i] = U[i])
        /\ N <= K /\ N \in 1..c.n /\ K \in 1..10
    <2>1. c.opt \in Int
      BY <1>1
    <2> QED BY <2>1, UidOnAir
  <1>3. L \in {4, 7, 8, 10, 12} /\ L \in Nat /\ c.n \in Nat
    BY <1>1 DEF AirLen
  <1>4. \A i \in 1..c.n : U[i] = c.seed + i - 1
    BY <1>1, BytesOf DEF Uid
  <1>5. Len(u) = L
    BY <1>2 DEF Word
  <1>6. Word(s, 2) /\ s[1] = 32 /\ s[2] = L
    BY <1>3, <1>5 DEF Word
  <1>7. Word(one, 1) /\ one[1] = 1 /\ Word(q, 2)
    BY DEF Word
  <1>8. IF ic = "PN531" THEN q[1] = 68 /\ q[2] = 0 ELSE q[1] = 0 /\ q[2] = 68
    OBVIOUS
  <1>9. Word(y, c.opt)
    BY <1>1, BytesOf
  <1>10. Word(f, 1) /\ f[1] = c.opt + 1
    BY <1>1 DEF Word
  <1> HIDE DEF U, u, L, K, N, s, one, q, y, f, p
  <1>11. /\ Word(o, k) /\ k \in Nat /\ (c.opt = 0 <=> k = 0)
         /\ c.opt > 0 => k = c.opt + 1 /\ o[1] = c.opt + 1 /\ \A i \in 1..c.opt : o[i + 1] = y[i]
    <2>1. CASE c.opt = 0
      <3>1. o = <<>> /\ k = 0
        BY <2>1
      <3>2. Word(<<>>, 0)
        BY DEF Word
      <3> HIDE DEF o, k
      <3> QED BY <2>1, <3>1, <3>2
    <2>2. CASE c.opt # 0
      <3> DEFINE v == f \o y
      <3>1. 1 \in Nat
        OBVIOUS
      <3>2. Joined(v, f, 1, y, c.opt)
        BY <1>1, <1>9, <1>10, <3>1, JoinOf, Zenon
      <3> HIDE DEF v
      <3>3. /\ Word(v, c.opt + 1) /\ v[1] = c.opt + 1
            /\ \A i \in 1..c.opt : v[i + 1] = y[i]
        BY <1>1, <1>10, <3>2 DEF Joined
      <3>4. o = v /\ k = c.opt + 1
        BY <2>2 DEF v
      <3> HIDE DEF o, k
      <3> QED BY <1>1, <2>2, <3>3, <3>4
    <2> QED BY <2>1, <2>2
  <1> HIDE DEF o, k
  <1>12. Joined(g, one, 1, q, 2)
    <2>1. 1 \in Nat /\ 2 \in Nat
      OBVIOUS
    <2> QED BY <1>7, <2>1, JoinOf, Zenon
  <1> HIDE DEF g
  <1>13. Joined(h, g, 3, s, 2)
    <2>1. Word(g, 3) /\ 3 \in Nat /\ 2 \in Nat
      BY <1>12 DEF Joined
    <2> QED BY <1>6, <2>1, JoinOf, Zenon
  <1> HIDE DEF h
  <1>14. Word(h, 5) /\ h[2] = q[1] /\ h[3] = q[2] /\ h[4] = 32 /\ h[5] = L
    BY <1>6, <1>12, <1>13 DEF Joined
  <1>15. Joined(x, h, 5, u, L)
    <2>1. 5 \in Nat /\ L \in Nat /\ Word(h, 5) /\ Word(u, L)
      BY <1>2, <1>3, <1>14
    <2> QED BY <2>1, JoinOf, Zenon
  <1> HIDE DEF x
  <1>16. Joined(r, x, 5 + L, o, k)
    <2>1. 5 + L \in Nat /\ k \in Nat /\ Word(x, 5 + L) /\ Word(o, k)
      BY <1>3, <1>11, <1>15 DEF Joined
    <2> QED BY <2>1, JoinOf, Zenon
  <1> HIDE DEF r
  <1>17. Word(r, 5 + L + k) /\ r[2] = q[1] /\ r[3] = q[2] /\ r[4] = 32 /\ r[5] = L
    BY <1>3, <1>11, <1>14, <1>15, <1>16 DEF Joined
  <1>18. \A i \in 6 .. 5 + L : r[i] = u[i - 5]
    BY <1>3, <1>11, <1>15, <1>16 DEF Joined
  <1>19. \A i \in 1..k : r[5 + L + i] = o[i]
    BY <1>3, <1>11, <1>16 DEF Joined
  <1>20. w = u
    <2>1. Word(w, L) /\ \A i \in 1..L : w[i] = r[6 + i - 1]
      <3> DEFINE n == 5 + L + k
                 hi == 5 + L
      <3>1. n \in Nat /\ hi \in Nat /\ hi <= n /\ L = hi - 6 + 1 /\ 6 \in Nat \ {0} /\ L \in Nat
        BY <1>3, <1>11
      <3>2. w = SubSeq(r, 6, hi) /\ Word(r, n)
        BY <1>17
      <3> HIDE DEF w, n, hi
      <3>3. Part(SubSeq(r, 6, hi), r, 6, L)
        BY <3>1, <3>2, PartIs, Zenon
      <3> QED BY <3>2, <3>3 DEF Part
    <2> HIDE DEF w
    <2>2. \A i \in 1..L : w[i] = u[i]
      BY <1>3, <1>18, <2>1
    <2> QED BY <1>2, <1>3, <2>1, <2>2, SameWord
  <1> HIDE DEF w
  <1>21. Word(ats, c.opt) /\ \A i \in 1..c.opt : ats[i] = y[i]
    <2>1. Len(r) = 5 + L + k
      BY <1>17 DEF Word
    <2>2. CASE c.opt = 0
      <3>1. ats = <<>>
        BY <1>3, <1>11, <1>17, <2>1, <2>2
      <3>2. Word(<<>>, 0)
        BY DEF Word
      <3> HIDE DEF ats
      <3> QED BY <2>2, <3>1, <3>2
    <2>3. CASE c.opt # 0
      <3>1. c.opt > 0 /\ k = c.opt + 1 /\ o[1] = c.opt + 1
        BY <1>1, <1>11, <2>3
      <3>2. r[5 + L + 1] = c.opt + 1
        BY <1>1, <1>19, <3>1
      <3>3. r[L + 6] = c.opt + 1
        BY <1>3, <3>2
      <3>4. ats = SubSeq(r, L + 7, L + 5 + (c.opt + 1))
        BY <1>1, <1>3, <1>17, <2>1, <3>1, <3>3
      <3> DEFINE lo == L + 7
                 hi == L + 5 + (c.opt + 1)
                 n == 5 + L + k
      <3>5. /\ lo \in Nat \ {0} /\ hi \in Nat /\ hi <= n /\ c.opt = hi - lo + 1 /\ n \in Nat
            /\ \A i \in 1..c.opt : lo + i - 1 = 5 + L + (i + 1)
        BY <1>1, <1>3, <3>1
      <3>6. ats = SubSeq(r, lo, hi) /\ Word(r, n)
        BY <1>17, <3>4
      <3> HIDE DEF lo, hi, n, ats
      <3>8. Part(SubSeq(r, lo, hi), r, lo, c.opt)
        BY <1>1, <3>5, <3>6, PartIs, Zenon
      <3>9. Word(ats, c.opt) /\ \A i \in 1..c.opt : ats[i] = r[lo + i - 1]
        BY <3>6, <3>8 DEF Part
      <3>7. \A i \in 1..c.opt : r[5 + L + (i + 1)] = o[i + 1] /\ o[i + 1] = y[i]
        BY <1>1, <1>11, <1>19, <3>1
      <3> QED BY <3>5, <3>7, <3>9
    <2> QED BY <2>2, <2>3
  <1> HIDE DEF ats
  <1>24. \A i \in 1..N : p[i] = c.seed + i - 1
    BY <1>1, <1>2, <1>4
  <1>25. Len(ats) = c.opt
    BY <1>21 DEF Word
  <1>26. new = [uid |-> p, opt |-> ats, atqa |-> <<0, 68>>, sak |-> <<32>>, len |-> <<c.n, c.opt>>]
    <2>1. new = [uid  |-> abtUid(w, Len(ats)), opt |-> ats,
                 atqa |-> IF ic = "PN531" THEN <<r[3], r[2]>> ELSE <<r[2], r[3]>>,
                 sak  |-> <<r[4]>>, len |-> <<szUidLen(w), Len(ats)>>]
      BY DEF decode, w, ats
    <2>2. abtUid(w, Len(ats)) = p /\ szUidLen(w) = c.n
      BY <1>2, <1>20, <1>25 DEF p
    <2>3. (IF ic = "PN531" THEN <<r[3], r[2]>> ELSE <<r[2], r[3]>>) = <<0, 68>> /\ r[4] = 32
      BY <1>8, <1>17
    <2> QED BY <1>25, <2>1, <2>2, <2>3
  <1> HIDE DEF new
  <1> DEFINE m == Decoded(ic, mem, r, c.nmt)
  <1>27. \A i \in 1..N : m[<<"uid", i>>] = c.seed + i - 1
    <2> SUFFICES ASSUME NEW i \in 1..N PROVE m[<<"uid", i>>] = c.seed + i - 1
      OBVIOUS
    <2>3. i \in 1..K /\ i \in 1..10
      BY <1>2
    <2>1. <<"uid", i>> \in Cells
      BY <2>3 DEF Cells
    <2>2. DOMAIN p = 1..K
      BY <1>2 DEF Word
    <2>5. new.uid = p
      BY <1>26
    <2>4. m[<<"uid", i>>] = new.uid[i]
      <3>1. i \in DOMAIN decode(ic, r, c.nmt).uid
        BY <2>2, <2>3, <2>5 DEF new
      <3> QED BY <2>1, <3>1, CellOf DEF new
    <2> QED BY <1>24, <2>4, <2>5
  <1>28. m[<<"len", 1>>] = c.n /\ m[<<"len", 2>>] = c.opt
    <2>1. <<"len", 1>> \in Cells /\ <<"len", 2>> \in Cells
      BY DEF Cells
    <2>2. new.len = <<c.n, c.opt>>
      BY <1>26
    <2>3. 1 \in DOMAIN new.len /\ 2 \in DOMAIN new.len /\ new.len[1] = c.n /\ new.len[2] = c.opt
      BY <2>2
    <2> QED BY <2>1, <2>3, CellOf DEF new
  <1>29. m[<<"atqa", 1>>] = 0 /\ m[<<"atqa", 2>>] = 68 /\ m[<<"sak", 1>>] = 32
    <2>1. <<"atqa", 1>> \in Cells /\ <<"atqa", 2>> \in Cells /\ <<"sak", 1>> \in Cells
      BY DEF Cells
    <2>2. new.atqa = <<0, 68>> /\ new.sak = <<32>>
      BY <1>26
    <2>3. 1 \in DOMAIN new.atqa /\ 2 \in DOMAIN new.atqa /\ new.atqa[1] = 0 /\ new.atqa[2] = 68
      BY <2>2
    <2>4. 1 \in DOMAIN new.sak /\ new.sak[1] = 32
      BY <2>2
    <2> QED BY <2>1, <2>3, <2>4, CellOf DEF new
  <1>30. \A i \in 1..c.opt : m[<<"opt", i>>] = y[i]
    <2> SUFFICES ASSUME NEW i \in 1..c.opt PROVE m[<<"opt", i>>] = y[i]
      OBVIOUS
    <2>1. <<"opt", i>> \in Cells
      BY <1>1 DEF Cells
    <2>2. DOMAIN ats = 1..c.opt
      BY <1>21 DEF Word
    <2>3. new.opt = ats
      BY <1>26
    <2>4. m[<<"opt", i>>] = new.opt[i]
      <3>1. i \in DOMAIN decode(ic, r, c.nmt).opt
        BY <2>2, <2>3 DEF new
      <3> QED BY <2>1, <3>1, CellOf DEF new
    <2> QED BY <1>21, <2>3, <2>4
  <1> HIDE DEF m
  <1>31. Len(UidIn(m, c.nmt)) = c.n /\ \A i \in 1..Known(ic, c) : UidIn(m, c.nmt)[i] = Uid(c)[i]
    BY <1>27, <1>28, UidRead DEF N
  <1>32. Shows(ic, m, c)
    BY <1>28, <1>29, <1>30, <1>31 DEF Shows, y
  <1>33. Answer(ic, c) = r
    BY DEF Answer, r, x, h, g, one, q, s, u, AirUid, o, f, y
  <1>34. decode(ic, Answer(ic, c), c.nmt) =
           [uid |-> p, opt |-> ats, atqa |-> <<0, 68>>, sak |-> <<32>>, len |-> <<c.n, c.opt>>]
    BY <1>26, <1>33 DEF new
  <1>35. Word(p, StoredLen(ic, c.n)) /\ Word(ats, c.opt)
    BY <1>2, <1>21 DEF K
  <1> QED BY <1>32, <1>33, <1>34, <1>35 DEF m

\* Whatever was in the memory, what a card answers is there once it is decoded.
LEMMA CardShown ==
    ASSUME NEW ic, NEW c \in Card, NEW mem
    PROVE  Shows(ic, Decoded(ic, mem, Answer(ic, c), c.nmt), c)
  <1>1. c.nmt \in ModType
    BY TargetsAssumption
  <1> QED BY <1>1, DecodesA, DecodesB, DecodesBI, DecodesB2SR, DecodesB2CT, DecodesFelica, DecodesOther DEF ModType, RawType

LEMMA RawAnswer ==
    ASSUME NEW ic, NEW c \in Card, c.nmt \in RawType
    PROVE  Answer(ic, c)[1] = c.seed /\ (DecodeFails(Answer(ic, c), c.nmt) => c \in Odd)
  BY DecodesBI, DecodesB2SR, DecodesB2CT DEF RawType, DecodeFails

\* No two cards leave the same memory.
LEMMA ShownOnce ==
    ASSUME NEW ic, NEW c \in Card, NEW d \in Card, c.nmt = d.nmt, NEW mem, Shows(ic, mem, c), Shows(ic, mem, d)
    PROVE  c = d
  <1>1. c.n \in Nat \ {0} /\ d.n \in Nat \ {0} /\ c.seed \in Nat /\ d.seed \in Nat
    BY TargetsAssumption DEF UidSizes
  <1>2. 1 \in 1..Known(ic, c) /\ 1 \in 1..Known(ic, d)
    BY <1>1 DEF Known
  <1>5. Uid(c)[1] = Uid(d)[1] /\ c.n = d.n
    BY <1>2 DEF Shows
  <1>3. Uid(c)[1] = c.seed /\ Uid(d)[1] = d.seed
    BY <1>1, BytesOf DEF Uid
  <1> QED BY <1>3, <1>5, TargetsAssumption

\* Cards of one layout are decoded into the same cells.
LEMMA SameCells ==
    ASSUME NEW ic, NEW c \in Card, NEW d \in Card, c.nmt = d.nmt, c.nmt \in {"ISO14443A", "ISO14443B"}, Alike(c, d),
           NEW name \in {"uid", "opt", "atqa", "sak", "len"}
    PROVE  DOMAIN decode(ic, Answer(ic, c), c.nmt)[name] = DOMAIN decode(ic, Answer(ic, d), c.nmt)[name]
  <1>1. c.n = d.n /\ c.opt = d.opt
    BY DEF Alike
  <1>2. \A p, q, k : Word(p, k) /\ Word(q, k) => DOMAIN p = DOMAIN q
    BY DEF Word
  <1> DEFINE C == decode(ic, Answer(ic, c), c.nmt)
             D == decode(ic, Answer(ic, d), d.nmt)
  <1>3. CASE c.nmt = "ISO14443A"
    <2>1. PICK p, s : /\ Word(p, StoredLen(ic, c.n)) /\ Word(s, c.opt)
                      /\ C = [uid |-> p, opt |-> s, atqa |-> <<0, 68>>, sak |-> <<32>>, len |-> <<c.n, c.opt>>]
      BY <1>3, DecodesA, Zenon
    <2>2. PICK q, t : /\ Word(q, StoredLen(ic, d.n)) /\ Word(t, d.opt)
                      /\ D = [uid |-> q, opt |-> t, atqa |-> <<0, 68>>, sak |-> <<32>>, len |-> <<d.n, d.opt>>]
      BY <1>3, DecodesA, Zenon
    <2> HIDE DEF C, D
    <2>3. DOMAIN p = DOMAIN q /\ DOMAIN s = DOMAIN t
      BY <1>1, <1>2, <2>1, <2>2
    <2>4. C.uid = p /\ C.opt = s /\ D.uid = q /\ D.opt = t /\ C.atqa = D.atqa /\ C.sak = D.sak /\ C.len = D.len
      BY <1>1, <2>1, <2>2
    <2>5. DOMAIN C[name] = DOMAIN D[name]
      BY <2>3, <2>4
    <2> QED BY <2>5 DEF C, D
  <1>4. CASE c.nmt = "ISO14443B"
    <2>1. PICK p, s : /\ Word(p, 4) /\ Word(s, AtqbOpt(c.opt))
                      /\ C = [uid |-> p, opt |-> s, atqa |-> <<>>, sak |-> <<>>, len |-> <<>>]
      BY <1>4, DecodesB, Zenon
    <2>2. PICK q, t : /\ Word(q, 4) /\ Word(t, AtqbOpt(d.opt))
                      /\ D = [uid |-> q, opt |-> t, atqa |-> <<>>, sak |-> <<>>, len |-> <<>>]
      BY <1>4, DecodesB, Zenon
    <2> HIDE DEF C, D
    <2>3. DOMAIN p = DOMAIN q /\ DOMAIN s = DOMAIN t
      BY <1>1, <1>2, <2>1, <2>2
    <2>4. C.uid = p /\ C.opt = s /\ D.uid = q /\ D.opt = t /\ C.atqa = D.atqa /\ C.sak = D.sak /\ C.len = D.len
      BY <2>1, <2>2 DEF Nothing
    <2>5. DOMAIN C[name] = DOMAIN D[name]
      BY <2>3, <2>4
    <2> QED BY <2>5 DEF C, D
  <1> QED BY <1>3, <1>4

\* Decoding a card over one of the same layout leaves nothing of that one.
LEMMA DecodedOver ==
    ASSUME NEW ic, NEW c \in Card, NEW d \in Card, c.nmt = d.nmt, c.nmt \in {"ISO14443A", "ISO14443B"}, Alike(c, d), NEW mem
    PROVE  Decoded(ic, Decoded(ic, mem, Answer(ic, d), c.nmt), Answer(ic, c), c.nmt) = Decoded(ic, mem, Answer(ic, c), c.nmt)
  <1> DEFINE C == decode(ic, Answer(ic, c), c.nmt)
             D == decode(ic, Answer(ic, d), c.nmt)
             m == Decoded(ic, mem, Answer(ic, d), c.nmt)
  <1>1. \A x \in Cells : x[1] \in {"uid", "opt", "atqa", "sak", "len"}
    BY DEF Cells
  <1>2. \A x \in Cells : DOMAIN C[x[1]] = DOMAIN D[x[1]]
    BY <1>1, SameCells
  <1>3. m = [x \in Cells |-> IF x[2] \in DOMAIN D[x[1]] THEN D[x[1]][x[2]] ELSE mem[x]]
    BY DEF Decoded
  <1>4. Decoded(ic, mem, Answer(ic, c), c.nmt) = [x \in Cells |-> IF x[2] \in DOMAIN C[x[1]] THEN C[x[1]][x[2]] ELSE mem[x]]
    BY DEF Decoded
  <1>5. Decoded(ic, m, Answer(ic, c), c.nmt) = [x \in Cells |-> IF x[2] \in DOMAIN C[x[1]] THEN C[x[1]][x[2]] ELSE m[x]]
    BY DEF Decoded
  <1> HIDE DEF C, D, m
  <1>6. \A x \in Cells : (IF x[2] \in DOMAIN C[x[1]] THEN C[x[1]][x[2]] ELSE m[x])
                         = (IF x[2] \in DOMAIN C[x[1]] THEN C[x[1]][x[2]] ELSE mem[x])
    BY <1>2, <1>3
  <1>7. Decoded(ic, m, Answer(ic, c), c.nmt) = Decoded(ic, mem, Answer(ic, c), c.nmt)
    BY <1>4, <1>5, <1>6
  <1> QED BY <1>7 DEF m

\* The size_t of pn53x_target_init wraps around for no byte and for one, and only then.
LEMMA SizeWraps ==
    ASSUME NEW n \in 0 .. RxLen + 3
    PROVE  /\ n < 2 => Overflows(n)
           /\ n >= 2 => (Overflows(n) <=> n - 2 > RxLen) /\ (n - 1 + SizeMod) % SizeMod = n - 1
  <1>1. RxLen \in Nat /\ SizeMod \in Nat /\ RxLen + 3 < SizeMod
    BY TargetsAssumption
  <1>2. \A m \in Nat, x \in Nat : x < m => x % m = x
    BY SMT
  <1>3. \A m \in Nat, x \in Nat : x < m => (x + m) % m = x
    BY SMT
  <1>4. CASE n < 2
    <2>1. n - 2 + SizeMod \in Nat /\ n - 2 + SizeMod < SizeMod
      BY <1>1, <1>4
    <2>2. (n - 2 + SizeMod) % SizeMod = n - 2 + SizeMod
      BY <1>1, <1>2, <2>1
    <2> QED BY <1>1, <1>4, <2>2 DEF Overflows
  <1>5. CASE n >= 2
    <2>1. n - 2 \in Nat /\ n - 2 < SizeMod /\ n - 1 \in Nat /\ n - 1 < SizeMod
      BY <1>1, <1>5
    <2>2. (n - 2 + SizeMod) % SizeMod = n - 2 /\ (n - 1 + SizeMod) % SizeMod = n - 1
      BY <1>1, <1>3, <2>1
    <2> QED BY <1>1, <1>5, <2>2 DEF Overflows
  <1> QED BY <1>1, <1>4, <1>5

-----------------------------------------------------------------------------
(* What holds between the steps of a call                                  *)

Deselectable == {"ISO14443A", "ISO14443B"}
ListCall == op \in {"list", "listing", "listed"}
ListLoop == op \in {"list", "listing"}
ListEntries == {ant[i] : i \in DOMAIN ant}

TargetTypes ==
    /\ TargetsTypeOK
    /\ field \subseteq Card /\ faults \in Nat /\ size \in Nat /\ res \in Int
    /\ ant \in Seq(ListEntries)

\* The UID that is asked for is that of a card.
Asked == init # <<>> /\ nm.nmt = "ISO14443A" => \E c \in field : c.nmt = "ISO14443A" /\ init = Cascaded(Uid(c))

\* What a selection came to: FoundIsDecoded, at once.
Outcome ==
    /\ res > 0 => \/ found \in field /\ (size = 0 \/ Shows(chip, nt, found) \/ Lost)
                  \/ found = None /\ Unread
    /\ res <= 0 /\ found # None => nm.nmt \in RawType /\ (found.seed = 0 \/ found \in Odd \/ faults > 0)
    /\ init # <<>> /\ nm.nmt = "ISO14443A" =>
          IF found = None THEN faults > 0 \/ halted # {} ELSE init = Cascaded(Uid(found))

FoundNow == op \in {"selected", "listing", "polling"} => Outcome

Polled ==
    op = "polled" => /\ init = <<>>
                     /\ res > 0 => found \in field /\ found.nmt = nm.nmt
                     /\ res <= 0 => found = None

\* An nfc_target and the card it is of, or what an aborted command left
Entry(mem, c) ==
    \/ c \in field /\ c.nmt = nm.nmt /\ (Shows(chip, mem, c) \/ Lost)
    \/ c = None /\ Unread /\ mem = Rubbish

\* The cards listed are there, and shown as they were found.
ListedShown ==
    ListCall => /\ init = <<>>
                /\ \A i \in DOMAIN ant : Entry(ant[i].mem, ant[i].card)

\* The loop goes on only while there is room, for cards that can be deselected and are.
Going ==
    ListLoop => /\ Len(ant) < size
                /\ ant # <<>> => nm.nmt \in Deselectable
                /\ faults = 0 => \A i \in DOMAIN ant : ant[i].card \in halted

\* What is in the nfc_target when a card is decoded into it
Before == IF ant = <<>> THEN Clean ELSE ant[Len(ant)].mem

\* What the last selection of the loop did.
JustFound ==
    /\ op = "list" => nt = Before
    /\ op = "listing" /\ res > 0 =>
          /\ nm.nmt # "DEP"
          /\ \/ /\ found \in field /\ found.nmt = nm.nmt
                /\ nm.nmt \in Deselectable => nt = Decoded(chip, Before, Answer(chip, found), nm.nmt) /\ (found \in halted => again)
             \/ found = None /\ Unread /\ nt = Rubbish
    /\ op = "listing" /\ res <= 0 /\ nm.nmt \in Deselectable /\ ~Refused(chip, support, pn53x_nm_to_pm(nm)) /\ faults = 0 =>
          \A c \in field : c.nmt = nm.nmt => c \in halted

\* Cards of one layout, listed one after the other, leave nothing in each other's memory.
Fresh ==
    ListCall /\ nm.nmt \in Deselectable =>
      \A j \in DOMAIN ant : ant[j].card # None /\ (\A i \in 1..j : Alike(ant[i].card, ant[j].card)) =>
         ant[j].mem = Decoded(chip, Clean, Answer(chip, ant[j].card), nm.nmt)

Twice ==
    ListCall => \A i, j \in DOMAIN ant : i < j /\ ant[i].card = ant[j].card =>
                 (again \/ faults > 0) /\ ant[i].card # None /\ \E k \in DOMAIN ant : ~Alike(ant[k].card, ant[i].card)

\* What nfc_initiator_list_passive_targets has done when its loop is over.
ListDone ==
    op = "listed" =>
      /\ Len(ant) <= size
      /\ /\ nm.nmt \in Deselectable /\ ~Refused(chip, support, pn53x_nm_to_pm(nm))
         /\ Len(ant) < size /\ ~again /\ faults = 0
         => \A c \in field : c.nmt = nm.nmt => c \in halted

TargetsInv ==
    TargetTypes /\ Asked /\ Polled /\ FoundNow /\ ListedShown /\ Going /\ JustFound /\ Fresh /\ Twice /\ ListDone

-----------------------------------------------------------------------------
(* The steps                                                               *)

\* Outside nfc_initiator_list_passive_targets nothing is said of a list.
LEMMA NoList ==
    ASSUME op' \notin {"list", "listing", "listed"}
    PROVE  (ListedShown /\ Going /\ JustFound /\ Fresh /\ Twice /\ ListDone)'
  BY DEF ListedShown, Going, JustFound, Fresh, Twice, ListDone, ListCall, ListLoop

LEMMA NoEntries ==
    ASSUME ant' = <<>>
    PROVE  ant' \in Seq(ListEntries') /\ DOMAIN ant' = {} /\ Len(ant') = 0
  <1>1. DOMAIN ant' = {} /\ Len(ant') = 0
    OBVIOUS
  <1>2. ant' \in Seq(ListEntries')
    BY EmptySeq
  <1> QED BY <1>1, <1>2

LEMMA SameEntries ==
    ASSUME ant \in Seq(ListEntries), ant' = ant
    PROVE  ant' \in Seq(ListEntries')
  BY DEF ListEntries

LEMMA CleanCells == DOMAIN Clean = Cells
  BY DEF Clean

LEMMA DecodedCells == ASSUME NEW ic, NEW mem, NEW r, NEW t PROVE DOMAIN Decoded(ic, mem, r, t) = Cells
  BY DEF Decoded

LEMMA StepListCall ==
    ASSUME TargetsInv, NEW m \in Modulation, NEW n \in Sizes, list_passive_targets(m, n)
    PROVE  TargetsInv'
  <1>1. /\ nm' = m /\ init' = <<>> /\ size' = n /\ ant' = <<>> /\ nt' = Clean /\ found' = None
        /\ field' = field /\ halted' = halted
    BY DEF list_passive_targets, Setting
  <1>2. \/ op' = "list" /\ res' = res /\ faults' = faults
        \/ op' = "selected" /\ res' = EIO /\ faults' = faults + 1
    BY DEF list_passive_targets, Fault
  <1>3. n \in Nat /\ n > 0
    BY TargetsAssumption
  <1>4. faults' \in Nat /\ res' \in Int
    BY <1>2 DEF TargetsInv, TargetTypes, EIO
  <1>5. TargetTypes'
    <2>1. TargetsTypeOK'
      BY <1>1, <1>2, CleanCells DEF TargetsInv, TargetTypes, TargetsTypeOK
    <2> QED BY <1>1, <1>3, <1>4, <2>1, NoEntries DEF TargetsInv, TargetTypes
  <1>6. Asked' /\ Polled'
    BY <1>1, <1>2 DEF Asked, Polled
  <1>7. FoundNow'
    BY <1>1, <1>2 DEF FoundNow, Outcome, EIO
  <1>8. DOMAIN ant' = {} /\ Len(ant') = 0
    BY <1>1, NoEntries
  <1>9. ListedShown' /\ Fresh' /\ Twice'
    BY <1>1, <1>8 DEF ListedShown, Fresh, Twice
  <1>10. Going'
    BY <1>1, <1>3, <1>8 DEF Going
  <1>11. JustFound' /\ ListDone'
    BY <1>1, <1>2 DEF JustFound, ListDone, Before
  <1> QED BY <1>5, <1>6, <1>7, <1>9, <1>10, <1>11 DEF TargetsInv

LEMMA StepSelectCall ==
    ASSUME TargetsInv, NEW m \in Modulation, \A c \in field : c.nmt = m.nmt,
           NEW u \in {<<>>} \cup {Uid(c) : c \in {x \in field : x.nmt = "ISO14443A"}}, NEW n \in {0, 1},
           select_passive_target(m, u, n)
    PROVE  TargetsInv'
  <1>1. /\ op' = "select" /\ nm' = m /\ ant' = <<>> /\ nt' = Clean /\ found' = None
        /\ init' = (IF m.nmt = "ISO14443A" THEN iso14443_cascade_uid(u) ELSE u)
        /\ field' = field /\ halted' = halted /\ size' = n /\ res' = res /\ faults' = faults
    BY DEF select_passive_target, Setting
  <1>2. TargetTypes'
    <2>1. TargetsTypeOK'
      BY <1>1, CleanCells DEF TargetsInv, TargetTypes, TargetsTypeOK
    <2> QED BY <1>1, <2>1, NoEntries DEF TargetsInv, TargetTypes
  <1>3. Asked'
    <2> SUFFICES ASSUME init' # <<>>, m.nmt = "ISO14443A"
                 PROVE  \E c \in field : c.nmt = "ISO14443A" /\ init' = Cascaded(Uid(c))
      BY <1>1 DEF Asked
    <2>1. iso14443_cascade_uid(<<>>) = <<>>
      BY DEF iso14443_cascade_uid
    <2>2. PICK c \in field : c.nmt = "ISO14443A" /\ u = Uid(c)
      BY <1>1, <2>1
    <2>3. c \in Card
      BY DEF TargetsInv, TargetTypes
    <2> QED BY <1>1, <2>2, <2>3, UidAsked
  <1>4. Polled' /\ FoundNow'
    BY <1>1 DEF Polled, FoundNow
  <1> QED BY <1>1, <1>2, <1>3, <1>4, NoList DEF TargetsInv

LEMMA StepInitCall ==
    ASSUME TargetsInv, NEW n \in 0 .. RxLen + 3, NEW b \in BOOLEAN, target_init(n, b)
    PROVE  TargetsInv'
  <1>1. /\ op' \in {"init", "inited"} /\ nm' = nm /\ ant' = ant /\ nt' = nt /\ found' = found /\ init' = init
        /\ field' = field /\ halted' = halted /\ size' = size /\ faults' = faults
    BY DEF target_init, Setting
  <1>2. res' \in Int
    <2> DEFINE k == IF Overflows(n) THEN 0 ELSE (n - 1 + SizeMod) % SizeMod
    <2>1. k \in Int
      BY SizeWraps
    <2>2. res' \in {res, EOVFLOW, k, 0}
      BY DEF target_init
    <2> HIDE DEF k
    <2> QED BY <2>1, <2>2 DEF TargetsInv, TargetTypes, EOVFLOW
  <1>3. TargetTypes'
    <2>1. TargetsTypeOK'
      BY <1>1 DEF TargetsInv, TargetTypes, TargetsTypeOK
    <2> QED BY <1>1, <1>2, <2>1, SameEntries DEF TargetsInv, TargetTypes
  <1>4. Asked'
    BY <1>1 DEF TargetsInv, Asked
  <1>5. Polled' /\ FoundNow'
    BY <1>1 DEF Polled, FoundNow
  <1> QED BY <1>1, <1>3, <1>4, <1>5, NoList DEF TargetsInv

LEMMA StepInitFails ==
    ASSUME TargetsInv, NEW b \in BOOLEAN, target_init_fails(b)
    PROVE  TargetsInv'
  <1>1. /\ op' = "inited" /\ nm' = nm /\ ant' = ant /\ nt' = nt /\ found' = found /\ init' = init
        /\ field' = field /\ halted' = halted /\ size' = size /\ faults' \in {faults, faults + 1} /\ res' \in {0, EIO}
    BY DEF target_init_fails, Setting, Fault
  <1>2. faults' \in Nat /\ res' \in Int
    BY <1>1 DEF TargetsInv, TargetTypes, EIO
  <1>3. TargetTypes'
    <2>1. TargetsTypeOK'
      BY <1>1 DEF TargetsInv, TargetTypes, TargetsTypeOK
    <2> QED BY <1>1, <1>2, <2>1, SameEntries DEF TargetsInv, TargetTypes
  <1>4. Asked' /\ Polled' /\ FoundNow'
    BY <1>1 DEF TargetsInv, Asked, Polled, FoundNow
  <1> QED BY <1>1, <1>3, <1>4, NoList DEF TargetsInv

LEMMA StepPollCall ==
    ASSUME TargetsInv, NEW m \in Modulation, poll(m)
    PROVE  TargetsInv'
  <1>1. /\ op' = "poll" /\ nm' = m /\ ant' = ant /\ nt' = Clean /\ found' = None /\ init' = <<>>
        /\ field' = field /\ halted' = halted /\ size' = 1 /\ faults' = faults /\ res' = res
    BY DEF poll, Setting
  <1>2. TargetTypes'
    <2>1. TargetsTypeOK'
      BY <1>1, CleanCells DEF TargetsInv, TargetTypes, TargetsTypeOK
    <2> QED BY <1>1, <2>1, SameEntries DEF TargetsInv, TargetTypes
  <1>3. Asked' /\ Polled' /\ FoundNow'
    BY <1>1 DEF Asked, Polled, FoundNow
  <1> QED BY <1>1, <1>2, <1>3, NoList DEF TargetsInv

LEMMA StepPollRound ==
    ASSUME TargetsInv, poll_step
    PROVE  TargetsInv'
  <1>1. /\ op = "polling" /\ op' \in {"selected", "poll"} /\ nm' = nm /\ ant' = ant /\ nt' = nt /\ found' = found
        /\ init' = init /\ field' = field /\ halted' = halted /\ size' = size /\ faults' = faults /\ chip' = chip
        /\ res' = res \/ (res' = 0 /\ res \in {ECHIP, ETIMEOUT})
    BY DEF poll_step, Setting
  <1>2. res' \in Int /\ (res' > 0 => res > 0) /\ (res' <= 0 => res <= 0)
    BY <1>1 DEF TargetsInv, TargetTypes, ECHIP, ETIMEOUT
  <1>3. TargetTypes'
    <2>1. TargetsTypeOK'
      BY <1>1 DEF TargetsInv, TargetTypes, TargetsTypeOK
    <2> QED BY <1>1, <1>2, <2>1, SameEntries DEF TargetsInv, TargetTypes
  <1>4. Asked' /\ Polled'
    BY <1>1 DEF TargetsInv, Asked, Polled
  <1>5. FoundNow'
    <2>1. Outcome
      BY <1>1 DEF TargetsInv, FoundNow
    <2> QED BY <1>1, <1>2, <2>1 DEF FoundNow, Outcome, Lost, Unread
  <1> QED BY <1>1, <1>3, <1>4, <1>5, NoList DEF TargetsInv

LEMMA StepTargetReturn ==
    ASSUME TargetsInv, return
    PROVE  TargetsInv'
  <1>1. /\ op' = "idle" /\ nm' = [nmt |-> "DEP", nbr |-> 0] /\ ant' = <<>> /\ nt' = Clean /\ found' = None /\ init' = <<>>
        /\ field' = field /\ halted' = halted /\ size' = 0 /\ faults' = faults /\ res' = 0
    BY DEF return, Setting
  <1>2. TargetTypes'
    <2>1. TargetsTypeOK'
      BY <1>1, CleanCells DEF TargetsInv, TargetTypes, TargetsTypeOK, Modulation, ModType, Rate
    <2> QED BY <1>1, <2>1, NoEntries DEF TargetsInv, TargetTypes
  <1>3. Asked' /\ Polled' /\ FoundNow'
    BY <1>1 DEF Asked, Polled, FoundNow
  <1> QED BY <1>1, <1>2, <1>3, NoList DEF TargetsInv

\* What InAutoPoll finds has the modulation it was polled for.
LEMMA PolledModulation ==
    ASSUME NEW m \in Modulation, pn53x_nm_to_ptt(m) # Undefined
    PROVE  pn53x_ptt_to_nm(pn53x_nm_to_ptt(m)) \in Modulation /\ pn53x_ptt_to_nm(pn53x_nm_to_ptt(m)).nmt = m.nmt
  <1>1. CASE m.nmt = "ISO14443A"
    <2>1. pn53x_nm_to_ptt(m) = <<"MIFARE", 106>>
      BY <1>1 DEF pn53x_nm_to_ptt
    <2> QED BY <1>1, <2>1 DEF pn53x_ptt_to_nm, Modulation, ModType, Rate
  <1>2. CASE m.nmt = "ISO14443B" /\ m.nbr = 106
    <2>1. pn53x_nm_to_ptt(m) = <<"ISO14443_4B", 106>>
      BY <1>2 DEF pn53x_nm_to_ptt
    <2> QED BY <1>2, <2>1 DEF pn53x_ptt_to_nm, Modulation, ModType, Rate
  <1>3. CASE m.nmt = "JEWEL"
    <2>1. pn53x_nm_to_ptt(m) = <<"JEWEL", 106>>
      BY <1>3 DEF pn53x_nm_to_ptt
    <2> QED BY <1>3, <2>1 DEF pn53x_ptt_to_nm, Modulation, ModType, Rate
  <1>4. CASE m.nmt = "FELICA" /\ m.nbr \in {212, 424}
    <2>1. pn53x_nm_to_ptt(m) = <<"FELICA", m.nbr>>
      BY <1>4 DEF pn53x_nm_to_ptt
    <2> QED BY <1>4, <2>1 DEF pn53x_ptt_to_nm, Modulation, ModType, Rate
  <1>5. m.nmt = "ISO14443A" \/ (m.nmt = "ISO14443B" /\ m.nbr = 106) \/ m.nmt = "JEWEL" \/ (m.nmt = "FELICA" /\ m.nbr \in {212, 424})
    BY DEF pn53x_nm_to_ptt, Undefined
  <1> QED BY <1>1, <1>2, <1>3, <1>4, <1>5

LEMMA StepAutoPoll ==
    ASSUME TargetsInv, NEW m \in Modulation, auto_poll(m)
    PROVE  TargetsInv'
  <1>1. /\ op' = "polled" /\ ant' = ant /\ nt' = Clean /\ init' = <<>>
        /\ field' = field /\ halted' = halted /\ size' = 1
    BY DEF auto_poll, Setting
  <1>2. \/ nm' \in Modulation /\ res' < 0 /\ res' \in Int /\ found' = None /\ faults' \in {faults, faults + 1}
        \/ nm' \in Modulation /\ res' > 0 /\ res' \in Int /\ found' \in field /\ found'.nmt = nm'.nmt /\ faults' = faults
    <2> DEFINE ptt == pn53x_nm_to_ptt(m)
    <2>1. CASE ptt = Undefined
      <3>1. nm' = m /\ res' = EINVARG /\ found' = None /\ faults' = faults
        BY <2>1 DEF auto_poll
      <3> QED BY <3>1 DEF EINVARG
    <2>2. CASE ptt # Undefined
      <3>1. \/ \E c \in field : c.nmt = m.nmt /\ nm' = pn53x_ptt_to_nm(ptt) /\ found' = c /\ res' \in {1, 2} /\ faults' = faults
            \/ faults' = faults + 1 /\ res' \in {EIO, ECHIP} /\ nm' = m /\ found' = None
        BY <2>2 DEF auto_poll, Fault
      <3>2. pn53x_ptt_to_nm(ptt) \in Modulation /\ pn53x_ptt_to_nm(ptt).nmt = m.nmt
        BY <2>2, PolledModulation
      <3> HIDE DEF ptt
      <3> QED BY <3>1, <3>2 DEF EIO, ECHIP
    <2> QED BY <2>1, <2>2
  <1>3. faults' \in Nat /\ res' \in Int /\ nm' \in Modulation /\ found' \in field \cup {None}
    BY <1>2 DEF TargetsInv, TargetTypes
  <1>4. TargetTypes'
    <2>1. TargetsTypeOK'
      BY <1>1, <1>3, CleanCells DEF TargetsInv, TargetTypes, TargetsTypeOK
    <2> QED BY <1>1, <1>3, <2>1, SameEntries DEF TargetsInv, TargetTypes
  <1>5. Asked' /\ FoundNow'
    BY <1>1 DEF Asked, FoundNow
  <1>6. Polled'
    BY <1>1, <1>2 DEF Polled
  <1> QED BY <1>1, <1>4, <1>5, <1>6, NoList DEF TargetsInv

LEMMA StepDecodePolled ==
    ASSUME TargetsInv, decode_polled
    PROVE  TargetsInv'
  <1>1. /\ op = "polled" /\ op' = "selected" /\ ant' = ant /\ init' = init /\ nm' = nm /\ res' = res /\ found' = found
        /\ field' = field /\ halted' = halted /\ size' = size /\ faults' = faults
        /\ chip' = chip
        /\ nt' = IF res > 0 THEN Decoded(chip, nt, Answer(chip, found), nm.nmt) ELSE nt
    BY DEF decode_polled, Setting
  <1>2. TargetTypes'
    <2>1. TargetsTypeOK'
      BY <1>1, DecodedCells DEF TargetsInv, TargetTypes, TargetsTypeOK
    <2> QED BY <1>1, <2>1, SameEntries DEF TargetsInv, TargetTypes
  <1>3. Asked' /\ Polled'
    BY <1>1 DEF TargetsInv, Asked, Polled
  <1>4. init = <<>> /\ (res > 0 => found \in field /\ found.nmt = nm.nmt) /\ (res <= 0 => found = None)
    BY <1>1 DEF TargetsInv, Polled
  <1>5. ASSUME res > 0 PROVE Shows(chip, nt', found)
    <2>1. found \in Card /\ found.nmt = nm.nmt
      BY <1>4, <1>5 DEF TargetsInv, TargetTypes
    <2> QED BY <1>1, <1>5, <2>1, CardShown
  <1>6. FoundNow'
    <2>1. ~(res > 0) => res <= 0
      BY DEF TargetsInv, TargetTypes
    <2> QED BY <1>1, <1>4, <1>5, <2>1 DEF FoundNow, Outcome
  <1> QED BY <1>1, <1>2, <1>3, <1>6, NoList DEF TargetsInv

\* What any selection leaves alone.
SelectionOf ==
    /\ Selecting /\ op' = IF op = "list" THEN "listing" ELSE IF op = "poll" THEN "polling" ELSE "selected"
    /\ chip' = chip /\ support' = support /\ field' = field /\ halted' = halted
    /\ nm' = nm /\ init' = init /\ size' = size /\ ant' = ant
    /\ faults' \in {faults, faults + 1} /\ (again => again')
    /\ res' \in Int /\ found' \in field \cup {None} /\ DOMAIN nt' = Cells

LEMMA SelectKeeps ==
    ASSUME TargetsInv, SelectionOf
    PROVE  (TargetTypes /\ Asked /\ Polled /\ ListedShown /\ Going /\ Fresh /\ Twice /\ ListDone)'
  <1>1. op' \in {"listing", "selected", "polling"} /\ (op' = "listing" => op = "list")
    BY DEF SelectionOf
  <1>2. faults' \in Nat /\ (faults > 0 => faults' > 0) /\ (faults' = 0 => faults = 0)
    BY DEF SelectionOf, TargetsInv, TargetTypes
  <1>3. TargetTypes'
    <2>1. TargetsTypeOK'
      BY <1>1 DEF TargetsInv, TargetTypes, TargetsTypeOK, SelectionOf
    <2> QED BY <1>2, <2>1, SameEntries DEF TargetsInv, TargetTypes, SelectionOf
  <1>4. Asked' /\ Polled' /\ ListDone'
    BY <1>1 DEF TargetsInv, Asked, Polled, ListDone, SelectionOf
  <1>5. ListedShown'
    BY <1>1, <1>2 DEF TargetsInv, ListedShown, ListCall, Entry, Lost, Unread, SelectionOf
  <1>6. Going'
    BY <1>1, <1>2 DEF TargetsInv, Going, ListLoop, SelectionOf
  <1>7. Fresh'
    BY <1>1 DEF TargetsInv, Fresh, ListCall, SelectionOf
  <1>8. Twice'
    BY <1>1, <1>2 DEF TargetsInv, Twice, ListCall, SelectionOf
  <1> QED BY <1>3, <1>4, <1>5, <1>6, <1>7, <1>8

LEMMA NotRefused ==
    ASSUME NEW m \in Modulation, NEW ic, NEW b
    PROVE  /\ m.nmt = "ISO14443A" => ~Refused(ic, b, pn53x_nm_to_pm(m))
           /\ m.nmt = "DEP" => Refused(ic, b, pn53x_nm_to_pm(m))
  <1>1. m.nmt = "ISO14443A" => pn53x_nm_to_pm(m) = <<"ISO14443A", 106>>
    BY DEF pn53x_nm_to_pm
  <1>2. m.nmt = "DEP" => pn53x_nm_to_pm(m) = Undefined
    BY DEF pn53x_nm_to_pm
  <1> QED BY <1>1, <1>2 DEF Refused, Undefined

LEMMA StepSelectNative ==
    ASSUME TargetsInv, select_native
    PROVE  TargetsInv'
  <1> DEFINE refused == Refused(chip, support, pn53x_nm_to_pm(nm))
  <1>1. /\ Selecting /\ op' = IF op = "list" THEN "listing" ELSE IF op = "poll" THEN "polling" ELSE "selected"
        /\ chip' = chip /\ support' = support /\ field' = field /\ halted' = halted
        /\ nm' = nm /\ init' = init /\ size' = size /\ ant' = ant /\ nm.nmt \notin RawType
    BY DEF select_native, Selected, Setting
  <1>2. \/ refused /\ res' \in {EINVARG, EDEVNOTSUPP} /\ found' = None /\ nt' = nt /\ faults' = faults /\ again' = again
        \/ /\ ~refused
           /\ \/ \E c \in Answers : /\ nt' = (IF size = 0 THEN nt ELSE Decoded(chip, nt, Answer(chip, c), nm.nmt))
                                    /\ found' = c /\ res' = 1
                                    /\ again' = (again \/ c \in halted) /\ faults' = faults
              \/ /\ (\A c \in Answers : c \in halted) /\ res' \in {0, ETIMEOUT} /\ found' = None
                 /\ nt' = nt /\ faults' = faults /\ again' = again
              \/ /\ faults' = faults + 1 /\ found' = None /\ again' = again
                 /\ \/ res' \in {EIO, ETIMEOUT, 0} /\ nt' = nt
                    \/ chip = "PN532" /\ res' = 1 /\ nt' = IF size = 0 THEN nt ELSE Rubbish
    BY DEF select_native, Selected, Fault, Silence, Failure
  <1> HIDE DEF refused
  <1>3. field \subseteq Card /\ nm \in Modulation /\ DOMAIN nt = Cells /\ faults \in Nat
    BY DEF TargetsInv, TargetTypes, TargetsTypeOK
  <1>4. SelectionOf
    <2>1. faults' \in {faults, faults + 1}
      BY <1>2
    <2>5. again => again'
      BY <1>2, Zenon
    <2>2. res' \in Int
      BY <1>2 DEF EINVARG, EDEVNOTSUPP, EIO, ETIMEOUT
    <2>3. found' \in field \cup {None}
      BY <1>2 DEF Answers
    <2>4. DOMAIN nt' = Cells
      BY <1>2, <1>3, DecodedCells DEF Rubbish
    <2> QED BY <1>1, <2>1, <2>2, <2>3, <2>4, <2>5 DEF SelectionOf
  <1>5. /\ nm.nmt = "ISO14443A" => ~refused
        /\ nm.nmt = "DEP" => refused
    BY <1>3, NotRefused DEF refused
  <1>6. op = "list" => init = <<>> /\ nt = Before /\ size # 0
    <2>1. op = "list" => init = <<>> /\ nt = Before /\ Len(ant) < size
      BY DEF TargetsInv, ListedShown, ListCall, JustFound, Going, ListLoop
    <2>2. Len(ant) \in Nat
      BY DEF TargetsInv, TargetTypes
    <2> QED BY <2>1, <2>2
  <1>7. op' \in {"listing", "selected", "polling"} /\ (op' = "listing" => op = "list")
    BY <1>1
  <1>8. CASE refused /\ res' \in {EINVARG, EDEVNOTSUPP} /\ found' = None
    <2>1. res' <= 0 /\ ~(res' > 0)
      BY <1>8 DEF EINVARG, EDEVNOTSUPP
    <2>2. FoundNow'
      BY <1>1, <1>5, <1>8, <2>1 DEF FoundNow, Outcome
    <2>3. JustFound'
      BY <1>1, <1>7, <1>8, <2>1 DEF JustFound, refused
    <2> QED BY <1>4, <2>2, <2>3, SelectKeeps DEF TargetsInv
  <1>9. CASE /\ ~refused
             /\ \E c \in Answers : /\ nt' = (IF size = 0 THEN nt ELSE Decoded(chip, nt, Answer(chip, c), nm.nmt))
                                   /\ found' = c /\ res' = 1
                                   /\ again' = (again \/ c \in halted) /\ faults' = faults
    <2>1. PICK c \in Answers : /\ nt' = (IF size = 0 THEN nt ELSE Decoded(chip, nt, Answer(chip, c), nm.nmt))
                               /\ found' = c /\ res' = 1
                               /\ again' = (again \/ c \in halted) /\ faults' = faults
      BY <1>9
    <2>2. /\ c \in field /\ c \in Card /\ c.nmt = nm.nmt
          /\ init # <<>> /\ c.nmt = "ISO14443A" => init = Cascaded(Uid(c))
      BY <1>3 DEF Answers
    <2>3. size = 0 \/ Shows(chip, nt', c)
      BY <2>1, <2>2, CardShown
    <2>4. c # None
      BY <2>2, TargetsAssumption DEF None, ModType, RawType
    <2>6. FoundNow'
      BY <1>1, <2>1, <2>2, <2>3, <2>4 DEF FoundNow, Outcome
    <2>7. c \in halted => again'
      BY <2>1
    <2>8. JustFound'
      <3>1. op' # "list" /\ ~(res' <= 0) /\ nm.nmt # "DEP"
        BY <1>5, <1>7, <1>9, <2>1
      <3>2. op' = "listing" => nt' = Decoded(chip, Before', Answer(chip, found'), nm.nmt)
        BY <1>1, <1>6, <1>7, <2>1 DEF Before
      <3> QED BY <1>1, <2>1, <2>2, <2>7, <3>1, <3>2 DEF JustFound
    <2> QED BY <1>4, <2>6, <2>8, SelectKeeps DEF TargetsInv
  <1>10. CASE ~refused /\ (\A c \in Answers : c \in halted) /\ res' \in {0, ETIMEOUT} /\ found' = None
    <2>1. ASSUME init # <<>>, nm.nmt = "ISO14443A" PROVE halted # {}
      <3>1. PICK c \in field : c.nmt = "ISO14443A" /\ init = Cascaded(Uid(c))
        BY <2>1 DEF TargetsInv, Asked
      <3>2. c \in Answers
        BY <2>1, <3>1 DEF Answers
      <3> QED BY <1>10, <3>2
    <2>2. FoundNow'
      BY <1>1, <1>10, <2>1 DEF FoundNow, Outcome, ETIMEOUT
    <2>3. ASSUME op' = "listing" PROVE \A c \in field : c.nmt = nm.nmt => c \in halted
      BY <1>6, <1>7, <1>10, <2>3 DEF Answers
    <2>4. JustFound'
      BY <1>1, <1>7, <1>10, <2>3 DEF JustFound, ETIMEOUT
    <2> QED BY <1>4, <2>2, <2>4, SelectKeeps DEF TargetsInv
  <1>11. CASE faults' = faults + 1 /\ res' \in {EIO, ETIMEOUT, 0} /\ found' = None
    <2>1. faults' > 0 /\ faults' # 0 /\ ~(res' > 0)
      BY <1>3, <1>11 DEF EIO, ETIMEOUT
    <2>2. FoundNow'
      BY <1>1, <1>11, <2>1 DEF FoundNow, Outcome
    <2>3. JustFound'
      BY <1>1, <1>7, <1>11, <2>1 DEF JustFound
    <2> QED BY <1>4, <2>2, <2>3, SelectKeeps DEF TargetsInv
  <1>12. CASE /\ ~refused /\ faults' = faults + 1 /\ found' = None /\ chip = "PN532" /\ res' = 1
              /\ nt' = IF size = 0 THEN nt ELSE Rubbish
    <2>1. faults' > 0 /\ faults' # 0 /\ res' > 0 /\ ~(res' <= 0)
      BY <1>3, <1>12
    <2>2. Unread'
      BY <1>1, <1>12, <2>1 DEF Unread
    <2>3. FoundNow'
      BY <1>1, <1>12, <2>1, <2>2 DEF FoundNow, Outcome
    <2>4. JustFound'
      <3>1. op' = "listing" => nt' = Rubbish /\ nm.nmt # "DEP"
        BY <1>5, <1>6, <1>7, <1>12
      <3> QED BY <1>1, <1>7, <1>12, <2>1, <2>2, <3>1 DEF JustFound
    <2> QED BY <1>4, <2>3, <2>4, SelectKeeps DEF TargetsInv
  <1> QED BY <1>2, <1>8, <1>9, <1>10, <1>11, <1>12

LEMMA StepSelectRaw ==
    ASSUME TargetsInv, select_raw
    PROVE  TargetsInv'
  <1>1. /\ Selecting /\ op' = IF op = "list" THEN "listing" ELSE IF op = "poll" THEN "polling" ELSE "selected"
        /\ chip' = chip /\ support' = support /\ field' = field /\ halted' = halted /\ again' = again
        /\ nm' = nm /\ init' = init /\ size' = size /\ ant' = ant /\ nm.nmt \in RawType
    BY DEF select_raw, Selected, Setting
  <1> DEFINE mem(c) == IF size = 0 THEN nt ELSE Decoded(chip, nt, Answer(chip, c), nm.nmt)
  <1>2. \/ res' \in {ENOTIMPL, EIO, ETIMEOUT} /\ found' = None /\ nt' = nt /\ faults' \in {faults, faults + 1}
        \/ \E c \in Answers :
              /\ found' = c
              /\ \/ c \in Odd /\ res' = 0 /\ nt' = nt /\ faults' = faults
                 \/ DecodeFails(Answer(chip, c), nm.nmt) /\ res' = ECHIP /\ nt' = nt /\ faults' = faults
                 \/ nt' = mem(c) /\ res' = Answer(chip, c)[1] /\ faults' = faults
                 \/ nm.nmt = "ISO14443B2CT" /\ faults' = faults + 1 /\ res' = 1 /\ nt' = nt
                 \/ faults' = faults + 1 /\ nt' = mem(c) /\ res' = EIO
    BY DEF select_raw, Selected, Fault, Failure
  <1> HIDE DEF mem
  <1>3. field \subseteq Card /\ nm \in Modulation /\ DOMAIN nt = Cells /\ faults \in Nat
    BY DEF TargetsInv, TargetTypes, TargetsTypeOK
  <1>4. op' \in {"listing", "selected", "polling"} /\ (op' = "listing" => op = "list")
    BY <1>1
  <1>5. nm.nmt # "ISO14443A" /\ nm.nmt \notin Deselectable /\ nm.nmt # "DEP"
    BY <1>1 DEF RawType, Deselectable
  <1>6. CASE res' \in {ENOTIMPL, EIO, ETIMEOUT} /\ found' = None /\ nt' = nt /\ faults' \in {faults, faults + 1}
    <2>1. res' \in Int /\ ~(res' > 0)
      BY <1>6 DEF ENOTIMPL, EIO, ETIMEOUT
    <2>2. SelectionOf
      BY <1>1, <1>3, <1>6, <2>1 DEF SelectionOf
    <2>3. FoundNow'
      BY <1>1, <1>5, <1>6, <2>1 DEF FoundNow, Outcome
    <2>4. JustFound'
      BY <1>1, <1>4, <1>5, <2>1 DEF JustFound
    <2> QED BY <2>2, <2>3, <2>4, SelectKeeps DEF TargetsInv
  <1>7. ASSUME NEW c \in Answers, found' = c,
               \/ c \in Odd /\ res' = 0 /\ nt' = nt /\ faults' = faults
               \/ DecodeFails(Answer(chip, c), nm.nmt) /\ res' = ECHIP /\ nt' = nt /\ faults' = faults
               \/ nt' = mem(c) /\ res' = Answer(chip, c)[1] /\ faults' = faults
               \/ nm.nmt = "ISO14443B2CT" /\ faults' = faults + 1 /\ res' = 1 /\ nt' = nt
               \/ faults' = faults + 1 /\ nt' = mem(c) /\ res' = EIO
        PROVE  TargetsInv'
    <2>1. c \in field /\ c \in Card /\ c.nmt = nm.nmt /\ c.nmt \in RawType
      BY <1>1, <1>3 DEF Answers
    <2>2. Answer(chip, c)[1] = c.seed /\ (DecodeFails(Answer(chip, c), nm.nmt) => c \in Odd) /\ c.seed \in Nat
      BY <2>1, RawAnswer, TargetsAssumption
    <2>3. size = 0 \/ Shows(chip, mem(c), c)
      BY <2>1, CardShown DEF mem
    <2>4. res' \in Int /\ faults' \in {faults, faults + 1} /\ (faults' = faults + 1 => faults' > 0)
      BY <1>3, <1>7, <2>2 DEF ECHIP, EIO
    <2>5. DOMAIN nt' = Cells
      BY <1>3, <1>7, DecodedCells DEF mem
    <2>6. SelectionOf
      BY <1>1, <1>7, <2>1, <2>4, <2>5 DEF SelectionOf
    <2>7. res' > 0 => size = 0 \/ Shows(chip, nt', c) \/ (nm.nmt = "ISO14443B2CT" /\ faults' > 0)
      <3>1. ECHIP < 0 /\ EIO < 0
        BY DEF ECHIP, EIO
      <3> QED BY <1>7, <2>3, <2>4, <3>1
    <2>8. res' <= 0 => c.seed = 0 \/ c \in Odd \/ faults' > 0
      BY <1>7, <2>2, <2>4
    <2>9. FoundNow'
      BY <1>1, <1>5, <1>7, <2>1, <2>7, <2>8 DEF FoundNow, Outcome, Lost
    <2>10. JustFound'
      BY <1>1, <1>4, <1>5, <1>7, <2>1 DEF JustFound
    <2> QED BY <2>6, <2>9, <2>10, SelectKeeps DEF TargetsInv
  <1> QED BY <1>2, <1>6, <1>7

\* The array with one more target in it
LEMMA GrowList ==
    ASSUME NEW e, ant \in Seq(ListEntries), ant' = Append(ant, e)
    PROVE  /\ ant' \in Seq(ListEntries') /\ Len(ant) \in Nat /\ Len(ant') = Len(ant) + 1
           /\ DOMAIN ant = 1..Len(ant) /\ DOMAIN ant' = 1 .. Len(ant) + 1
           /\ \A i \in 1..Len(ant) : ant'[i] = ant[i]
           /\ ant'[Len(ant) + 1] = e
  <1> DEFINE S == ListEntries \cup {e}
  <1>1. ant \in Seq(S) /\ e \in S
    <2>1. \A i \in 1..Len(ant) : ant[i] \in S
      BY ElementOfSeq
    <2> QED BY <2>1
  <1> HIDE DEF S
  <1>2. Append(ant, e) \in Seq(S) /\ Len(Append(ant, e)) = Len(ant) + 1 /\ Len(ant) \in Nat
    BY <1>1
  <1>3. \A i \in 1..Len(ant) : Append(ant, e)[i] = ant[i]
    BY <1>1
  <1>4. Append(ant, e)[Len(ant) + 1] = e
    BY <1>1
  <1>5. DOMAIN ant = 1..Len(ant) /\ DOMAIN Append(ant, e) = 1 .. Len(ant) + 1
    BY <1>1, <1>2
  <1>6. ant' \in Seq(ListEntries')
    <2> DEFINE t == ant'
               R == {t[i] : i \in DOMAIN t}
    <2>1. t \in Seq(S)
      BY <1>2
    <2> HIDE DEF t
    <2>2. t \in Seq(R)
      <3>1. \A i \in 1..Len(t) : t[i] \in R
        BY <2>1
      <3> QED BY <2>1, <3>1
    <2> QED BY <2>2 DEF t, ListEntries
  <1> QED BY <1>2, <1>3, <1>4, <1>5, <1>6

\* The loop ends: nothing was found, or what was found is in the array already.
LEMMA StepListEnds ==
    ASSUME TargetsInv, list_step, res <= 0 \/ Seen
    PROVE  TargetsInv'
  <1>1. /\ op = "listing" /\ op' = "listed" /\ ant' = ant /\ halted' = halted /\ faults' = faults
        /\ chip' = chip /\ support' = support /\ field' = field /\ nm' = nm /\ init' = init /\ size' = size
        /\ nt' = nt /\ res' = res /\ found' = found /\ again' = again
    BY DEF list_step, Setting
  <1>2. field \subseteq Card /\ res \in Int /\ faults \in Nat /\ size \in Nat /\ ant \in Seq(ListEntries)
    BY DEF TargetsInv, TargetTypes
  <1>3. TargetTypes'
    <2>1. TargetsTypeOK'
      BY <1>1 DEF TargetsInv, TargetTypes, TargetsTypeOK
    <2> QED BY <1>1, <2>1, SameEntries DEF TargetsInv, TargetTypes
  <1>4. Asked' /\ Polled' /\ FoundNow' /\ Going' /\ JustFound'
    BY <1>1 DEF TargetsInv, Asked, Polled, FoundNow, Going, ListLoop, JustFound
  <1>5. ListedShown' /\ Fresh'
    BY <1>1 DEF TargetsInv, ListedShown, Entry, Fresh, ListCall, Lost, Unread
  <1>6. Twice'
    BY <1>1 DEF TargetsInv, Twice, ListCall
  <1>7. Len(ant) < size /\ (faults = 0 => \A i \in DOMAIN ant : ant[i].card \in halted)
    BY <1>1 DEF TargetsInv, Going, ListLoop
  <1>8. Len(ant) <= size
    BY <1>2, <1>7
  <1>9. ASSUME nm.nmt \in Deselectable, ~Refused(chip, support, pn53x_nm_to_pm(nm)), ~again, faults = 0
        PROVE  \A c \in field : c.nmt = nm.nmt => c \in halted
    <2>1. CASE res <= 0
      BY <1>1, <1>9, <2>1 DEF TargetsInv, JustFound
    <2>2. CASE ~(res <= 0)
      <3>1. res > 0
        BY <1>2, <2>2
      <3>2. PICK i \in 1..Len(ant) : ant[i].mem = nt
        BY <2>2 DEF Seen
      <3>3. i \in DOMAIN ant
        BY <1>2
      <3>7. ~Lost /\ ~Unread
        BY <1>9 DEF Lost, Unread, Deselectable
      <3>4. /\ ant[i].card \in field /\ ant[i].card.nmt = nm.nmt
            /\ Shows(chip, ant[i].mem, ant[i].card) \/ Lost
        BY <1>1, <3>3, <3>7 DEF TargetsInv, ListedShown, Entry, ListCall
      <3>5. found \in field /\ found.nmt = nm.nmt /\ (found \in halted => again)
        BY <1>1, <1>9, <3>1, <3>7 DEF TargetsInv, JustFound
      <3>9. size # 0
        <4>1. Len(ant) \in Nat
          BY <1>2
        <4> QED BY <1>2, <1>7, <4>1
      <3>6. Shows(chip, nt, found) \/ Lost
        BY <1>1, <3>1, <3>7, <3>9 DEF TargetsInv, FoundNow, Outcome
      <3>8. found = ant[i].card
        BY <1>2, <3>2, <3>4, <3>5, <3>6, <3>7, ShownOnce
      <3> QED BY <1>7, <1>9, <3>3, <3>5, <3>8
    <2> QED BY <2>1, <2>2
  <1>10. ListDone'
    BY <1>1, <1>8, <1>9 DEF ListDone
  <1> QED BY <1>3, <1>4, <1>5, <1>6, <1>10 DEF TargetsInv

\* A target is put into the array.
Stored ==
    /\ op = "listing" /\ res > 0 /\ ~Seen /\ ant' = Append(ant, [mem |-> nt, card |-> found])
    /\ chip' = chip /\ support' = support /\ field' = field /\ nm' = nm /\ init' = init /\ size' = size
    /\ nt' = nt /\ res' = res /\ found' = found /\ again' = again
    /\ faults' \in {faults, faults + 1}

LEMMA StoredFacts ==
    ASSUME TargetsInv, Stored
    PROVE  /\ \/ found \in field /\ found \in Card /\ found.nmt = nm.nmt /\ (Shows(chip, nt, found) \/ Lost)
              \/ found = None /\ Unread /\ nt = Rubbish
           /\ nm.nmt # "DEP" /\ init = <<>>
           /\ faults \in Nat /\ faults' \in Nat /\ size \in Nat /\ Len(ant) < size
           /\ (faults > 0 => faults' > 0) /\ (Lost => Lost') /\ (Unread => Unread')
  <1>1. faults \in Nat /\ field \subseteq Card /\ size \in Nat
    BY DEF TargetsInv, TargetTypes
  <1>2. faults' \in Nat /\ (faults > 0 => faults' > 0)
    BY <1>1 DEF Stored
  <1>3. (Lost => Lost') /\ (Unread => Unread')
    BY <1>2 DEF Lost, Unread, Stored
  <1>4. nm.nmt # "DEP" /\ ((found \in field /\ found.nmt = nm.nmt) \/ (found = None /\ Unread /\ nt = Rubbish))
    BY DEF TargetsInv, JustFound, Stored
  <1>6. init = <<>> /\ Len(ant) < size
    BY DEF TargetsInv, ListedShown, ListCall, Going, ListLoop, Stored
  <1>7. size # 0
    <2>1. Len(ant) \in Nat
      BY DEF TargetsInv, TargetTypes
    <2> QED BY <1>1, <1>6, <2>1
  <1>8. None \notin Card
    BY TargetsAssumption DEF None, ModType, RawType
  <1>5. found \in field => Shows(chip, nt, found) \/ Lost
    BY <1>1, <1>7, <1>8 DEF TargetsInv, FoundNow, Outcome, Stored
  <1> QED BY <1>1, <1>2, <1>3, <1>4, <1>5, <1>6

\* What an aborted command left has no card's layout.
LEMMA NoneAlone ==
    ASSUME NEW c \in Card
    PROVE  c # None /\ ~Alike(c, None) /\ ~Alike(None, c)
  <1>1. c.n \in UidSizes(c.nmt) /\ 0 \notin UidSizes(c.nmt)
    BY TargetsAssumption DEF UidSizes
  <1> QED BY <1>1 DEF Alike, None

\* Stored after cards of its own layout, a card is stored as into clean memory.
LEMMA FreshStored ==
    ASSUME TargetsInv, Stored, nm.nmt \in Deselectable, found # None, \A i \in DOMAIN ant : Alike(ant[i].card, found)
    PROVE  nt = Decoded(chip, Clean, Answer(chip, found), nm.nmt)
  <1>1. nt = Decoded(chip, Before, Answer(chip, found), nm.nmt)
    BY DEF TargetsInv, JustFound, Stored
  <1>2. CASE ant = <<>>
    BY <1>1, <1>2 DEF Before
  <1>3. CASE ant # <<>>
    <2> DEFINE n == Len(ant)
               d == ant[n].card
    <2>1. ant \in Seq(ListEntries) /\ field \subseteq Card
      BY DEF TargetsInv, TargetTypes
    <2>2. n \in Nat /\ n # 0 /\ DOMAIN ant = 1..n
      BY <1>3, <2>1
    <2> HIDE DEF n
    <2>3. n \in DOMAIN ant
      BY <2>2
    <2>10. found \in Card
      BY StoredFacts
    <2>11. d # None
      BY <2>3, <2>10, NoneAlone
    <2>4. d \in field /\ d.nmt = nm.nmt
      BY <2>3, <2>11 DEF TargetsInv, ListedShown, Entry, ListCall, Stored
    <2>5. Alike(d, found) /\ \A i \in 1..n : Alike(ant[i].card, d)
      BY <2>2, <2>3 DEF Alike
    <2>6. ant[n].mem = Decoded(chip, Clean, Answer(chip, d), nm.nmt)
      BY <2>3, <2>5, <2>11 DEF TargetsInv, Fresh, ListCall, Stored
    <2>7. Before = ant[n].mem
      BY <1>3 DEF Before, n
    <2>8. found \in Card /\ found.nmt = nm.nmt /\ d \in Card
      BY <2>1, <2>4, StoredFacts
    <2>9. Alike(found, d)
      BY <2>5 DEF Alike
    <2> HIDE DEF d
    <2> QED BY <1>1, <2>4, <2>6, <2>7, <2>8, <2>9, DecodedOver DEF Deselectable
  <1> QED BY <1>2, <1>3

LEMMA StoredKeeps ==
    ASSUME TargetsInv, Stored, op' \in {"list", "listed"}
    PROVE  (ListedShown /\ Fresh /\ Twice)' /\ ant' \in Seq(ListEntries') /\ Len(ant') = Len(ant) + 1
           /\ Len(ant) \in Nat /\ ant'[Len(ant) + 1] = [mem |-> nt, card |-> found]
           /\ DOMAIN ant' = 1 .. Len(ant) + 1 /\ DOMAIN ant = 1..Len(ant) /\ (\A i \in 1..Len(ant) : ant'[i] = ant[i])
  <1> DEFINE n == Len(ant)
             e == [mem |-> nt, card |-> found]
  <1>1. ant \in Seq(ListEntries) /\ ant' = Append(ant, e)
    BY DEF TargetsInv, TargetTypes, Stored
  <1>2. /\ ant' \in Seq(ListEntries') /\ n \in Nat /\ Len(ant') = n + 1
        /\ DOMAIN ant = 1..n /\ DOMAIN ant' = 1 .. n + 1
        /\ \A i \in 1..n : ant'[i] = ant[i]
        /\ ant'[n + 1] = e
    BY <1>1, GrowList
  <1>3. e.mem = nt /\ e.card = found
    OBVIOUS
  <1>4. /\ op = "listing" /\ ~Seen /\ nm' = nm /\ field' = field /\ init' = init /\ chip' = chip
        /\ nt' = nt /\ found' = found /\ again' = again
    BY DEF Stored
  <1> HIDE DEF n, e
  <1>5. \A j \in 1 .. n + 1 : j \in 1..n \/ j = n + 1
    BY <1>2
  <1>6. ListedShown'
    <2>1. \A i \in 1..n : Entry(ant[i].mem, ant[i].card)
      BY <1>2, <1>4 DEF TargetsInv, ListedShown, ListCall
    <2>2. Entry(nt, found)
      BY StoredFacts DEF Entry
    <2>3. \A mem, c : Entry(mem, c) => Entry(mem, c)'
      BY <1>4, StoredFacts DEF Entry
    <2>4. \A i \in 1 .. n + 1 : Entry(ant'[i].mem, ant'[i].card)
      BY <1>2, <1>3, <1>5, <2>1, <2>2
    <2> QED BY <1>2, <1>4, <2>3, <2>4, StoredFacts DEF ListedShown, Entry
  <1>7. \A j \in 1..n : nm.nmt \in Deselectable /\ ant[j].card # None /\ (\A i \in 1..j : Alike(ant[i].card, ant[j].card)) =>
                          ant[j].mem = Decoded(chip, Clean, Answer(chip, ant[j].card), nm.nmt)
    BY <1>2, <1>4 DEF TargetsInv, Fresh, ListCall
  <1>8. Fresh'
    <2> SUFFICES ASSUME nm.nmt \in Deselectable, NEW j \in 1 .. n + 1, ant'[j].card # None,
                        \A i \in 1..j : Alike(ant'[i].card, ant'[j].card)
                 PROVE  ant'[j].mem = Decoded(chip, Clean, Answer(chip, ant'[j].card), nm.nmt)
      BY <1>2, <1>4 DEF Fresh
    <2>1. CASE j \in 1..n
      <3>1. \A i \in 1..j : ant'[i] = ant[i]
        BY <1>2, <2>1
      <3>2. ant'[j] = ant[j]
        BY <1>2, <2>1
      <3> QED BY <1>7, <2>1, <3>1, <3>2
    <2>2. CASE j = n + 1
      <3>1. \A i \in 1..n : i \in 1..j /\ ant'[i] = ant[i]
        BY <1>2, <2>2
      <3>2. ant'[j].card = found /\ ant'[j].mem = nt
        BY <1>2, <1>3, <2>2
      <3>3. \A i \in DOMAIN ant : Alike(ant[i].card, found)
        BY <1>2, <3>1, <3>2
      <3> QED BY <3>2, <3>3, FreshStored
    <2> QED BY <1>5, <2>1, <2>2
  <1>9. Twice'
    <2> SUFFICES ASSUME NEW i \in 1 .. n + 1, NEW j \in 1 .. n + 1, i < j, ant'[i].card = ant'[j].card
                 PROVE  (again' \/ faults' > 0) /\ ant'[i].card # None /\ \E k \in 1 .. n + 1 : ~Alike(ant'[k].card, ant'[i].card)
      BY <1>2 DEF Twice
    <2>1. i \in 1..n /\ ant'[i] = ant[i]
      BY <1>2
    <2>2. CASE j \in 1..n
      <3>1. ant'[j] = ant[j] /\ i \in DOMAIN ant /\ j \in DOMAIN ant
        BY <1>2, <2>1, <2>2
      <3>2. (again \/ faults > 0) /\ ant[i].card # None /\ \E k \in DOMAIN ant : ~Alike(ant[k].card, ant[i].card)
        BY <1>4, <2>1, <3>1 DEF TargetsInv, Twice, ListCall
      <3>3. PICK k \in DOMAIN ant : ~Alike(ant[k].card, ant[i].card)
        BY <3>2
      <3>4. k \in 1 .. n + 1 /\ ant'[k] = ant[k]
        BY <1>2
      <3>5. again' \/ faults' > 0
        BY <1>4, <3>2, StoredFacts
      <3> QED BY <2>1, <3>2, <3>3, <3>4, <3>5
    <2>3. CASE j = n + 1
      <3>1. ant[i].card = found /\ i \in DOMAIN ant
        BY <1>2, <1>3, <2>1, <2>3
      <3>6. found # None
        <4> SUFFICES ASSUME found = None PROVE FALSE
          OBVIOUS
        <4>1. found \notin Card
          BY NoneAlone
        <4>2. nt = Rubbish
          BY <4>1, StoredFacts
        <4>3. ant[i].card \notin field
          BY <3>1, <4>1 DEF TargetsInv, TargetTypes
        <4>4. ant[i].mem = Rubbish
          BY <1>4, <3>1, <4>3 DEF TargetsInv, ListedShown, Entry, ListCall
        <4> QED BY <1>4, <2>1, <4>2, <4>4 DEF Seen, n
      <3>2. \E k \in 1..n : ~Alike(ant[k].card, found)
        <4> SUFFICES ASSUME \A k \in 1..n : Alike(ant[k].card, found)
                     PROVE  FALSE
          OBVIOUS
        <4>1. nm.nmt \in Deselectable
          BY <1>4, <3>1 DEF TargetsInv, Going, ListLoop
        <4>2. nt = Decoded(chip, Clean, Answer(chip, found), nm.nmt)
          BY <1>2, <3>6, <4>1, FreshStored
        <4>3. \A k \in 1..i : Alike(ant[k].card, ant[i].card)
          BY <1>2, <2>1, <3>1
        <4>4. ant[i].mem = nt
          BY <1>7, <2>1, <3>1, <3>6, <4>1, <4>2, <4>3
        <4> QED BY <1>4, <2>1, <4>4 DEF Seen, n
      <3>3. ASSUME faults = 0 PROVE again
        <4>1. nm.nmt \in Deselectable
          BY <1>4, <3>1 DEF TargetsInv, Going, ListLoop
        <4>2. found \in halted
          BY <1>4, <3>1, <3>3 DEF TargetsInv, Going, ListLoop
        <4> QED BY <3>6, <4>1, <4>2 DEF TargetsInv, JustFound, Stored
      <3>4. again' \/ faults' > 0
        <4>1. faults = 0 \/ faults > 0
          BY StoredFacts
        <4> QED BY <1>4, <3>3, <4>1, StoredFacts
      <3>5. \E k \in 1 .. n + 1 : ~Alike(ant'[k].card, ant'[i].card)
        <4>1. PICK k \in 1..n : ~Alike(ant[k].card, found)
          BY <3>2
        <4>2. k \in 1 .. n + 1 /\ ant'[k] = ant[k]
          BY <1>2
        <4> QED BY <2>1, <3>1, <4>1, <4>2
      <3> QED BY <2>1, <3>1, <3>4, <3>5, <3>6
    <2> QED BY <1>5, <2>2, <2>3
  <1> QED BY <1>2, <1>6, <1>8, <1>9 DEF n, e

LEMMA StepListStores ==
    ASSUME TargetsInv, list_step, ~(res <= 0 \/ Seen)
    PROVE  TargetsInv'
  <1> DEFINE n == Len(ant)
             stays == nm.nmt \notin RawType \cup {"FELICA", "JEWEL"}
  <1>1. res \in Int
    BY DEF TargetsInv, TargetTypes
  <1>2. /\ op = "listing" /\ ~Seen /\ ant' = Append(ant, [mem |-> nt, card |-> found])
        /\ chip' = chip /\ support' = support /\ field' = field /\ nm' = nm /\ init' = init /\ size' = size
        /\ nt' = nt /\ res' = res /\ found' = found /\ again' = again
    BY DEF list_step, Setting
  <1>3. \/ size = Len(ant') /\ op' = "listed" /\ halted' = halted /\ faults' = faults
        \/ /\ size # Len(ant') /\ op' = IF stays THEN "list" ELSE "listed"
           /\ \/ halted' = (IF op' = "list" THEN halted \cup ({found} \cap field) ELSE halted) /\ faults' = faults
              \/ faults' = faults + 1 /\ halted' = halted
    BY DEF list_step, Fault
  <1>4. Stored /\ op' \in {"list", "listed"}
    <2>1. res > 0 /\ faults' \in {faults, faults + 1} /\ op' \in {"list", "listed"}
      BY <1>1, <1>3
    <2> QED BY <1>2, <2>1 DEF Stored
  <1>5. /\ ListedShown' /\ Fresh' /\ Twice' /\ ant' \in Seq(ListEntries') /\ Len(ant') = n + 1
        /\ n \in Nat /\ ant'[n + 1] = [mem |-> nt, card |-> found]
        /\ DOMAIN ant' = 1 .. n + 1 /\ DOMAIN ant = 1..n /\ \A i \in 1..n : ant'[i] = ant[i]
    BY <1>4, StoredKeeps
  <1>6. /\ nm.nmt # "DEP" /\ (faults = 0 => found \in field)
        /\ faults \in Nat /\ faults' \in Nat /\ size \in Nat /\ n < size
    BY <1>4, StoredFacts DEF Unread
  <1> HIDE DEF n, stays
  <1>7. TargetTypes'
    <2>1. halted' \subseteq field'
      <3>1. halted \subseteq field
        BY DEF TargetsInv, TargetTypes, TargetsTypeOK
      <3> QED BY <1>2, <1>3, <1>6, <3>1
    <2>2. TargetsTypeOK'
      BY <1>2, <1>4, <2>1 DEF TargetsInv, TargetTypes, TargetsTypeOK
    <2>3. field' \subseteq Card /\ size' \in Nat /\ res' \in Int
      BY <1>2 DEF TargetsInv, TargetTypes
    <2> QED BY <1>5, <1>6, <2>2, <2>3 DEF TargetTypes
  <1>8. Asked' /\ Polled' /\ FoundNow'
    BY <1>2, <1>4 DEF TargetsInv, Asked, Polled, FoundNow
  <1>9. Going'
    <2> SUFFICES ASSUME op' = "list"
                 PROVE  /\ Len(ant') < size' /\ nm'.nmt \in Deselectable
                        /\ faults' = 0 => \A i \in DOMAIN ant' : ant'[i].card \in halted'
      BY <1>4 DEF Going, ListLoop
    <2>1. size # Len(ant') /\ stays
      BY <1>3
    <2>2. n + 1 < size
      BY <1>5, <1>6, <2>1
    <2>3. nm.nmt \in ModType
      BY DEF TargetsInv, TargetTypes, TargetsTypeOK, Modulation
    <2>4. nm.nmt \in Deselectable
      BY <1>6, <2>1, <2>3 DEF stays, Deselectable, ModType
    <2>5. ASSUME faults' = 0, NEW i \in 1 .. n + 1 PROVE ant'[i].card \in halted'
      <3>1. halted' = halted \cup ({found} \cap field) /\ faults = 0
        BY <1>3, <1>6, <2>1, <2>5
      <3>2. \A k \in 1..n : ant[k].card \in halted
        BY <1>2, <1>5, <3>1 DEF TargetsInv, Going, ListLoop
      <3>3. i \in 1..n \/ i = n + 1
        BY <1>5
      <3>4. CASE i \in 1..n
        BY <1>5, <3>1, <3>2, <3>4
      <3>5. CASE i = n + 1
        BY <1>5, <1>6, <3>1, <3>5
      <3> QED BY <3>3, <3>4, <3>5
    <2> QED BY <1>2, <1>5, <2>2, <2>4, <2>5
  <1>10. JustFound'
    <2>1. ant' # <<>> /\ ant'[Len(ant')].mem = nt
      <3>1. Len(ant') # 0
        BY <1>5
      <3>2. ant' # <<>>
        BY <3>1
      <3>3. ant'[Len(ant')] = [mem |-> nt, card |-> found]
        BY <1>5
      <3> QED BY <3>2, <3>3
    <2> QED BY <1>2, <1>4, <2>1 DEF JustFound, Before
  <1>11. ListDone'
    <2>1. Len(ant') <= size
      BY <1>5, <1>6
    <2>2. ASSUME op' = "listed", nm.nmt \in Deselectable PROVE ~(Len(ant') < size)
      <3>1. stays
        BY <2>2 DEF stays, RawType, Deselectable
      <3>2. size = Len(ant')
        BY <1>3, <2>2, <3>1
      <3> QED BY <1>6, <3>2
    <2> QED BY <1>2, <2>1, <2>2 DEF ListDone
  <1> QED BY <1>5, <1>7, <1>8, <1>9, <1>10, <1>11 DEF TargetsInv

-----------------------------------------------------------------------------
(* Theorems                                                                *)

\* The inductive invariant of selecting and listing targets.
THEOREM TargetsInductive == TargetsSpec => []TargetsInv
  <1>1. TargetsInit => TargetsInv
    <2> SUFFICES ASSUME TargetsInit PROVE TargetsInv
      OBVIOUS
    <2>1. /\ field \subseteq Card /\ halted = {} /\ op = "idle" /\ nm = [nmt |-> "DEP", nbr |-> 0] /\ init = <<>>
          /\ size = 0 /\ ant = <<>> /\ nt = Clean /\ res = 0 /\ found = None /\ faults = 0
      BY DEF TargetsInit
    <2>2. TargetTypes
      <3>1. TargetsTypeOK
        BY <2>1, CleanCells DEF TargetsTypeOK, Modulation, ModType, Rate
      <3>2. ant \in Seq(ListEntries)
        BY <2>1, EmptySeq
      <3> QED BY <2>1, <3>1, <3>2 DEF TargetTypes
    <2>3. Asked /\ Polled /\ FoundNow
      BY <2>1 DEF Asked, Polled, FoundNow
    <2>4. ListedShown /\ Going /\ JustFound /\ Fresh /\ Twice /\ ListDone
      BY <2>1 DEF ListedShown, Going, JustFound, Fresh, Twice, ListDone, ListCall, ListLoop
    <2> QED BY <2>2, <2>3, <2>4 DEF TargetsInv
  <1>2. ASSUME TargetsInv, TargetsNext PROVE TargetsInv'
    <2> USE <1>2
    <2>1. ASSUME NEW m \in {x \in Modulation : \A c \in field : c.nmt = x.nmt},
                 \/ \E n \in Sizes : list_passive_targets(m, n)
                 \/ \E u \in {<<>>} \cup {Uid(c) : c \in {x \in field : x.nmt = "ISO14443A"}}, n \in {0, 1} :
                      select_passive_target(m, u, n)
                 \/ auto_poll(m) \/ poll(m)
          PROVE  TargetsInv'
      BY <2>1, StepListCall, StepSelectCall, StepAutoPoll, StepPollCall
    <2>2. CASE list_step
      BY <2>2, StepListEnds, StepListStores
    <2> QED BY <2>1, <2>2, StepSelectNative, StepSelectRaw, StepDecodePolled, StepPollRound,
               StepInitCall, StepInitFails, StepTargetReturn DEF TargetsNext
  <1>3. ASSUME TargetsInv, UNCHANGED target_vars PROVE TargetsInv'
    <2>1. TargetTypes'
      <3>1. TargetsTypeOK'
        BY <1>3 DEF TargetsInv, TargetTypes, TargetsTypeOK, target_vars
      <3> QED BY <1>3, <3>1, SameEntries DEF TargetsInv, TargetTypes, target_vars
    <2>2. (Asked /\ Polled)'
      BY <1>3 DEF TargetsInv, Asked, Polled, target_vars
    <2>3. FoundNow'
      BY <1>3 DEF TargetsInv, FoundNow, Outcome, Lost, Unread, target_vars
    <2>4. (ListedShown /\ Going)'
      BY <1>3 DEF TargetsInv, ListedShown, Entry, Going, ListCall, ListLoop, Lost, Unread, target_vars
    <2>5. JustFound'
      BY <1>3 DEF TargetsInv, JustFound, Before, Unread, target_vars
    <2>6. (Fresh /\ Twice /\ ListDone)'
      BY <1>3 DEF TargetsInv, Fresh, Twice, ListDone, ListCall, target_vars
    <2> QED BY <2>1, <2>2, <2>3, <2>4, <2>5, <2>6 DEF TargetsInv
  <1> QED BY <1>1, <1>2, <1>3, PTL DEF TargetsSpec

\* For any cards, UIDs and answers: a selection that succeeds has filled the nfc_target
\* with what the card it selected said, and selected the card it was asked for.
THEOREM FoundIsDecodedHolds == TargetsSpec => []FoundIsDecoded
  <1>1. TargetsInv => FoundIsDecoded
    BY DEF TargetsInv, FoundNow, Outcome, FoundIsDecoded
  <1> QED BY <1>1, TargetsInductive, PTL

\* For any number of cards and any array: nfc_initiator_list_passive_targets lists cards
\* that are there as they are, none twice but over another layout, and misses none that
\* answers.
THEOREM TargetsListRightHolds == TargetsSpec => []ListRight
  <1>1. TargetsInv => ListRight
    <2> SUFFICES ASSUME TargetsInv, op = "listed"
                 PROVE  LET listed == {ant[i].card : i \in DOMAIN ant} IN
                        /\ Len(ant) <= size /\ listed \subseteq field \cup {None}
                        /\ \A i \in DOMAIN ant : \/ ant[i].card \in field /\ (Shows(chip, ant[i].mem, ant[i].card) \/ Lost)
                                                 \/ ant[i].card = None /\ Unread
                        /\ \A i, j \in DOMAIN ant : i < j /\ ant[i].card = ant[j].card =>
                               (again \/ faults > 0) /\ ant[i].card # None /\ \E c \in listed : ~Alike(c, ant[i].card)
                        /\ /\ nm.nmt \in {"ISO14443A", "ISO14443B"} /\ ~Refused(chip, support, pn53x_nm_to_pm(nm))
                           /\ Len(ant) < size /\ ~again /\ faults = 0
                           => \A c \in field : c.nmt = nm.nmt => c \in listed \cup halted
      BY DEF ListRight, TargetsInv, TargetTypes
    <2> DEFINE listed == {ant[i].card : i \in DOMAIN ant}
    <2>1. Len(ant) <= size
      BY DEF TargetsInv, ListDone
    <2>2. \A i \in DOMAIN ant : \/ ant[i].card \in field /\ (Shows(chip, ant[i].mem, ant[i].card) \/ Lost)
                                \/ ant[i].card = None /\ Unread
      BY DEF TargetsInv, ListedShown, Entry, ListCall
    <2>3. ASSUME NEW i \in DOMAIN ant, NEW j \in DOMAIN ant, i < j, ant[i].card = ant[j].card
          PROVE  (again \/ faults > 0) /\ ant[i].card # None /\ \E c \in listed : ~Alike(c, ant[i].card)
      <3>1. (again \/ faults > 0) /\ ant[i].card # None /\ \E k \in DOMAIN ant : ~Alike(ant[k].card, ant[i].card)
        BY <2>3 DEF TargetsInv, Twice, ListCall
      <3> QED BY <3>1
    <2>4. ASSUME nm.nmt \in {"ISO14443A", "ISO14443B"}, ~Refused(chip, support, pn53x_nm_to_pm(nm)),
                 Len(ant) < size, ~again, faults = 0
          PROVE  \A c \in field : c.nmt = nm.nmt => c \in halted
      BY <2>4 DEF TargetsInv, ListDone, Deselectable
    <2> QED BY <2>1, <2>2, <2>3, <2>4
  <1> QED BY <1>1, TargetsInductive, PTL

\* What the chip is said to support it is asked for, whatever the chip.
THEOREM OfferedWorksHolds == TargetsSpec => []OfferedWorks
  <1>1. OfferedWorks
    <2> SUFFICES ASSUME NEW t \in supported_as_initiator(chip, support) \ {"DEP"},
                        NEW r \in pn53x_get_supported_baud_rate(chip, t)
                 PROVE  LET m == [nmt |-> t, nbr |-> r] IN
                          /\ ~Refused(chip, support, pn53x_nm_to_pm(m))
                          /\ pn53x_nm_to_ptt(m) # Undefined => pn53x_ptt_to_nm(pn53x_nm_to_ptt(m)) = m
                          /\ chip = "PN532" => pn53x_nm_to_ptt(m) # Undefined
      BY DEF OfferedWorks
    <2> DEFINE m == [nmt |-> t, nbr |-> r]
    <2>1. m.nmt = t /\ m.nbr = r
      OBVIOUS
    <2>2. t = "ISO14443A" \/ t = "FELICA" \/ (t = "ISO14443B" /\ support) \/ (t = "JEWEL" /\ chip # "PN531")
      BY DEF supported_as_initiator
    <2>3. CASE t = "ISO14443A"
      <3>1. r = 106
        BY <2>3 DEF pn53x_get_supported_baud_rate, RawType
      <3>2. pn53x_nm_to_pm(m) = <<"ISO14443A", 106>>
        BY <2>1, <2>3 DEF pn53x_nm_to_pm
      <3>3. pn53x_nm_to_ptt(m) = <<"MIFARE", 106>>
        BY <2>1, <2>3 DEF pn53x_nm_to_ptt
      <3> QED BY <2>3, <3>1, <3>2, <3>3 DEF Refused, Undefined, pn53x_ptt_to_nm
    <2>4. CASE t = "FELICA"
      <3>1. r \in {212, 424}
        BY <2>4 DEF pn53x_get_supported_baud_rate, RawType
      <3>2. pn53x_nm_to_pm(m) = <<"FELICA", r>>
        BY <2>1, <2>4, <3>1 DEF pn53x_nm_to_pm
      <3>3. pn53x_nm_to_ptt(m) = <<"FELICA", r>>
        BY <2>1, <2>4, <3>1 DEF pn53x_nm_to_ptt
      <3> QED BY <2>4, <3>1, <3>2, <3>3 DEF Refused, Undefined, pn53x_ptt_to_nm
    <2>5. CASE t = "JEWEL" /\ chip # "PN531"
      <3>1. r = 106
        BY <2>5 DEF pn53x_get_supported_baud_rate, RawType
      <3>2. pn53x_nm_to_pm(m) = <<"JEWEL", 106>>
        BY <2>1, <2>5 DEF pn53x_nm_to_pm
      <3>3. pn53x_nm_to_ptt(m) = <<"JEWEL", 106>>
        BY <2>1, <2>5 DEF pn53x_nm_to_ptt
      <3> QED BY <2>5, <3>1, <3>2, <3>3 DEF Refused, Undefined, pn53x_ptt_to_nm
    <2>6. CASE t = "ISO14443B" /\ support
      <3>1. r \in {847, 424, 212, 106} /\ (chip # "PN533" => r = 106)
        BY <2>6 DEF pn53x_get_supported_baud_rate, RawType
      <3>2. pn53x_nm_to_pm(m) = <<"ISO14443B", r>>
        BY <2>1, <2>6, <3>1 DEF pn53x_nm_to_pm
      <3>3. pn53x_nm_to_ptt(m) = IF r = 106 THEN <<"ISO14443_4B", 106>> ELSE Undefined
        BY <2>1, <2>6, <3>1 DEF pn53x_nm_to_ptt
      <3> QED BY <2>6, <3>1, <3>2, <3>3 DEF Refused, Undefined, pn53x_ptt_to_nm
    <2> QED BY <2>2, <2>3, <2>4, <2>5, <2>6
  <1> QED BY <1>1, PTL

\* Only target_init ends a call of nfc_target_init.
InitKept == op' = "inited" => op = "inited" /\ res' = res

\* nfc_target_init never writes more than a byte past the buffer, for any buffer, and gives
\* what the other device sent or an error.
THEOREM InitFitsHolds == TargetsSpec => []InitFits
  <1> USE TargetsAssumption
  <1>1. TargetsInit => InitFits
    BY DEF TargetsInit, InitFits, NoBytesYet
  <1>2. ASSUME InitFits, TargetsNext PROVE InitFits'
    <2> USE <1>2
    <2>1. CASE got' = got /\ InitKept
      BY <2>1 DEF InitFits, InitKept
    <2>2. ASSUME NEW m \in Modulation, NEW n \in Sizes, list_passive_targets(m, n) PROVE InitFits'
      BY <2>1, <2>2 DEF list_passive_targets, InitKept
    <2>3. ASSUME NEW m \in Modulation, NEW u, NEW n, select_passive_target(m, u, n) PROVE InitFits'
      BY <2>1, <2>3 DEF select_passive_target, InitKept
    <2>4. ASSUME NEW m \in Modulation, auto_poll(m) PROVE InitFits'
      <3>1. op' = "polled"
        BY <2>4 DEF auto_poll
      <3> QED BY <2>1, <2>4, <3>1 DEF auto_poll, InitKept
    <2>5. CASE select_native
      <3>1. op' \in {"listing", "selected", "polling"}
        BY <2>5 DEF select_native, Selected
      <3> QED BY <2>1, <2>5, <3>1 DEF select_native, InitKept
    <2>6. CASE select_raw
      <3>1. op' \in {"listing", "selected", "polling"}
        BY <2>6 DEF select_raw, Selected
      <3> QED BY <2>1, <2>6, <3>1 DEF select_raw, InitKept
    <2>7. CASE list_step
      <3>1. op' \in {"list", "listed"}
        BY <2>7 DEF list_step
      <3> QED BY <2>1, <2>7, <3>1 DEF list_step, InitKept
    <2>8. CASE decode_polled
      BY <2>1, <2>8 DEF decode_polled, InitKept
    <2>9. ASSUME NEW n \in 0 .. RxLen + 3, NEW b \in BOOLEAN, target_init(n, b) PROVE InitFits'
      <3> DEFINE k == IF Overflows(n) THEN 0 ELSE (n - 1 + SizeMod) % SizeMod
      <3>1. got'.chip = n /\ got'.written = k /\ got'.late = FALSE
        BY <2>9 DEF target_init
      <3>2. CASE Overflows(n)
        <4>1. k = 0 /\ res' = EOVFLOW
          BY <2>9, <3>2 DEF target_init
        <4> QED BY <3>1, <4>1 DEF InitFits, EOVFLOW
      <3>3. CASE ~Overflows(n)
        <4>1. n >= 2 /\ k = n - 1 /\ n - 2 <= RxLen
          BY <3>3, SizeWraps
        <4>2. op' = "inited" => res' \in {k, 0}
          BY <2>9, <3>1, <3>3 DEF target_init
        <4> HIDE DEF k
        <4> QED BY <3>1, <4>1, <4>2 DEF InitFits
      <3> QED BY <3>2, <3>3
    <2>10. CASE return
      BY <2>10 DEF return, InitFits, NoBytesYet
    <2>11. ASSUME NEW b \in BOOLEAN, target_init_fails(b) PROVE InitFits'
      <3>1. got'.chip = 0 /\ got'.written = 0 /\ got'.late = b
        BY <2>11 DEF target_init_fails, NoBytesYet
      <3>2. (b /\ res' = 0) \/ res' = EIO
        BY <2>11 DEF target_init_fails
      <3> QED BY <3>1, <3>2 DEF InitFits, EIO
    <2>12. ASSUME NEW m \in Modulation, poll(m) PROVE InitFits'
      BY <2>1, <2>12 DEF poll, InitKept
    <2>13. CASE poll_step
      <3>1. op' \in {"selected", "poll"}
        BY <2>13 DEF poll_step
      <3> QED BY <2>1, <2>13, <3>1 DEF poll_step, InitKept
    <2> QED BY <2>2, <2>3, <2>4, <2>5, <2>6, <2>7, <2>8, <2>9, <2>10,
              <2>11, <2>12, <2>13 DEF TargetsNext
  <1>3. ASSUME InitFits, UNCHANGED target_vars PROVE InitFits'
    BY <1>3 DEF InitFits, target_vars
  <1> QED BY <1>1, <1>2, <1>3, PTL DEF TargetsSpec
=============================================================================
