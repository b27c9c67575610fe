------------------------------ MODULE Framing ------------------------------
(***************************************************************************)
(* Frames of bits, with or without parity: pn53x_wrap_frame, the lengths   *)
(* that pn53x_initiator_transceive_bits and pn53x_target_send_bits give to *)
(* the chip, the ones pn53x_target_receive_bits recovers from it, and      *)
(* pn53x_unwrap_frame.  One device sends szTxBits bits and another one     *)
(* receives them; an iteration of a loop is one action.                    *)
(*                                                                         *)
(* A buffer of bytes is a function of bit positions in the order in which  *)
(* they are sent (lowest bit of a byte first): mirror() and the shifts are *)
(* moves of positions.  The contents are symbols: bit k of byte i, the     *)
(* parity bit of byte i, or a bit without meaning.                         *)
(***************************************************************************)
EXTENDS Integers

CONSTANT MaxBits    \* bound: bits of a frame

ASSUME FramingAssumption == MaxBits \in Nat

Cap == 2 * MaxBits + 32        \* bits of a frame buffer
Data(i, k) == <<"data", i, k>>
Parity(i) == <<"parity", i>>
Blank == <<"blank">>

VARIABLES pc,            \* which loop is under way
          bPar,          \* the chips handle parity
          szTxBits,      \* bits to send
          szBitsLeft, uiDataPos, uiBitPos,
          pbtFrame,      \* wrapping: byte of the frame; unwrapping: offset to uiDataPos
          frame,         \* the sender's frame, then the receiver's
          szFrameBits,
          pbtRx, pbtRxPar,
          ret            \* what the receiver returns

loopVars == <<szBitsLeft, uiDataPos, uiBitPos, pbtFrame>>
vars == <<pc, bPar, szTxBits, loopVars, frame, szFrameBits, pbtRx, pbtRxPar, ret>>

TypeOK ==
    /\ pc \in {"wrap", "loop", "send", "unwrap", "reverse", "done"}
    /\ bPar \in BOOLEAN
    /\ szTxBits \in 0..MaxBits
    /\ szBitsLeft \in 0..Cap
    /\ uiDataPos \in Nat /\ uiBitPos \in 0..7 /\ pbtFrame \in Nat
    /\ szFrameBits \in 0..Cap
    /\ ret \in -1..MaxBits

\* The call that sends szTxBits bits begins.
Init ==
    /\ pc = "wrap"
    /\ bPar \in BOOLEAN
    /\ szTxBits \in 0..MaxBits
    /\ szBitsLeft = szTxBits /\ uiDataPos = 0 /\ uiBitPos = 0 /\ pbtFrame = 0
    /\ frame = [n \in 0..Cap |-> Blank]
    /\ szFrameBits = 0
    /\ pbtRx = [n \in 0..Cap |-> Blank]
    /\ pbtRxPar = [i \in 0..Cap |-> Blank]
    /\ ret = 0

Fails == pc' = "done" /\ ret' = -1     \* NFC_ECHIP

-----------------------------------------------------------------------------
(* pn53x_wrap_frame                                                        *)

\* The frame is a plain copy: the chip adds the parity, or the data is short.
copy ==
    /\ pc = "wrap"
    /\ bPar \/ szTxBits \in 1..8
    /\ frame' = [n \in 0..Cap |-> IF n < 8 * ((szTxBits + 7) \div 8) THEN Data(n \div 8, n % 8)
                                                                   ELSE frame[n]]
    /\ szFrameBits' = szTxBits
    /\ pc' = "send"
    /\ UNCHANGED <<bPar, szTxBits, loopVars, pbtRx, pbtRxPar, ret>>

wrap_nothing ==
    /\ pc = "wrap" /\ ~bPar /\ szTxBits = 0
    /\ Fails
    /\ UNCHANGED <<bPar, szTxBits, loopVars, frame, szFrameBits, pbtRx, pbtRxPar>>

wrap_frame ==
    /\ pc = "wrap" /\ ~bPar /\ szTxBits > 8
    /\ szFrameBits' = szTxBits + (szTxBits \div 8)
    /\ pc' = "loop"
    /\ UNCHANGED <<bPar, szTxBits, loopVars, frame, pbtRx, pbtRxPar, ret>>

\* Where the bits of a data byte and its parity bit go: from bit uiBitPos of the
\* byte at pbtFrame on, the rest of the next byte is cleared.
Wrapped ==
    LET first == 8 * pbtFrame + uiBitPos IN
      [n \in 0..Cap |->
         CASE n \in first .. first + 7 -> Data(uiDataPos, n - first)
           [] n = first + 8 -> Parity(uiDataPos)
           [] n \in first + 9 .. 8 * pbtFrame + 15 -> Blank
           [] OTHER -> frame[n]]

\* mutant: the byte that eight parity bits fill is not skipped
wrap_step_MutNoSkip ==
    /\ pc = "loop"
    /\ frame' = Wrapped
    /\ uiDataPos' = uiDataPos + 1
    /\ IF szBitsLeft < 9
         THEN pc' = "send" /\ UNCHANGED <<szBitsLeft, uiBitPos, pbtFrame>>
         ELSE /\ szBitsLeft' = szBitsLeft - 8
              /\ uiBitPos' = (uiBitPos + 1) % 8
              /\ pbtFrame' = pbtFrame + 1
              /\ UNCHANGED pc
    /\ UNCHANGED <<bPar, szTxBits, szFrameBits, pbtRx, pbtRxPar, ret>>

wrap_step ==
    /\ pc = "loop"
    /\ frame' = Wrapped
    /\ uiDataPos' = uiDataPos + 1
    /\ IF szBitsLeft < 9
         THEN pc' = "send" /\ UNCHANGED <<szBitsLeft, uiBitPos, pbtFrame>>
         ELSE /\ szBitsLeft' = szBitsLeft - 8
              /\ uiBitPos' = IF uiBitPos = 7 THEN 0 ELSE uiBitPos + 1
              /\ pbtFrame' = IF uiBitPos = 7 THEN pbtFrame + 2 ELSE pbtFrame + 1
              /\ UNCHANGED pc
    /\ UNCHANGED <<bPar, szTxBits, szFrameBits, pbtRx, pbtRxPar, ret>>

-----------------------------------------------------------------------------
(* To the chip, over the air, from the chip                                *)

\* The sender tells its chip the bytes and the bits of the last one.
ui8Bits == szFrameBits % 8
szFrameBytes == (szFrameBits \div 8) + (IF ui8Bits = 0 THEN 0 ELSE 1)

\* The chip sends that many bits; the other chip reports the bytes it received,
\* and in CIU_Control the bits of the last one if it is not whole.
SentBits == IF ui8Bits = 0 THEN 8 * szFrameBytes ELSE 8 * (szFrameBytes - 1) + ui8Bits
RxBytes == (SentBits + 7) \div 8
RxLastBits == SentBits % 8

\* mutant: a last byte of a few bits is counted as whole
Recovered_MutWhole == (RxBytes * 8) + RxLastBits

\* The length of the frame as the receiver recovers it.
Recovered == ((RxBytes - (IF RxLastBits = 0 THEN 0 ELSE 1)) * 8) + RxLastBits

transmit ==
    /\ pc = "send"
    /\ frame' = [n \in 0..Cap |-> IF n < SentBits THEN frame[n] ELSE Blank]
    /\ szFrameBits' = Recovered
    /\ szBitsLeft' = Recovered
    /\ uiDataPos' = 0 /\ uiBitPos' = 0 /\ pbtFrame' = 0
    /\ pc' = "unwrap"
    /\ UNCHANGED <<bPar, szTxBits, pbtRx, pbtRxPar, ret>>

-----------------------------------------------------------------------------
(* pn53x_unwrap_frame                                                      *)

uncopy ==
    /\ pc = "unwrap"
    /\ bPar \/ szFrameBits \in 1..8
    /\ pbtRx' = [n \in 0..Cap |-> IF n < 8 * ((szFrameBits + 7) \div 8) THEN frame[n] ELSE pbtRx[n]]
    /\ ret' = szFrameBits
    /\ pc' = "done"
    /\ UNCHANGED <<bPar, szTxBits, loopVars, frame, szFrameBits, pbtRxPar>>

unwrap_frame ==
    /\ pc = "unwrap" /\ ~bPar /\ szFrameBits > 8
    /\ ret' = szFrameBits - (szFrameBits \div 9)
    /\ pc' = "reverse"
    /\ UNCHANGED <<bPar, szTxBits, loopVars, frame, szFrameBits, pbtRx, pbtRxPar>>

\* The first bit of data byte uiDataPos in the frame.
From == 8 * (pbtFrame + uiDataPos) + uiBitPos

\* mutant: the parity bit is left in the count
unwrap_step_MutEight ==
    /\ pc = "reverse"
    /\ pbtRx' = [n \in 0..Cap |-> IF n \div 8 = uiDataPos THEN frame[From + (n % 8)] ELSE pbtRx[n]]
    /\ pbtRxPar' = [pbtRxPar EXCEPT ![uiDataPos] = frame[From + 8]]
    /\ uiDataPos' = uiDataPos + 1
    /\ IF szBitsLeft < 9
         THEN pc' = "done" /\ UNCHANGED <<szBitsLeft, uiBitPos, pbtFrame>>
         ELSE /\ szBitsLeft' = szBitsLeft - 8
              /\ uiBitPos' = IF uiBitPos = 7 THEN 0 ELSE uiBitPos + 1
              /\ pbtFrame' = IF uiBitPos = 7 THEN pbtFrame + 1 ELSE pbtFrame
              /\ UNCHANGED pc
    /\ UNCHANGED <<bPar, szTxBits, frame, szFrameBits, ret>>

unwrap_step ==
    /\ pc = "reverse"
    /\ pbtRx' = [n \in 0..Cap |-> IF n \div 8 = uiDataPos THEN frame[From + (n % 8)] ELSE pbtRx[n]]
    /\ pbtRxPar' = [pbtRxPar EXCEPT ![uiDataPos] = frame[From + 8]]
    /\ uiDataPos' = uiDataPos + 1
    /\ IF szBitsLeft < 9
         THEN pc' = "done" /\ UNCHANGED <<szBitsLeft, uiBitPos, pbtFrame>>
         ELSE /\ szBitsLeft' = szBitsLeft - 9
              /\ uiBitPos' = IF uiBitPos = 7 THEN 0 ELSE uiBitPos + 1
              /\ pbtFrame' = IF uiBitPos = 7 THEN pbtFrame + 1 ELSE pbtFrame
              /\ UNCHANGED pc
    /\ UNCHANGED <<bPar, szTxBits, frame, szFrameBits, ret>>

Next == copy \/ wrap_nothing \/ wrap_frame \/ wrap_step \/ transmit \/ uncopy \/ unwrap_frame \/ unwrap_step

Spec == Init /\ [][Next]_vars

-----------------------------------------------------------------------------
(* Properties                                                              *)

\* Between pn53x_wrap_frame and the chip, bit n of the air frame is where it
\* belongs: the eight bits of each data byte, then its parity bit, with no gap
\* at the byte boundaries of the frame.
OnAir(n) ==
    IF bPar \/ szTxBits < 9 THEN Data(n \div 8, n % 8)
    ELSE IF n % 9 = 8 THEN Parity(n \div 9) ELSE Data(n \div 9, n % 9)

FrameRight == pc = "send" => \A n \in 0 .. szFrameBits - 1 : frame[n] = OnAir(n)

\* What one device sends the other receives: the same number of bits, the bits
\* themselves, and the parity bit of every whole byte.
RoundTrip ==
    /\ TypeOK
    /\ pc = "done" /\ ret >= 0 =>
        /\ ret = szTxBits
        /\ \A n \in 0 .. szTxBits - 1 : pbtRx[n] = Data(n \div 8, n % 8)
        /\ ~bPar /\ szTxBits > 8 =>
             \A i \in 0 .. (szTxBits \div 8) - 1 : pbtRxPar[i] = Parity(i)

\* pn53x_unwrap_frame writes no further than one byte beyond the bits it returns
\* (that byte is written for every frame of whole bytes).
OneByteOver ==
    pc = "done" /\ ret >= 0 /\ ~bPar /\ szTxBits > 8 => 8 * uiDataPos <= ret + 8
=============================================================================
