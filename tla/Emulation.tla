------------------------------ MODULE Emulation ------------------------------
(***************************************************************************)
(* nfc-emulate-forum-tag4: the loop of nfc_emulate_target serves an NDEF   *)
(* file to a reader in the field, which may also write it; when the reader *)
(* leaves, sends nonsense or the user interrupts, the file is saved.       *)
(***************************************************************************)
EXTENDS Integers, Sequences, FiniteSets

CONSTANTS Byte,          \* values of a byte, 256
          Room,          \* bytes of ndef_file, 0xfffe
          Messages,      \* NDEF messages, sequences of bytes
          Strays,        \* data of updates no NFC Forum reader sends
          Chunk,         \* bytes a reader writes or reads at once
          MaxFrames      \* bound: frames of the reader

CC == 15                 \* a byte of nfcforum_capability_container
Beyond == -1             \* a byte of the stack past ndef_file

\* ndef_message_load takes no empty file and none whose size has more than two
\* bytes; it does not ask whether the message fits ndef_file.
ASSUME EmulationAssumption ==
    /\ Byte \in Nat \ {0} /\ Room \in Nat \ {0, 1}
    /\ Messages \subseteq Seq(Nat) /\ \A m \in Messages : Len(m) \in 1..(Byte * Byte) - 1
    /\ Strays \subseteq Seq(Nat)
    /\ Chunk \in Nat \ {0} /\ MaxFrames \in Nat

VARIABLES em_pc,
          current_file, ndef_file, ndef_file_len,
          apdu,          \* abtRx
          data_out,      \* abtTx
          type4v,        \* version of the emulated tag
          writer,        \* the reader: message it is writing, bytes of it written
          completed,     \* history: messages that were there as a whole
          stray,         \* history: an update came that no NFC Forum reader sends
          overrun,       \* history: bytes were written past ndef_file
          saved, frames

file_vars == <<current_file, ndef_file, ndef_file_len, overrun>>
em_vars == <<em_pc, file_vars, apdu, data_out, type4v, writer, completed, stray, saved, frames>>

Nothing == [ins |-> "none", off |-> 0, data |-> <<>>]
Idle == [message |-> <<>>, at |-> -1]
Fits(m) == Len(m) + 2 <= Room
TwoBytes(n) == <<n \div Byte, n % Byte>>

\* ndef_message_load
Load(m) ==
    [i \in 0..Room - 1 |-> CASE i \in {0, 1} -> TwoBytes(Len(m))[i + 1] [] i \in 2..Len(m) + 1 -> m[i - 1] [] OTHER -> 0]
At(i) == IF i < Room THEN ndef_file[i] ELSE Beyond

\* main: ndef_message_load, nfc_open, and nfc_emulate_target calls nfc_target_init,
\* which may already bring the first frame of a reader.
EmulationInit ==
    /\ em_pc = "receive" /\ current_file = "NONE" /\ type4v \in {1, 2}
    /\ \E m \in Messages : /\ ndef_file = Load(m) /\ completed = {m}
                           /\ ndef_file_len = Len(m) + 2 /\ overrun = ~Fits(m)
    /\ apdu = Nothing /\ data_out = <<>> /\ writer = Idle /\ stray = FALSE /\ saved = <<>> /\ frames = 0

-----------------------------------------------------------------------------
(* The reader in the field                                                 *)

Requests ==
    {[ins |-> i, off |-> 0, data |-> <<>>] : i \in {"empty", "short", "unknown", "class", "selectP2"}}
    \cup {[ins |-> "selectID", off |-> f, data |-> <<>>] : f \in {1, 2, 3}}        \* CC, NDEF, other
    \cup {[ins |-> "selectName", off |-> v, data |-> <<>>] : v \in {1, 2}}
    \cup {[ins |-> "read", off |-> o, data |-> [i \in 1..Chunk |-> 0]] : o \in {0, 2, Room - 1}}

Frame(a) == em_pc = "receive" /\ frames < MaxFrames /\ frames' = frames + 1 /\ apdu' = a /\ em_pc' = "io"

receive_request ==
    /\ \E a \in Requests : Frame(a)
    /\ UNCHANGED <<file_vars, data_out, type4v, writer, completed, stray, saved>>

\* An NFC Forum reader writes a message no longer than the capability container
\* allows: the length is set to 0, the bytes follow in pieces, the true length
\* comes last.
receive_update ==
    /\ \/ /\ writer = Idle
          /\ \E m \in {k \in Messages : Fits(k)} : writer' = [message |-> m, at |-> 0]
          /\ Frame([ins |-> "update", off |-> 0, data |-> <<0, 0>>])
       \/ /\ writer.at \in 0..Len(writer.message) - 1
          /\ LET n == IF writer.at + Chunk > Len(writer.message) THEN Len(writer.message) ELSE writer.at + Chunk IN
               /\ Frame([ins |-> "update", off |-> writer.at + 2, data |-> SubSeq(writer.message, writer.at + 1, n)])
               /\ writer' = [writer EXCEPT !.at = n]
       \/ /\ writer # Idle /\ writer.at = Len(writer.message)
          /\ Frame([ins |-> "update", off |-> 0, data |-> TwoBytes(Len(writer.message))])
          /\ writer' = Idle
    /\ completed' = IF writer' = Idle THEN completed \cup {writer.message} ELSE completed
    /\ UNCHANGED <<file_vars, data_out, type4v, stray, saved>>

\* Any other reader writes what it likes where it likes.
receive_stray ==
    /\ ~stray /\ stray' = TRUE
    /\ \E o \in 0..(Byte * Byte) - 1, d \in Strays : Frame([ins |-> "update", off |-> o, data |-> d])
    /\ UNCHANGED <<file_vars, data_out, type4v, writer, completed, saved>>

\* The reader leaves, the exchange fails, or SIGINT has stop_emulation abort the
\* command: nfc_target_receive_bytes fails and the loop returns.
receive_error ==
    /\ em_pc = "receive" /\ em_pc' = "close"
    /\ UNCHANGED <<file_vars, apdu, data_out, type4v, writer, completed, stray, saved, frames>>

-----------------------------------------------------------------------------
(* nfcforum_tag4_io                                                        *)

Ok == <<144, 0>>
Reply(out) == data_out' = out /\ em_pc' = IF out = <<>> THEN "receive" ELSE "send"

\* -ENOTSUP ends the emulation.
io_refuse ==
    /\ em_pc = "io" /\ apdu.ins \in {"short", "class", "unknown", "selectP2"}
    /\ em_pc' = "close"
    /\ UNCHANGED <<file_vars, apdu, data_out, type4v, writer, completed, stray, saved, frames>>

io_select ==
    /\ em_pc = "io" /\ apdu.ins \in {"empty", "selectID", "selectName"}
    /\ Reply(CASE apdu.ins = "empty" -> <<>>
               [] apdu.ins = "selectID" -> IF apdu.off = 3 THEN <<106, 0>> ELSE Ok
               [] apdu.ins = "selectName" -> IF apdu.off = type4v THEN Ok ELSE <<106, 130>>)
    /\ current_file' = IF apdu.ins = "selectID" THEN <<"CC_FILE", "NDEF_FILE", "NONE">>[apdu.off] ELSE current_file
    /\ UNCHANGED <<ndef_file, ndef_file_len, overrun, apdu, type4v, writer, completed, stray, saved, frames>>

\* READ BINARY: the bytes of the current file, whatever its length
io_read ==
    /\ em_pc = "io" /\ apdu.ins = "read"
    /\ Reply(CASE current_file = "NONE" -> <<106, 130>>
               [] current_file = "CC_FILE" -> [i \in 1..Len(apdu.data) |-> CC] \o Ok
               [] current_file = "NDEF_FILE" -> [i \in 1..Len(apdu.data) |-> At(apdu.off + i - 1)] \o Ok)
    /\ UNCHANGED <<file_vars, apdu, type4v, writer, completed, stray, saved, frames>>

\* mutant: the length follows what was written last
Length_MutLast(file) == apdu.off + Len(apdu.data)

\* Only a write of the first bytes of the file sets its length.
Length(file) == IF apdu.off = 0 THEN (Byte * file[0]) + file[1] + 2 ELSE ndef_file_len

\* UPDATE BINARY: the NDEF file, whichever file is current, at any offset
io_update ==
    /\ em_pc = "io" /\ apdu.ins = "update"
    /\ ndef_file' = [i \in 0..Room - 1 |-> IF i - apdu.off \in 0..Len(apdu.data) - 1 THEN apdu.data[i - apdu.off + 1] ELSE ndef_file[i]]
    /\ ndef_file_len' = Length(ndef_file')
    /\ overrun' = (overrun \/ apdu.off + Len(apdu.data) > Room)
    /\ Reply(Ok)
    /\ UNCHANGED <<current_file, apdu, type4v, writer, completed, stray, saved, frames>>

\* nfc_target_send_bytes
send_answer ==
    /\ em_pc = "send" /\ em_pc' \in {"receive", "close"}
    /\ UNCHANGED <<file_vars, apdu, data_out, type4v, writer, completed, stray, saved, frames>>

\* main: nfc_close, then ndef_message_save.  fwrite of no bytes is taken for an
\* error, with the file already emptied.
save_message ==
    /\ em_pc = "close" /\ em_pc' = "exit"
    /\ saved' = IF ndef_file_len = 2 THEN <<"empty">>
                ELSE <<"saved", [i \in 1..ndef_file_len - 2 |-> At(i + 1)]>>
    /\ UNCHANGED <<file_vars, apdu, data_out, type4v, writer, completed, stray, frames>>

EmulationNext ==
    \/ receive_request \/ receive_update \/ receive_stray \/ receive_error
    \/ io_refuse \/ io_select \/ io_read \/ io_update \/ send_answer \/ save_message

EmulationSpec == EmulationInit /\ [][EmulationNext]_em_vars

-----------------------------------------------------------------------------
(* Properties                                                              *)

\* As long as readers write the way Type 4 tags prescribe and the first message fits
\* ndef_file (the size check of ndef_message_load lets in three sizes that do not),
\* the file saved when the reader leaves or the user interrupts is a message that
\* was complete: the first one or one that a reader wrote to the end.  In the
\* middle of an update nothing of it is saved, and the old one is lost.
SavedIsMessage ==
    ~stray /\ ~overrun =>
    /\ Len(saved) = 2 => saved[2] \in completed
    /\ saved = <<"empty">> => writer # Idle
=============================================================================
