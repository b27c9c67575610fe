-------------------------------- MODULE Relay --------------------------------
(***************************************************************************)
(* nfc-relay-picc between a reader and a card: in one process with two     *)
(* devices, or in two processes, the target at the reader and the          *)
(* initiator at the card, that write lines to each other.                  *)
(***************************************************************************)
EXTENDS Integers, Sequences

CONSTANTS MaxCommands,   \* bound: commands of the reader
          MaxFailures    \* bound: exchanges with the card that fail

VARIABLES split,         \* -t and -i, or one process
          pcT, pcI,      \* of the target's process (and of a single one), of the initiator's
          up, down,      \* lines to the initiator, lines to the target
          abtCapdu,      \* number of the command being relayed
          szRapduLen,    \* of the initiator's process
          answered,      \* commands answered, with how many bytes
          failures, quitting, commands

relay_vars == <<split, pcT, pcI, up, down, abtCapdu, szRapduLen, answered, failures, quitting, commands>>

Identity == <<"UID", "ATQA", "SAK", "ATS">>
Gone == {"exit", "none"}

\* while (!quitting): where a process goes when its loop comes round
Around(p, where) == IF p \in quitting THEN "exit" ELSE where

RelayInit ==
    /\ split \in BOOLEAN
    /\ pcT = (IF split THEN "scanUID" ELSE "init") /\ pcI = (IF split THEN "select" ELSE "none")
    /\ up = <<>> /\ down = <<>> /\ abtCapdu = 0 /\ szRapduLen = 0 /\ answered = <<>>
    /\ failures = 0 /\ quitting = {} /\ commands = 0

-----------------------------------------------------------------------------
(* Setting up                                                              *)

\* The initiator selects a card and, as a process of its own, writes four lines.
find_card ==
    /\ pcI = "select"
    /\ \/ pcI' = Around("I", "scan") /\ down' = Identity /\ UNCHANGED failures
       \/ failures < MaxFailures /\ failures' = failures + 1 /\ pcI' = "exit" /\ UNCHANGED down
    /\ UNCHANGED <<split, pcT, up, abtCapdu, szRapduLen, answered, quitting, commands>>

ScanState == <<"scanUID", "scanATQA", "scanSAK", "scanATS">>

\* scan_hex_fd3 for the UID, ATQA, SAK and ATS: each in its turn, up to the end of
\* the file when the other process has gone.
scan_identity(i) ==
    /\ pcT = ScanState[i]
    /\ IF down # <<>> THEN /\ pcT' = IF Head(down) # Identity[i] THEN "exit" ELSE IF i = 4 THEN "init" ELSE ScanState[i + 1]
                           /\ down' = Tail(down)
       ELSE pcI = "exit" /\ pcT' = "exit" /\ UNCHANGED down
    /\ UNCHANGED <<split, pcI, up, abtCapdu, szRapduLen, answered, failures, quitting, commands>>

\* nfc_open and nfc_target_init of the emulated card; its first frame is dropped.
target_init ==
    /\ pcT = "init" /\ pcT' \in {Around("T", "receive"), "exit"}
    /\ UNCHANGED <<split, pcI, up, down, abtCapdu, szRapduLen, answered, failures, quitting, commands>>

-----------------------------------------------------------------------------
(* Relaying                                                                *)

\* intr_hdlr: the loop ends when it comes round, and not before.
interrupt(p) ==
    /\ p \notin quitting /\ (IF p = "T" THEN pcT ELSE pcI) \notin Gone
    /\ quitting' = quitting \cup {p}
    /\ UNCHANGED <<split, pcT, pcI, up, down, abtCapdu, szRapduLen, answered, failures, commands>>

\* nfc_target_receive_bytes brings a command, which a process of its own writes;
\* print_hex_fd4 may fail, and the process end, when the other one has gone.
receive_capdu ==
    /\ pcT = "receive" /\ commands < MaxCommands
    /\ commands' = commands + 1 /\ abtCapdu' = commands'
    /\ \/ up' = (IF split THEN Append(up, "C-APDU") ELSE up) /\ pcT' = IF split THEN "scan" ELSE "forward"
       \/ pcI = "exit" /\ pcT' = "exit" /\ UNCHANGED up
    /\ UNCHANGED <<split, pcI, down, szRapduLen, answered, failures, quitting>>

\* The reader goes away: the process ends.
receive_failed ==
    /\ pcT = "receive" /\ pcT' = "exit"
    /\ UNCHANGED <<split, pcI, up, down, abtCapdu, szRapduLen, answered, failures, quitting, commands>>

scan_capdu ==
    /\ pcI = "scan"
    /\ \/ up # <<>> /\ up' = Tail(up) /\ pcI' = "forward"
       \/ up = <<>> /\ pcT = "exit" /\ pcI' = "exit" /\ UNCHANGED up
    /\ UNCHANGED <<split, pcT, down, abtCapdu, szRapduLen, answered, failures, quitting, commands>>

\* mutant: an answer of no bytes is not written
Answered_MutNonEmpty(ok) == ok /\ szRapduLen > 0

Answered(ok) == ok

\* nfc_initiator_transceive_bytes with the card.  What is kept of its result is
\* whether it was below 0, and that in the length of the command: szRapduLen
\* stays what it was.  When it fails there is no answer to forward.  Writing it
\* may fail as in receive_capdu.
forward ==
    /\ "forward" \in {pcT, pcI}
    /\ \E ok \in BOOLEAN :
       /\ failures' = (IF ok THEN failures ELSE failures + 1) /\ failures' <= MaxFailures
       /\ IF split THEN /\ \/ pcI' = Around("I", "scan") /\ down' = IF Answered(ok) THEN Append(down, "R-APDU") ELSE down
                           \/ Answered(ok) /\ pcT = "exit" /\ pcI' = "exit" /\ UNCHANGED down
                        /\ UNCHANGED pcT
          ELSE /\ pcT' = IF Answered(ok) THEN "send" ELSE Around("T", "receive")
               /\ UNCHANGED <<pcI, down>>
    /\ UNCHANGED <<split, up, abtCapdu, szRapduLen, answered, quitting, commands>>

scan_rapdu ==
    /\ pcT = "scan"
    /\ \/ down # <<>> /\ down' = Tail(down) /\ pcT' = IF Head(down) = "R-APDU" THEN "send" ELSE "exit"
       \/ down = <<>> /\ pcI = "exit" /\ pcT' = "exit" /\ UNCHANGED down
    /\ UNCHANGED <<split, pcI, up, abtCapdu, szRapduLen, answered, failures, quitting, commands>>

\* nfc_target_send_bytes gives the answer to the reader; if it fails the process ends.
send_rapdu ==
    /\ pcT = "send"
    /\ \/ /\ pcT' = Around("T", "receive")
          /\ answered' = Append(answered, [command |-> abtCapdu, bytes |-> szRapduLen])
       \/ pcT' = "exit" /\ UNCHANGED answered
    /\ UNCHANGED <<split, pcI, up, down, abtCapdu, szRapduLen, failures, quitting, commands>>

RelayNext ==
    \/ find_card \/ \E i \in 1..4 : scan_identity(i)
    \/ target_init \/ \E p \in {"T", "I"} : interrupt(p)
    \/ receive_capdu \/ receive_failed \/ scan_capdu \/ forward \/ scan_rapdu \/ send_rapdu

RelaySpec == RelayInit /\ [][RelayNext]_relay_vars

-----------------------------------------------------------------------------
(* Properties                                                              *)

\* The two processes wait for each other's lines for ever only after an exchange
\* with the card failed, for which nothing is written back; until then commands
\* are answered in their order, each once.
WaitNeedsFailure ==
    /\ pcT = "scan" /\ pcI = "scan" /\ up = <<>> /\ down = <<>> => failures > 0
    /\ failures = 0 => \A n \in 1..Len(answered) : answered[n].command = n
=============================================================================
