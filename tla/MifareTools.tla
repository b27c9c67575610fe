----------------------------- MODULE MifareTools -----------------------------
(***************************************************************************)
(* nfc-mfclassic and nfc-mfultralight copy a card into a file and a file   *)
(* onto a card, block after block, with the MIFARE commands of mifare.c.   *)
(* A command may be lost on the air, executed or not, and the user may     *)
(* take the card away and put another one on the reader.                   *)
(***************************************************************************)
EXTENDS Integers, Sequences, FiniteSets

CONSTANTS Small, Big,    \* blocks of a sector: 4, and 16 ...
          Threshold,     \* ... from block 128 on
          LastBlock,     \* last block by the kind of the card
          Deck,          \* the cards: kind, magic (can be unlocked) and blocks
          Files,         \* dumps the user may already have
          KeyFile,       \* a dump with keys
          Keys,          \* the keys tried when there is no such file
          BadBcc,        \* first bytes of a block 0 with a wrong BCC
          MaxRuns, MaxFaults

\* A block is <<key A, access bits, key B>>, or three numbers of data.
Block == [1..3 -> Nat]
Dump == [0..LastBlock["4K"] -> Block]

Sector(b) == IF b < Threshold THEN Small ELSE Big
is_trailer_block(b) == (b + 1) % Sector(b) = 0

\* Access bits of 0 are not valid; no card and no file of the user has them to begin with.
Valid(blocks) == \A b \in DOMAIN blocks : is_trailer_block(b) => blocks[b][2] # 0

ASSUME MifareAssumption ==
    /\ Small \in Nat /\ Big \in Nat /\ 1 < Small /\ Small <= Big
    /\ Threshold \in Nat /\ Threshold % Small = 0 /\ Threshold % Big = 0
    /\ \A k \in {"Mini", "1K", "4K"} : LastBlock[k] \in 0..LastBlock["4K"] /\ is_trailer_block(LastBlock[k])
    /\ LastBlock["UL"] \in 4..LastBlock["4K"] /\ (LastBlock["UL"] + 1) % 4 = 0
    /\ Deck = [c \in DOMAIN Deck |-> Deck[c]] /\ 0 \notin DOMAIN Deck
    /\ \A c \in DOMAIN Deck :
          /\ Deck[c] \in [kind : {"Mini", "1K", "4K", "UL"}, magic : BOOLEAN, blocks : [0..LastBlock[Deck[c].kind] -> Block]]
          /\ IF Deck[c].kind = "UL" THEN ~Deck[c].magic ELSE Valid(Deck[c].blocks)
    /\ KeyFile \in Dump /\ Keys \in Seq(Nat) /\ Keys # <<>>
    /\ MaxRuns \in Nat /\ MaxFaults \in Nat

ASSUME FilesAssumption ==
    \A f \in Files :
       /\ f \in [tool : {"classic", "ultralight"}, blocks : Dump, last : {LastBlock["4K"]}]
       /\ f.tool = "classic" => Valid(f.blocks)

VARIABLES card,          \* Deck with what was written since
          present,       \* the card on the reader
          link,          \* what that card grants
          arg,           \* the command line
          mc_pc, iBlock, bFailure, counter, key_index, nt, uiBlocks, mtDump, mtKeys,
          disk,          \* the dump file, and as a history the last block that was read into it
          stretched,     \* history: a dump was written to a card larger than the one it is from
          runs, mc_faults

toolVars == <<arg, iBlock, bFailure, counter, key_index, nt, uiBlocks, mtDump, mtKeys>>
mifare_vars == <<card, present, link, toolVars, mc_pc, disk, stretched, runs, mc_faults>>

Zero == <<0, 0, 0>>
Nowhere == -1
Away == [selected |-> FALSE, auth |-> Nowhere, key |-> "A", free |-> FALSE, locked |-> FALSE]
NoFile == [tool |-> "none", blocks |-> <<>>, last |-> 0]
NoArg == [tool |-> "none", act |-> "none", key |-> "A", keyfile |-> FALSE, unlock |-> FALSE, lock |-> FALSE, otp |-> FALSE]
KeyAt == [A |-> 1, B |-> 3]
Unlockable(c) == c \in DOMAIN Deck /\ Deck[c].magic
Blank == [b \in 0..LastBlock["4K"] |-> Zero]

-----------------------------------------------------------------------------
(* Sectors                                                                 *)

is_first_block(b) == b % Sector(b) = 0
get_trailer_block(b) == b + (Sector(b) - 1 - (b % Sector(b)))

\* mutant: a sector that failed is counted too
Counted_MutAll(n, failed) == n + (IF n < Threshold THEN Small ELSE Big)

\* print_success_or_failure: the counter itself decides how large the sector was
Counted(n, failed) == IF failed THEN n ELSE n + (IF n < Threshold THEN Small ELSE Big)

-----------------------------------------------------------------------------
(* The card                                                                *)

\* Selecting wakes the card up, locked and with nothing authenticated.
Woken(c) == [Away EXCEPT !.selected = TRUE,
                         !.locked = (card[c].kind = "UL" /\ card[c].blocks[2][1] # 0)]

Ultralight == present \in DOMAIN card /\ card[present].kind = "UL"

\* Commands the card performs: access bits 1 let both keys write, 2 only key B;
\* 0 are not valid and close the sector for ever.
Permits(mc, b, p) ==
    /\ link.selected /\ b \in DOMAIN card[present].blocks
    /\ IF Ultralight THEN mc = "READ" \/ (mc = "WRITE" /\ b > 1 /\ (b > 2 => ~link.locked))
       ELSE LET t == card[present].blocks[get_trailer_block(b)] IN
            CASE mc = "AUTH" -> p = t[KeyAt[arg.key]] /\ t[2] # 0
              [] mc = "READ" -> link.free \/ (link.auth = get_trailer_block(b) /\ t[2] # 0)
              [] mc = "WRITE" -> \/ link.free
                                 \/ /\ link.auth = get_trailer_block(b) /\ b # 0
                                    /\ t[2] = 1 \/ (t[2] = 2 /\ link.key = "B")

Performs(mc, b, p) ==
    /\ card' = IF mc = "WRITE" THEN [card EXCEPT ![present].blocks[b] = p] ELSE card
    /\ link' = IF mc = "AUTH" THEN [link EXCEPT !.auth = get_trailer_block(b), !.key = arg.key] ELSE link

\* nfc_initiator_mifare_cmd.  A card that refuses a command falls silent until
\* it is selected again.  When the exchange fails, the card may have done it.
mifare_cmd(ok, mc, b, p) ==
    \/ /\ ok = Permits(mc, b, p)
       /\ IF ok THEN Performs(mc, b, p) ELSE link' = Away /\ UNCHANGED card
       /\ UNCHANGED mc_faults
    \/ /\ ~ok /\ mc_faults < MaxFaults /\ mc_faults' = mc_faults + 1
       /\ \/ Permits(mc, b, p) /\ Performs(mc, b, p)
          \/ link' \in {link, Away} /\ UNCHANGED card

\* The user changes the card.  It is a fault only while a tool is at work.
swap(c) ==
    /\ c # present /\ present' = c /\ link' = Away
    /\ IF mc_pc = "idle" THEN UNCHANGED mc_faults ELSE mc_faults < MaxFaults /\ mc_faults' = mc_faults + 1
    /\ UNCHANGED <<card, toolVars, mc_pc, disk, stretched, runs>>

-----------------------------------------------------------------------------
(* Start and end of a tool                                                 *)

MifareInit ==
    /\ card = Deck /\ present \in DOMAIN Deck /\ link = Away
    /\ arg = NoArg /\ mc_pc = "idle" /\ iBlock = 0 /\ bFailure = FALSE /\ counter = 0
    /\ key_index = 1 /\ nt = 0 /\ uiBlocks = 0 /\ mtDump = Blank /\ mtKeys = Blank
    /\ disk \in Files \cup {NoFile} /\ stretched = FALSE /\ runs = 0 /\ mc_faults = 0

\* main: the files are read before the reader is opened.  nfc-mfultralight reads
\* only for a small r; everything else writes.
start(a) ==
    /\ mc_pc = "idle" /\ runs < MaxRuns /\ runs' = runs + 1
    /\ a.act = "write" => disk.tool = a.tool
    /\ arg' = a /\ mc_pc' = "select"
    /\ mtDump' = IF a.act = "read" THEN Blank ELSE disk.blocks
    /\ mtKeys' = IF a.keyfile THEN KeyFile ELSE Blank
    /\ UNCHANGED <<card, present, link, iBlock, bFailure, counter, key_index, nt, uiBlocks, disk, stretched, mc_faults>>

\* main: the first selection, and the size guessed from ATQA and SAK
first_select ==
    /\ mc_pc = "select"
    /\ IF present = 0 \/ (arg.tool = "ultralight" /\ ~Ultralight)
       THEN mc_pc' = "end" /\ UNCHANGED <<link, nt, uiBlocks, iBlock, stretched>>
       ELSE /\ nt' = present /\ link' = Woken(present)
            /\ uiBlocks' = LastBlock[IF card[present].kind = "UL" /\ arg.tool = "classic" THEN "1K" ELSE card[present].kind]
            /\ iBlock' = CASE arg.act = "write" -> IF arg.tool = "classic" THEN 0 ELSE 2
                           [] arg.act = "read" -> IF arg.tool = "classic" THEN uiBlocks' ELSE 0
            /\ stretched' = (stretched \/ (arg.tool = "classic" /\ arg.act = "write" /\ uiBlocks' > disk.last))
            /\ mc_pc' = IF arg.unlock THEN "unlock" ELSE "loop"
    /\ UNCHANGED <<card, present, arg, bFailure, counter, key_index, mtDump, mtKeys, disk, runs, mc_faults>>

\* unlock_card: the card is halted, then sent 7 bits and a byte without CRC
unlock_card ==
    /\ mc_pc = "unlock"
    /\ LET ok == link.selected /\ Unlockable(present) IN
         /\ mc_pc' = IF ok THEN "loop" ELSE "end"
         /\ link' = IF ok THEN [link EXCEPT !.free = TRUE] ELSE Away
    /\ UNCHANGED <<card, present, toolVars, disk, stretched, runs, mc_faults>>

\* main: a card that was read is saved; the file is emptied first.  The whole of
\* mtDump is written, with zeros after the last block of the card.
save_dump ==
    /\ mc_pc = "read"
    /\ \/ disk' = [tool |-> arg.tool, blocks |-> mtDump, last |-> uiBlocks] /\ mc_pc' = "saved" /\ UNCHANGED mc_faults
       \/ mc_faults < MaxFaults /\ mc_faults' = mc_faults + 1 /\ disk' = NoFile /\ mc_pc' = "end"
    /\ UNCHANGED <<card, present, link, toolVars, stretched, runs>>

close_tool ==
    /\ mc_pc \in {"saved", "written", "end"}
    /\ mc_pc' = "idle" /\ link' = Away /\ arg' = NoArg /\ iBlock' = 0 /\ bFailure' = FALSE
    /\ counter' = 0 /\ key_index' = 1 /\ nt' = 0 /\ uiBlocks' = 0 /\ mtDump' = Blank /\ mtKeys' = Blank
    /\ UNCHANGED <<card, present, disk, stretched, runs, mc_faults>>

-----------------------------------------------------------------------------
(* nfc-mfclassic                                                           *)

Classic == arg.tool = "classic"
Reading == arg.act = "read"
Boundary == IF Reading THEN is_trailer_block(iBlock) ELSE is_first_block(iBlock)
Inside == mc_pc = "block" \/ (mc_pc = "loop" /\ ~Boundary)

\* A new sector: the last one is counted, and after a failure whatever card is
\* there is selected anew.
next_sector ==
    /\ mc_pc = "loop" /\ Classic /\ Boundary
    /\ counter' = IF iBlock = (IF Reading THEN uiBlocks ELSE 0) THEN counter ELSE Counted(counter, bFailure)
    /\ IF ~bFailure THEN UNCHANGED <<nt, link>>
       ELSE IF present = 0 THEN link' = Away /\ UNCHANGED nt ELSE nt' = present /\ link' = Woken(present)
    /\ bFailure' = (bFailure /\ present = 0)
    /\ key_index' = 1
    /\ mc_pc' = IF bFailure' THEN "end" ELSE IF arg.unlock THEN "block" ELSE "auth"
    /\ UNCHANGED <<card, present, arg, iBlock, uiBlocks, mtDump, mtKeys, disk, stretched, runs, mc_faults>>

\* authenticate: one key.  Without a file of keys the next one is tried, once the
\* card of nt is selected again, which may fail unnoticed; the key that fits is kept.
authenticate ==
    /\ mc_pc = "auth"
    /\ LET key == IF arg.keyfile THEN mtKeys[get_trailer_block(iBlock)][KeyAt[arg.key]] ELSE Keys[key_index] IN
       \/ /\ mifare_cmd(TRUE, "AUTH", iBlock, key)
          /\ mc_pc' = "block" /\ UNCHANGED key_index
          /\ mtKeys' = IF arg.keyfile THEN mtKeys ELSE [mtKeys EXCEPT ![iBlock][KeyAt[arg.key]] = key]
       \/ /\ arg.keyfile /\ mifare_cmd(FALSE, "AUTH", iBlock, key)
          /\ mc_pc' = "end" /\ UNCHANGED <<key_index, mtKeys>>
       \/ /\ ~arg.keyfile
          /\ LET again == IF present = nt THEN Woken(nt) ELSE Away IN
               \/ ~Permits("AUTH", iBlock, key) /\ link' = again /\ UNCHANGED mc_faults
               \/ mc_faults < MaxFaults /\ mc_faults' = mc_faults + 1 /\ link' \in {again, Away}
          /\ key_index' = key_index + 1
          /\ mc_pc' = IF key_index = Len(Keys) THEN "end" ELSE "auth"
          /\ UNCHANGED <<card, mtKeys>>
    /\ UNCHANGED <<present, arg, iBlock, bFailure, counter, nt, uiBlocks, mtDump, disk, stretched, runs>>

\* mutant: a data block that cannot be read is passed over like a trailer
ReadFailed_MutNever(ok) == FALSE

\* A data block that cannot be read ends read_card.
ReadFailed(ok) == ~ok /\ ~is_trailer_block(iBlock)

\* read_card, from the last block to the first.  A trailer is put together from
\* the keys that are known and the access bits; one that cannot be read is
\* reported and passed over.
read_block ==
    /\ Inside /\ Classic /\ Reading
    /\ \E ok \in BOOLEAN :
       /\ mifare_cmd(ok, "READ", iBlock, Zero)
       /\ bFailure' = ReadFailed(ok)
       /\ mtDump' = IF ~ok THEN mtDump
                    ELSE [mtDump EXCEPT ![iBlock] =
                          LET got == card[present].blocks[iBlock] IN
                            IF is_trailer_block(iBlock) /\ ~arg.unlock
                            THEN <<mtKeys[iBlock][1], got[2], mtKeys[iBlock][3]>> ELSE got]
       /\ mc_pc' = IF bFailure' THEN "end" ELSE IF iBlock = 0 THEN "read" ELSE "loop"
       /\ counter' = IF iBlock = 0 THEN Counted(counter, bFailure') ELSE counter
    /\ iBlock' = iBlock - 1
    /\ UNCHANGED <<present, arg, key_index, nt, uiBlocks, mtKeys, disk, stretched, runs>>

\* write_card, from the first block to the last.  Block 0 is left out unless the
\* card is unlocked, and then its BCC must be right; after a failure only the
\* trailer is still tried.
write_block ==
    /\ Inside /\ Classic /\ ~Reading
    /\ LET skip == ~is_trailer_block(iBlock) /\ (bFailure \/ (iBlock = 0 /\ ~arg.unlock))
           wrong == iBlock = 0 /\ arg.unlock /\ mtDump[0][1] = BadBcc
       IN IF skip \/ wrong THEN UNCHANGED <<card, link, bFailure, mc_faults>> /\ mc_pc' = IF wrong THEN "end" ELSE "loop"
          ELSE \E ok \in BOOLEAN :
                 /\ mifare_cmd(ok, "WRITE", iBlock, mtDump[iBlock])
                 /\ bFailure' = (bFailure \/ ~ok)
                 /\ mc_pc' = IF iBlock = uiBlocks THEN "written" ELSE "loop"
    /\ counter' = IF iBlock = uiBlocks THEN Counted(counter, bFailure') ELSE counter
    /\ iBlock' = iBlock + 1
    /\ UNCHANGED <<present, arg, key_index, nt, uiBlocks, mtDump, mtKeys, disk, stretched, runs>>

-----------------------------------------------------------------------------
(* nfc-mfultralight: a block is a page                                     *)

\* read_card: four pages at once, and the first failure ends it
read_pages ==
    /\ mc_pc = "loop" /\ ~Classic /\ Reading
    /\ \E ok \in BOOLEAN :
       /\ mifare_cmd(ok, "READ", iBlock, Zero)
       /\ bFailure' = ~ok
       /\ IF ok THEN /\ mtDump' = [b \in DOMAIN mtDump |-> IF b \in iBlock..iBlock + 3 THEN card[present].blocks[b] ELSE mtDump[b]]
                     /\ counter' = counter + 4
          ELSE UNCHANGED <<mtDump, counter>>
       /\ mc_pc' = IF ~ok THEN "end" ELSE IF iBlock + 4 > uiBlocks THEN "read" ELSE "loop"
    /\ iBlock' = iBlock + 4
    /\ UNCHANGED <<present, arg, key_index, nt, uiBlocks, mtKeys, disk, stretched, runs>>

\* write_card: the lock bytes and the OTP bytes only if the user said so; after a
\* failure whatever card is there is selected anew.
write_page ==
    /\ mc_pc = "loop" /\ ~Classic /\ ~Reading
    /\ LET skip == (iBlock = 2 /\ ~arg.lock) \/ (iBlock = 3 /\ ~arg.otp) IN
       IF skip THEN UNCHANGED <<card, link, nt, bFailure, counter, mc_faults>> /\ mc_pc' = "loop"
       ELSE IF bFailure
       THEN /\ IF present = 0 THEN link' = Away /\ UNCHANGED nt ELSE link' = Woken(present) /\ nt' = present
            /\ mc_pc' = IF present = 0 THEN "end" ELSE "loop"
            /\ bFailure' = (present = 0) /\ UNCHANGED <<card, counter, mc_faults>>
       ELSE \E ok \in BOOLEAN :
            /\ mifare_cmd(ok, "WRITE", iBlock, mtDump[iBlock])
            /\ bFailure' = ~ok /\ counter' = IF ok THEN counter + 1 ELSE counter
            /\ mc_pc' = IF iBlock = uiBlocks THEN "written" ELSE "loop"
            /\ UNCHANGED nt
    /\ iBlock' = IF bFailure /\ ~bFailure' THEN iBlock ELSE iBlock + 1
    /\ UNCHANGED <<present, arg, key_index, uiBlocks, mtDump, mtKeys, disk, stretched, runs>>

\* What a command line may say.
Args ==
    [tool : {"classic"}, act : {"read", "write"}, key : {"A", "B"}, keyfile : BOOLEAN, unlock : BOOLEAN, lock : {FALSE}, otp : {FALSE}]
    \cup [tool : {"ultralight"}, act : {"read", "write"}, key : {"A"}, keyfile : {FALSE}, unlock : {FALSE}, lock : BOOLEAN, otp : BOOLEAN]

MifareNext ==
    \/ \E c \in DOMAIN Deck \cup {0} : swap(c)
    \/ \E a \in Args : start(a)
    \/ first_select \/ unlock_card \/ save_dump \/ close_tool
    \/ next_sector \/ authenticate \/ read_block \/ write_block
    \/ read_pages \/ write_page

MifareSpec == MifareInit /\ [][MifareNext]_mifare_vars

-----------------------------------------------------------------------------
(* Properties                                                              *)

Blocks == 0..uiBlocks

\* A dump that read_card lets be saved is the card it was read from: every block of
\* data, and every trailer with its access bits and the key that was used.  Only a
\* trailer whose reading failed is zeros.  And for a card to be left with a sector
\* nobody can open it takes such a failure or a card of another size: main saves
\* zeros after the last block of a small card, and write_card writes them to a
\* larger one.
SavedIsCard ==
    /\ \A c \in DOMAIN card : card[c].kind # "UL" /\ mc_faults = 0 /\ ~stretched =>
          \A b \in DOMAIN card[c].blocks : is_trailer_block(b) => card[c].blocks[b][2] # 0
    /\ mc_pc = "saved" =>
      \A b \in Blocks :
        LET d == disk.blocks[b]
            c == card[nt].blocks[b]
            k == KeyAt[arg.key]
            trailer == Classic /\ is_trailer_block(b)
        IN \/ d = c
           \/ trailer /\ ~arg.unlock /\ d[2] = c[2] /\ d[k] = c[k]
           \/ trailer /\ d = Zero /\ mc_faults > 0

OnCard(b) == {c \in DOMAIN card : b \in DOMAIN card[c].blocks /\ card[c].blocks[b] = mtDump[b]}
Untold == IF Classic THEN IF arg.unlock THEN {} ELSE {0} ELSE {}

\* "Done, n of m blocks written": n blocks at least are on a card as the dump has
\* them, or were not to be written; and when all are counted, one card has them.
WrittenIsCounted ==
    mc_pc = "written" =>
      /\ counter <= Cardinality({b \in Blocks : OnCard(b) # {} \/ b \in Untold})
      /\ counter = uiBlocks + 1 => nt \in {c \in DOMAIN card : \A b \in Blocks \ Untold : c \in OnCard(b)}
=============================================================================
