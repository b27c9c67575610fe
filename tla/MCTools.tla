------------------------------- MODULE MCTools -------------------------------
(* One tool is run.  Sectors of two blocks, and of four from block 4 on.     *)
EXTENDS MifareTools, Emulation, Relay, TLC
D(n) == <<n, n, n>>
Classic1K == 0 :> D(10) @@ 1 :> <<2, 1, 3>> @@ 2 :> D(12) @@ 3 :> <<1, 2, 9>>
Magic4K == 0 :> D(20) @@ 1 :> <<1, 1, 1>> @@ 2 :> D(22) @@ 3 :> <<1, 1, 9>> @@ 4 :> D(24) @@ 5 :> D(25) @@ 6 :> D(26) @@ 7 :> <<9, 1, 2>>
Light == [b \in 0..7 |-> D(IF b = 2 THEN 0 ELSE 30 + b)]
Mini == 0 :> D(40) @@ 1 :> <<1, 1, 1>>
MCDeck == 1 :> [kind |-> "1K", magic |-> FALSE, blocks |-> Classic1K]
       @@ 2 :> [kind |-> "4K", magic |-> TRUE, blocks |-> Magic4K]
       @@ 3 :> [kind |-> "UL", magic |-> FALSE, blocks |-> Light]
       @@ 4 :> [kind |-> "Mini", magic |-> FALSE, blocks |-> Mini]
New == [b \in 0..7 |-> IF b \in {1, 3, 7} THEN <<3, 1, 2>> ELSE D(50 + b)]
MCFiles == [tool : {"classic"}, blocks : {New, [New EXCEPT ![0] = D(99)]}, last : {7}]
           \cup {[tool |-> "ultralight", blocks |-> [b \in 0..7 |-> D(70 + b)], last |-> 7]}
MCKeyFile == [b \in 0..7 |-> IF b \in DOMAIN Classic1K THEN Classic1K[b] ELSE Magic4K[b]]
MCKeys == <<1, 2, 3>>
MCLastBlock == "Mini" :> 1 @@ "1K" :> 3 @@ "4K" :> 7 @@ "UL" :> 7
\* Bytes are below 3 and ndef_file has 7: lengths 3 and 7 need both bytes, 7 does not fit.
MCMessages == {<<1>>, <<1, 2, 1>>, <<2, 2, 2, 2, 2, 2, 2>>}
MCStrays == {<<>>, <<2>>, <<0, 2, 1>>}
VARIABLE tool
MCInit ==
    /\ MifareInit /\ EmulationInit /\ RelayInit /\ tool \in {"mifare", "emulate", "relay"}
    /\ tool # "mifare" => present = 1 /\ disk = NoFile
    /\ tool # "emulate" => type4v = 1 /\ ndef_file_len = 3
    /\ tool # "relay" => split
MCNext ==
    \/ tool = "mifare" /\ MifareNext /\ UNCHANGED <<tool, em_vars, relay_vars>>
    \/ tool = "emulate" /\ EmulationNext /\ UNCHANGED <<tool, mifare_vars, relay_vars>>
    \/ tool = "relay" /\ RelayNext /\ UNCHANGED <<tool, mifare_vars, em_vars>>
=============================================================================
