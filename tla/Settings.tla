------------------------------ MODULE Settings ------------------------------
(***************************************************************************)
(* The properties of a device (nfc_device_set_property_bool) and the flags *)
(* with which libnfc remembers them: bCrc, bPar, bAutoIso14443_4,          *)
(* bEasyFraming, ui8TxBits and ui8Parameters.  A flag that already has the *)
(* requested value makes the property a no-op, so the flags have to agree  *)
(* with the chip through every failure.                                    *)
(*                                                                         *)
(* The module stands on RegisterFile, which the write-back cache           *)
(* implements: each symbol of a chip register the properties write is a    *)
(* register of the file.  Reg is the set of symbols observed.              *)
(***************************************************************************)
EXTENDS RegisterFile, Sequences

Symbol == {"TxCrc", "RxCrc", "ParityDisable", "TxLastBits", "Crypto1",
           "RxNoError", "RxMultiple", "TxFraming", "RxFraming", "TxSpeed", "RxSpeed"}

Property == {"CRC", "PARITY", "EASY_FRAMING", "FIELD", "CRYPTO1", "INFINITE_SELECT",
             "INVALID_FRAMES", "MULTIPLE_FRAMES", "AUTO_ISO14443_4",
             "FORCE_A", "FORCE_B", "FORCE_106"}

CONSTANTS InitChecked,  \* the driver's open function looks at pn53x_init's result
          Asked         \* the properties the application sets by itself

ASSUME SettingsAssumption ==
    /\ InitChecked \in BOOLEAN
    /\ Asked \subseteq Property
    /\ Reg \subseteq Symbol
    /\ Raw = {}
    /\ Volatile \subseteq {"Crypto1"}

VARIABLES bCrc, bPar, bAutoIso14443_4, bEasyFraming,  \* struct nfc_device
          ui8TxBits, ui8Parameters,                   \* struct pn53x_data
          parameters,    \* the flags the chip got with SetParameters
          open,          \* the device is open
          todo,          \* steps left of the call under way
          call,          \* the last API call
          failed,        \* history: a command has failed since the last open
          blind,         \* history: it was in pn53x_init, and the driver did not look
          rawBits,       \* history: a timed exchange has framed since ui8TxBits was written
          autoSet        \* history: NP_AUTO_ISO14443_4 has been set to TRUE since the last open

hostVars == <<bCrc, bPar, bAutoIso14443_4, bEasyFraming, ui8TxBits, ui8Parameters>>
vars == <<fileVars, hostVars, parameters, open, todo, call, failed, blind, rawBits, autoSet>>

Param == {"AUTO_ATR_RES", "AUTO_RATS", "14443_4_PICC"}

\* A step of a call: set a property, set or clear a flag of SetParameters and
\* ignore how that ends, reset the settings, send a command of kind p, send one
\* and ignore how it ends, or send the frame of a timed exchange.
Set(p, b) == [op |-> "set", p |-> p, b |-> b]
Parameter(p, b) == [op |-> "param", p |-> p, b |-> b]
Reset == [op |-> "reset", p |-> "none", b |-> TRUE]
Send(p) == [op |-> "send", p |-> p, b |-> TRUE]
Try(p) == [op |-> "try", p |-> p, b |-> TRUE]
Frame(p) == [op |-> "frame", p |-> p, b |-> TRUE]

-----------------------------------------------------------------------------
(* The calls, as the steps they take                                       *)

\* The firmware is asked for its version, then told the parameters.
pn53x_init == <<Send("firmware"), [op |-> "SetParameters", p |-> "none", b |-> TRUE], Reset>>

\* mutant: automatic RATS is left as the last caller wanted it
nfc_initiator_init_MutNoAuto ==
    <<Set("FIELD", FALSE), Set("FIELD", TRUE), Set("INFINITE_SELECT", TRUE),
      Set("FORCE_A", TRUE), Set("FORCE_106", TRUE),
      Set("INVALID_FRAMES", FALSE), Set("MULTIPLE_FRAMES", FALSE), Reset>>

nfc_initiator_init ==
    <<Set("FIELD", FALSE), Set("FIELD", TRUE), Set("INFINITE_SELECT", TRUE),
      Set("AUTO_ISO14443_4", TRUE), Set("FORCE_A", TRUE), Set("FORCE_106", TRUE),
      Set("INVALID_FRAMES", FALSE), Set("MULTIPLE_FRAMES", FALSE), Reset>>

\* The kinds of emulated target pn53x_target_init tells apart on a PN532: an
\* ISO14443A tag with or without ISO14443-4, a FeliCa tag, a DEP target.
nfc_target_init_params(kind) ==
    CASE kind = "14443_4" -> <<Parameter("AUTO_ATR_RES", FALSE), Parameter("14443_4_PICC", TRUE)>>
      [] kind = "14443_3" -> <<Parameter("AUTO_ATR_RES", FALSE), Parameter("14443_4_PICC", FALSE)>>
      [] kind = "felica"  -> <<>>
      [] kind = "dep"     -> <<Parameter("AUTO_ATR_RES", TRUE)>>

nfc_target_init(kind) ==
    <<Set("INVALID_FRAMES", FALSE), Set("MULTIPLE_FRAMES", FALSE), Set("CRC", TRUE),
      Set("PARITY", TRUE), Set("AUTO_ISO14443_4", TRUE), Set("EASY_FRAMING", TRUE),
      Set("CRYPTO1", FALSE), Set("FIELD", FALSE), Reset>>
    \o nfc_target_init_params(kind) \o <<Send("command")>>

Call == [name : {"open", "close", "initiator_init", "target_init", "set_property",
                 "transceive"}, ok : BOOLEAN]
Named(n) == [name |-> n, ok |-> TRUE]

TypeOK ==
    /\ mem \in Registers /\ dirty \in Registers /\ doubt \in Registers
    /\ ret \in Result
    /\ bCrc \in BOOLEAN /\ bPar \in BOOLEAN
    /\ bAutoIso14443_4 \in BOOLEAN /\ bEasyFraming \in BOOLEAN
    /\ ui8TxBits \in Value
    /\ ui8Parameters \subseteq Param /\ parameters \subseteq Param
    /\ open \in BOOLEAN
    /\ call \in Call
    /\ failed \in BOOLEAN /\ blind \in BOOLEAN
    /\ rawBits \in BOOLEAN /\ autoSet \in BOOLEAN

\* nfc_device_new clears its flags; pn53x_data_new leaves ui8TxBits and
\* ui8Parameters as malloc returned them; the chip may hold anything.
Init ==
    /\ FileInit
    /\ bCrc = FALSE /\ bPar = FALSE /\ bAutoIso14443_4 = FALSE /\ bEasyFraming = FALSE
    /\ ui8TxBits \in Value
    /\ ui8Parameters \in SUBSET Param
    /\ parameters \in SUBSET Param
    /\ open = TRUE
    /\ todo = pn53x_init
    /\ call = Named("open")
    /\ failed = FALSE /\ blind = FALSE
    /\ rawBits = FALSE /\ autoSet = FALSE

Step == Head(todo)

On(b) == IF b THEN Bit ELSE {}

\* The step writes CIU_BitFraming through pn53x_write_register.
WritesBits == Step.op = "reset" \/ (Step.op = "txbits" /\ ui8TxBits # On(Step.p = "bits"))
Histories ==
    /\ rawBits' = (Step.op = "frame" \/ (rawBits /\ ~WritesBits))
    /\ autoSet' = (autoSet \/ Step = Set("AUTO_ISO14443_4", TRUE))

\* The step under way ends: the call goes on, or returns.  A driver whose open
\* function ignores the result of pn53x_init returns the device all the same.
Next_step ==
    /\ todo' = Tail(todo)
    /\ blind' = (blind /\ Step.op # "reset")
    /\ Histories
    /\ UNCHANGED <<call, open>>
Return_error ==
    /\ todo' = <<>>
    /\ call' = [call EXCEPT !.ok = (call.name = "open" /\ ~InitChecked)]
    /\ open' = (call.name = "open" => ~InitChecked)
    /\ blind' = (blind \/ (call.name = "open" /\ ~InitChecked))
    /\ Histories

-----------------------------------------------------------------------------
(* Registers and commands                                                  *)

\* pn53x_write_register on each observed symbol of w: a write to a cached
\* register is buffered and never fails.
Write(w) ==
    /\ mem' = [r \in AllReg |-> IF r \in DOMAIN w THEN w[r] ELSE mem[r]]
    /\ dirty' = [r \in AllReg |-> IF r \in DOMAIN w THEN Bit ELSE dirty[r]]
    /\ doubt' = [r \in AllReg |-> IF r \in DOMAIN w THEN {} ELSE doubt[r]]
    /\ ret' = Success({})

\* A command reaches the chip, after everything buffered.
Sent ==
    /\ mem' \in Registers
    /\ \A r \in AllReg \ Volatile : mem'[r] = mem[r]
    /\ dirty' = None
    /\ UNCHANGED doubt

command_ok == Sent /\ ret' = Success({}) /\ UNCHANGED failed
\* The write-back before the command failed, or the command itself.
command_lost == Fail /\ failed' = TRUE
command_fail == Sent /\ ret' = Failure /\ failed' = TRUE

-----------------------------------------------------------------------------
(* pn53x_set_property_bool                                                 *)

\* "Nothing to do": the property already has the value, or only TRUE counts.
Nothing(p, b) ==
    \/ p = "CRC" /\ b = bCrc
    \/ p = "PARITY" /\ b = bPar
    \/ p = "AUTO_ISO14443_4" /\ b = bAutoIso14443_4
    \/ p \in {"FORCE_A", "FORCE_B", "FORCE_106"} /\ ~b

\* mutant: only the transmitter is told about the CRC
Symbols_MutTxOnly(p, b) ==
    CASE p = "CRC" -> [r \in {"TxCrc"} |-> On(b)]
      [] p = "PARITY" -> [r \in {"ParityDisable"} |-> On(~b)]
      [] p = "CRYPTO1" -> [r \in {"Crypto1"} |-> On(b)]
      [] OTHER -> [r \in {} |-> {}]

Symbols(p, b) ==
    CASE p = "CRC" -> [r \in {"TxCrc", "RxCrc"} |-> On(b)]
      [] p = "PARITY" -> [r \in {"ParityDisable"} |-> On(~b)]
      [] p = "CRYPTO1" -> [r \in {"Crypto1"} |-> On(b)]
      [] p = "INVALID_FRAMES" -> [r \in {"RxNoError"} |-> On(b)]
      [] p = "MULTIPLE_FRAMES" -> [r \in {"RxMultiple"} |-> On(b)]
      [] p = "FORCE_A" -> [r \in {"TxFraming", "RxFraming"} |-> {}]
      [] p = "FORCE_B" -> [r \in {"TxFraming", "RxFraming"} |-> Bit]
      [] p = "FORCE_106" -> [r \in {"TxSpeed", "RxSpeed"} |-> {}]

InRegisters == {"CRC", "PARITY", "CRYPTO1", "INVALID_FRAMES", "MULTIPLE_FRAMES",
                "FORCE_A", "FORCE_B", "FORCE_106"}

set_nothing ==
    /\ todo # <<>> /\ Step.op = "set"
    /\ Nothing(Step.p, Step.b)
    /\ Next_step
    /\ UNCHANGED <<fileVars, hostVars, parameters, failed>>

set_register ==
    /\ todo # <<>> /\ Step.op = "set"
    /\ Step.p \in InRegisters /\ ~Nothing(Step.p, Step.b)
    /\ Write(Symbols(Step.p, Step.b))
    /\ bCrc' = IF Step.p = "CRC" THEN Step.b ELSE bCrc
    /\ bPar' = IF Step.p = "PARITY" THEN Step.b ELSE bPar
    /\ Next_step
    /\ UNCHANGED <<bAutoIso14443_4, bEasyFraming, ui8TxBits, ui8Parameters, parameters, failed>>

set_easy_framing ==
    /\ todo # <<>> /\ Step.op = "set" /\ Step.p = "EASY_FRAMING"
    /\ bEasyFraming' = Step.b
    /\ Next_step
    /\ UNCHANGED <<fileVars, bCrc, bPar, bAutoIso14443_4, ui8TxBits, ui8Parameters, parameters, failed>>

\* NP_ACTIVATE_FIELD and NP_INFINITE_SELECT are commands of their own.
set_command ==
    /\ todo # <<>> /\ Step.op = "set" /\ Step.p \in {"FIELD", "INFINITE_SELECT"}
    /\ \/ command_ok /\ Next_step
       \/ (command_lost \/ command_fail) /\ Return_error
    /\ UNCHANGED <<hostVars, parameters>>

\* pn53x_SetParameters with the value v: remembered only if the command succeeds.
SetParameters_ok(v) ==
    /\ command_ok
    /\ parameters' = v
    /\ ui8Parameters' = v

SetParameters_fail(v) ==
    /\ \/ command_lost /\ UNCHANGED parameters
       \/ command_fail /\ parameters' \in {parameters, v}
    /\ UNCHANGED ui8Parameters

With(p, b) == IF b THEN ui8Parameters \cup {p} ELSE ui8Parameters \ {p}

\* NP_AUTO_ISO14443_4: the flag is set before pn53x_set_parameters is called,
\* and is not taken back when that fails.
set_auto ==
    /\ todo # <<>> /\ Step.op = "set" /\ Step.p = "AUTO_ISO14443_4"
    /\ ~Nothing(Step.p, Step.b)
    /\ bAutoIso14443_4' = Step.b
    /\ LET v == With("AUTO_RATS", Step.b) IN
         \/ /\ v = ui8Parameters
            /\ Next_step
            /\ UNCHANGED <<fileVars, ui8Parameters, parameters, failed>>
         \/ v # ui8Parameters /\ SetParameters_ok(v) /\ Next_step
         \/ v # ui8Parameters /\ SetParameters_fail(v) /\ Return_error
    /\ UNCHANGED <<bCrc, bPar, bEasyFraming, ui8TxBits>>

-----------------------------------------------------------------------------
(* The other steps                                                         *)

\* pn53x_set_parameters as pn53x_target_init calls it, with no look at the
\* result.
set_parameters ==
    /\ todo # <<>> /\ Step.op = "param"
    /\ LET v == With(Step.p, Step.b) IN
         \/ v = ui8Parameters /\ UNCHANGED <<fileVars, ui8Parameters, parameters, failed>>
         \/ v # ui8Parameters /\ (SetParameters_ok(v) \/ SetParameters_fail(v))
    /\ Next_step
    /\ UNCHANGED <<bCrc, bPar, bAutoIso14443_4, bEasyFraming, ui8TxBits>>

\* pn53x_init: the parameters cannot be read, so they are sent.
init_parameters ==
    /\ todo # <<>> /\ Step.op = "SetParameters" /\ call.name = "open"
    /\ LET v == {"AUTO_ATR_RES", "AUTO_RATS"} IN
         \/ SetParameters_ok(v) /\ Next_step
         \/ SetParameters_fail(v) /\ Return_error
    /\ UNCHANGED <<bCrc, bPar, bAutoIso14443_4, bEasyFraming, ui8TxBits>>

\* pn53x_reset_settings: writes to cached registers only, so nothing can fail.
\* The transmission bits are written whatever ui8TxBits says.
reset_symbols ==
    {"TxLastBits", "Crypto1"} \cup (IF bCrc THEN {} ELSE {"TxCrc", "RxCrc"})
                              \cup (IF bPar THEN {} ELSE {"ParityDisable"})

reset_settings ==
    /\ todo # <<>> /\ Step.op = "reset"
    /\ Write([r \in reset_symbols |-> IF r \in {"TxCrc", "RxCrc"} THEN Bit ELSE {}])
    /\ ui8TxBits' = {}
    /\ bCrc' = TRUE /\ bPar' = TRUE /\ bEasyFraming' = TRUE
    /\ Next_step
    /\ UNCHANGED <<bAutoIso14443_4, ui8Parameters, parameters, failed>>

\* A frame whose last byte has some bits only goes out after pn53x_set_tx_bits.
set_tx_bits ==
    /\ todo # <<>> /\ Step.op = "txbits"
    /\ LET bits == On(Step.p = "bits") IN
         \/ /\ ui8TxBits # bits
            /\ Write([r \in {"TxLastBits"} |-> bits])
            /\ ui8TxBits' = bits
         \/ ui8TxBits = bits /\ UNCHANGED <<fileVars, ui8TxBits>>
    /\ Next_step
    /\ UNCHANGED <<bCrc, bPar, bAutoIso14443_4, bEasyFraming, ui8Parameters, parameters, failed>>

send ==
    /\ todo # <<>> /\ Step.op = "send"
    /\ \/ command_ok /\ Next_step
       \/ (command_lost \/ command_fail) /\ Return_error
    /\ UNCHANGED <<hostVars, parameters>>

try ==
    /\ todo # <<>> /\ Step.op = "try"
    /\ command_ok \/ command_lost \/ command_fail
    /\ Next_step
    /\ UNCHANGED <<hostVars, parameters>>

\* The frame of a timed exchange goes to the FIFO with a WriteRegister of its own,
\* whose last write sets CIU_BitFraming past the cache and past ui8TxBits.
Framed(bits) ==
    /\ mem' \in Registers
    /\ \A r \in AllReg \ Volatile : mem'[r] = IF r = "TxLastBits" THEN bits ELSE mem[r]
    /\ dirty' = None
    /\ doubt' = [r \in AllReg |-> IF r = "TxLastBits" THEN {} ELSE doubt[r]]

frame ==
    /\ todo # <<>> /\ Step.op = "frame"
    /\ \/ /\ Framed(On(Step.p = "bits"))
          /\ ret' = Success({}) /\ UNCHANGED failed
          /\ Next_step
       \/ /\ \/ command_lost \/ command_fail
             \/ Framed(On(Step.p = "bits")) /\ ret' = Failure /\ failed' = TRUE
          /\ Return_error
    /\ UNCHANGED <<hostVars, parameters>>

-----------------------------------------------------------------------------
(* What the application calls                                              *)

Calls(c, steps) ==
    /\ open /\ todo = <<>>
    /\ call' = c
    /\ todo' = steps
    /\ UNCHANGED <<fileVars, hostVars, parameters, open, failed, blind, rawBits, autoSet>>

set_property_bool(p, b) == Calls(Named("set_property"), <<Set(p, b)>>)

initiator_init == Calls(Named("initiator_init"), nfc_initiator_init)

target_init(kind) == Calls(Named("target_init"), nfc_target_init(kind))

\* Bytes cannot be sent while the caller handles parity.
transceive_bytes ==
    /\ bPar
    /\ Calls(Named("transceive"), <<[op |-> "txbits", p |-> "bytes", b |-> TRUE], Send("bytes")>>)

\* After the frame, the number of bits received is read from the chip.
transceive_bits(p) ==
    Calls(Named("transceive"), <<[op |-> "txbits", p |-> p, b |-> TRUE], Send(p), Send("rcc")>>)

\* The timed exchanges: refused, with nothing changed, while the caller handles
\* parity or with easy framing, and bits also with the chip's CRC.  What polls the
\* FIFO and what reads the timer do not look at their result.
transceive_timed(p) ==
    /\ bPar /\ ~bEasyFraming
    /\ p = "bits" => ~bCrc
    /\ Calls(Named("transceive"), <<Frame(p), Try("level"), Send("fifo"), Try("timer")>>)

\* nfc_close ignores how nfc_idle ends; what was still buffered is lost.
close ==
    /\ open /\ todo = <<>>
    /\ \/ Sent /\ ret' = Success({})
       \/ Fail
    /\ open' = FALSE
    /\ call' = Named("close")
    /\ UNCHANGED <<hostVars, parameters, todo, failed, blind, rawBits, autoSet>>

\* mutant: the flags of the last session are kept
reopen_MutKeepFlags ==
    /\ ~open
    /\ open' = TRUE
    /\ todo' = pn53x_init
    /\ call' = Named("open")
    /\ failed' = FALSE /\ blind' = FALSE /\ rawBits' = FALSE /\ autoSet' = FALSE
    /\ UNCHANGED <<fileVars, hostVars, parameters>>

reopen ==
    /\ ~open
    /\ open' = TRUE
    /\ todo' = pn53x_init
    /\ call' = Named("open")
    /\ failed' = FALSE /\ blind' = FALSE /\ rawBits' = FALSE /\ autoSet' = FALSE
    /\ bCrc' = FALSE /\ bPar' = FALSE /\ bAutoIso14443_4' = FALSE /\ bEasyFraming' = FALSE
    /\ ui8TxBits' \in Value /\ ui8Parameters' \in SUBSET Param
    /\ UNCHANGED <<fileVars, parameters>>

Next ==
    \/ set_nothing \/ set_register \/ set_easy_framing \/ set_command \/ set_auto
    \/ set_parameters \/ init_parameters \/ reset_settings \/ set_tx_bits \/ send
    \/ try \/ frame
    \/ \E p \in Asked, b \in BOOLEAN : set_property_bool(p, b)
    \/ initiator_init
    \/ \E kind \in {"14443_4", "14443_3", "felica", "dep"} : target_init(kind)
    \/ transceive_bytes
    \/ \E p \in {"bytes", "bits"} : transceive_bits(p)
    \/ \E p \in {"bytes", "bits"} : transceive_timed(p)
    \/ close \/ reopen

Spec == Init /\ [][Next]_vars

-----------------------------------------------------------------------------
(* Properties                                                              *)

Idle == open /\ todo = <<>>
Returned(name) == Idle /\ call.name = name /\ call.ok

\* What the flags say of the symbols they stand for.
Wanted == [r \in Reg \cap {"TxCrc", "RxCrc", "ParityDisable", "TxLastBits"} |->
             CASE r \in {"TxCrc", "RxCrc"} -> On(bCrc)
               [] r = "ParityDisable" -> On(~bPar)
               [] r = "TxLastBits" -> ui8TxBits]

\* The flags that pn53x_set_property_bool and pn53x_set_tx_bits trust agree
\* with the chip, or with what waits to be sent to it: only a symbol that was
\* being written when a command failed may differ from its flag.  There are
\* three exceptions.  After an open function that did not see pn53x_init fail, the
\* flags agree once an init call of the application has come to
\* pn53x_reset_settings.  ui8TxBits does not follow the frames of the timed
\* exchanges, and agrees again when it is next written.  And bAutoIso14443_4, like
\* ui8Parameters, agrees as long as no command fails, but only once
\* NP_AUTO_ISO14443_4 has been set to TRUE: nfc_open leaves it FALSE with
\* automatic RATS on, and setting it to FALSE then does nothing.
FlagsMatch ==
    /\ TypeOK
    /\ open /\ ~blind /\ (call.name = "open" => todo = <<>>) =>
        /\ \A r \in DOMAIN Wanted :
              mem[r] \ doubt[r] = Wanted[r] \ doubt[r] \/ (r = "TxLastBits" /\ rawBits)
        /\ ~failed => /\ ui8Parameters = parameters
                      /\ autoSet => (bAutoIso14443_4 <=> "AUTO_RATS" \in parameters)

\* What the documentation of nfc_initiator_init says of the device.
InitiatorSettings ==
    /\ \A r \in Reg \ {"TxLastBits"} : mem[r] = On(r \in {"TxCrc", "RxCrc"})
    /\ "AUTO_RATS" \in parameters
    /\ bEasyFraming

\* As long as no command fails, nfc_initiator_init leaves the device as its
\* documentation says, whatever was called before it.
ReadyUnlessFailed == Returned("initiator_init") /\ ~failed => InitiatorSettings

\* A device that was closed and opened again starts from known settings, even
\* after failures: nfc_device_new clears the flags so that pn53x_reset_settings
\* really writes the registers.  It takes a failure of pn53x_init itself, which
\* pn532_uart_open and others do not look at, to get a device of which that is not so.
ReopenHeals ==
    Returned("open") /\ ~blind =>
        /\ \A r \in DOMAIN Wanted : doubt[r] = {} /\ mem[r] = On(r \in {"TxCrc", "RxCrc"})
        /\ bCrc /\ bPar
=============================================================================
