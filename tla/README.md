# A TLA+ model of libnfc

libnfc lets a program talk to NFC readers and tags through a PN53x chip. The
interesting part of it is not any single exchange but what happens around the
exchanges: register writes that are buffered and sent later, flags that say what
the chip was told, a serial line on which answers come late, a second thread that
aborts a blocked call, and the modes (initiator, target, idle) that a session goes
through in any order, with any command failing half-way.

This directory models that core, checks it with TLC on small instances, and proves
the safety properties of most of it with TLAPS for instances of any size: the register
cache and its abstract specification, the framing of bits, the settings, the session, the
USB and ACR122 drivers, discovery, the relay and the emulated tag.

## 1. The system and its parts

| Part | State it keeps | Operations | What is hard about it |
|---|---|---|---|
| Write-back cache (`chips/pn53x.c`) | `wb_data`, `wb_mask`, `wb_trigged` | `pn53x_write_register`, `pn53x_writeback_register`, `pn53x_read_register`, the head of `pn53x_transceive` | two exchanges before every command, each may fail; the trigger is cleared before they succeed |
| PN532 on a serial line (`drivers/pn532_uart.c`, `buses/uart_posix.c`, `pn53x_transceive`) | `power_mode`, `last_command`, the abort pipe, the bytes on the line | send, wake up, ACK, receive, abort | late replies, lost frames, time-outs, an abort from another thread, a transceive nested in a send |
| Properties and settings (`pn53x_set_property_bool`, `pn53x_init`, `pn53x_reset_settings`, `nfc.c`) | `bCrc`, `bPar`, `bAutoIso14443_4`, `bEasyFraming`, `ui8TxBits`, `ui8Parameters` | set a property, initialise as initiator or target, send bits or bytes, open, close | a flag that has the requested value turns a request into a no-op, so it must agree with the chip |
| Session (`nfc.c`, `chips/pn53x.c`) | `operating_mode`, `current_target`, `sam_mode`, `power_mode` | the `nfc_initiator_*`, `nfc_target_*` and `nfc_idle` calls | any order of calls, failures in the middle, a target that leaves |
| PN53x over USB (`drivers/pn53x_usb.c`) | `abort_flag`, the packets of the endpoints | open, close, send, receive, abort | time-outs cut in slices, a flag shared between threads, a NACK that asks for a second copy, packets an earlier program left |
| Frames of bits (`pn53x_wrap_frame`, `pn53x_unwrap_frame`, the `*_bits` functions) | positions in two buffers | two loops | parity bits straddle byte boundaries; the length is split in bytes and bits and put together again |
| ARYGON and ACR122S (`drivers/arygon.c`, `drivers/acr122s.c`) | `seq`, `last_command`, the abort pipe | open, close, send, receive, abort | a microcontroller that acknowledges for itself; a transceive nested in an abort; descriptors closed by number |
| ACR122 over USB and PC/SC (`drivers/acr122_usb.c`, `drivers/acr122_pcsc.c`) | `abort_flag`, `last_command`, the saved answer | open, close, send, receive, abort | nothing is acknowledged or flushed; stopping the chip is a command with an answer of its own |
| Discovery (`nfc_list_devices`, `nfc_open`, `nfc_close`, `uart_open`, `acr122_pcsc_get_scardcontext`) | the caller's array, the claim in a port's terminal settings, a reference count | list, open, close in several processes | a claim that is read and then set; errors half-way; processes that die |
| Targets (`nfc_initiator_select_passive_target`, `nfc_initiator_list_passive_targets`, `pn53x_decode_target_data`, `pn53x_target_init`) | an `nfc_target` as memory, the caller's array | select, list, poll, become a target | seven layouts of one union compared as memory; lengths that wrap; tables that must agree |
| Clocks (`pn53x_set_property_int`, the `*_timed` functions) | `timeout_atr`, `timeout_communication`, the FIFO | set a time-out, a timed exchange | a FIFO read while the card sends |
| Tools that keep state (`nfc-mfclassic.c`, `nfc-mfultralight.c`, `nfc-emulate-forum-tag4.c` with `nfc-emulation.c`, `nfc-relay-picc.c`) | a dump, an NDEF file, lines between processes | read, write, unlock; emulate; relay | a failure or another card between two blocks; a reader that leaves in the middle of a message; two processes that wait for each other |

How they interact: an application calls `nfc.c`, which calls the driver's table;
for every driver here these are the functions of `chips/pn53x.c`. They write
registers through the cache and send commands with `pn53x_transceive`, which first
empties the cache and then calls `io->send` and `io->receive` of the driver.
`nfc_abort_command` is the only call meant for another thread. The tools are
applications of the same interface.

What makes each part correct: a command runs under every register value written
before it (cache); the answer a call returns is the chip's answer to that call, and
every call with a time-out returns (line, USB); what one device sends another receives,
bit by bit (frames); the flags tell the truth about the chip
(settings); `nfc_idle` leaves the device at rest and `current_target` is the target
the chip has (session); a port has one user, and what is listed is there and can be
opened (discovery); what is returned as found was read from a card that is there
(targets); what a tool saves is what was on the card or a message that was complete
(tools).

`PROJECT.json` lists the parts under `components` and what is hard to test in them
under `hazards`, each with the properties that would show it going wrong.

## 2. The modules

| Module | Models | Abstraction of data |
|---|---|---|
| `RegisterDefs` | constants and operators shared by the next three | a register is a set of bits that are 1; a mask is a set of bits |
| `RegisterFile` | the abstract specification of the registers as callers see them: a write takes effect at once, a command runs under all of them, an error puts in doubt the bits it carried | |
| `WriteBack` | the cache, one action per exchange of a transceive, each with its failures | |
| `Pn532Uart` | one transceive after another over the PN532 UART driver, with the chip, the line and an aborting thread | a frame is a record: its kind and the call it belongs to |
| `UartProofs` | theorems about `Pn532Uart` | |
| `Pn53xUsb` | one transceive after another over the USB driver, from the opening of the device, with the chip, its endpoints and an aborting thread | a packet is a record: its kind and the call it belongs to; time in units of 100 ms |
| `Pn53xUsbProofs` | theorems about `Pn53xUsb` | |
| `Framing` | a frame wrapped by one device and unwrapped by another, one action per iteration of a loop | a buffer is a function from bit positions to symbols |
| `Settings` | the properties and the calls that set several of them, on top of `RegisterFile` | one bit for each register symbol; parameters are a set of flags |
| `SettingsProofs` | theorems about `Settings` | |
| `Session` | the calls of an application and the state they leave | targets are model values; a call is one action with every outcome |
| `SerialReaders` | one transceive after another over the ARYGON or the ACR122S, from open to close, with the reader, the line and an aborting thread | a frame is a record: its kind and the call it belongs to |
| `SerialProofs` | theorems about `SerialReaders` | |
| `Acr122` | the same over the ACR122 on USB (two models) and on PC/SC (two protocols) | a packet is a record; time in passes of 200 ms |
| `Acr122Proofs` | theorems about `Acr122` | |
| `Discovery` | several processes that list, open and close the devices of one machine, through all six drivers | a connection string is a driver and a place |
| `DeviceProofs` | theorems about `WriteBack` and `Discovery` | |
| `Targets` | selecting, listing and polling for targets, and `pn53x_target_init`, with the cards in the field | a card has a technology, a length of UID, an optional part and a first byte; an `nfc_target` is a function on cells |
| `Timing` | the time-outs told to the chip, and the timed exchanges | the bytes of an answer are 1, 2, 3... |
| `FramingProofs` | theorems about `Framing`, `Timing` and `Targets`, the parts that move bytes | |
| `MifareTools` | `nfc-mfclassic` and `nfc-mfultralight` with the cards | a block is three numbers; in a trailer key A, access bits, key B |
| `Emulation` | `nfc_emulate_target` with `nfc-emulate-forum-tag4`, and a reader | an APDU is an instruction, an offset and bytes |
| `Relay` | `nfc-relay-picc`, in one process or in two | a line is its tag |
| `SessionProofs` | theorems about `Session`, `MifareTools`, `Emulation` and `Relay`: what an application is left with, and the tools that call the library | |
| `MC...` | the instances for TLC; `MCTargets` runs `Targets`, `Timing` or `Framing`, `MCTools` one of the three tools | |

`Settings` extends `RegisterFile` rather than repeating the cache: what it assumes of
the registers is what `WriteBack` is proved to implement. `Session` abstracts the
line to "succeeds, or fails before or after the chip acted", the outcomes that
`Pn532Uart`, `Pn53xUsb`, `SerialReaders` and `Acr122` produce. `Targets`, `Timing`,
`MifareTools` and `Emulation` do the same.

### WriteBack

`pc` says which exchange of `pn53x_transceive` is under way: the ReadRegister of
`pn53x_writeback_register`, its WriteRegister, or the command itself. `transceive`
clears the trigger first, as the code does. `readback_ok` completes partial masks and
drops the registers whose value would not change; `writeback_ok` and `writeback_fail`
reset the masks while the command is built, so after a failure the writes are gone
from the cache whether or not the chip took them. A failing write may take effect for
any subset of the registers. Registers outside the cached range go through `modify`
and `store`, the read and the write of a direct `pn53x_write_register`. On a PN532 UART an
aborted exchange is reported as a success with no bytes, and the callers read buffers that
nobody filled: `readback_abort` merges any value under the pending bits, as line 677 then does,
`modify_abort` likewise, and `writeback_abort` and `store_abort` let the caller believe that a
write was made. Whole registers are in `doubt` after that. `dirty` and
`doubt` are history variables; no action reads them.

### Pn532Uart

`pc` is the place of the innermost transceive: flushing and waking (`send`), sending the frame
after the nested `SAMConfiguration` (`frame`), waiting for the ACK, waiting for the first bytes of
the reply, waiting for the rest of one that broke off (`rest`). Only the first of the
`uart_receive` calls that read a reply watches the abort pipe, so `rest` is left by a time-out or
by what the next frame brings (`receive_rest`), or never. `wire` holds frames from the chip,
arrived or still under way: a flush drops what has arrived, that is any prefix, and can cut a
frame in two. `tx` holds what the chip has not yet taken. An abort is two steps, closing the pipe
and creating the next one; the receiver reads the descriptor when it begins to wait, so
`signalled` is set only for a receiver that waits, or begins to wait between the two steps. After
an abort no bytes were received and the status byte of the reply is read from a buffer nobody
wrote: `GarbageStatus` allows each outcome, `abort()` included. `hasty` is a history variable:
some call began before the chip had finished with the one before. The chip and the line are
external, modelled from how the driver uses them.

### Pn53xUsb

`stage` says what the transceive is for: the dummy GetFirmwareVersion of
`pn53x_usb_init`, the two commands of `pn53x_init`, the application's calls, or the
commands of `pn53x_idle` while the device is closed (one stands for all). `pc` is its
place: reading the packet that should be an ACK (`ack`), at the label `read:` of
`pn53x_usb_receive` (`pass`), in the bulk read of a pass (`read`). `remaining_time` and
`usb_timeout` are the local variables of that function; they are reset when it returns.
Nothing in the driver discards packets, so `in` starts with whatever an earlier program
left there, `run` with the command it left running. The chip is external: a frame ends the command
under way, an ACK from the host too, a NACK has the last reply sent again. Following the
driver's own comment at `pn53x_usb.c:495`, a frame that interrupts a command may be
answered without an ACK. `waited`, `failed` and `ended` are history variables: `failed` is
a call that failed since `pn53x_usb_open` handed out the device, or an opening that found
a message the chip had not taken or more than two packets nobody had read.

### Framing

`frame` is the air frame in the order of transmission, so that `mirror()` and the shifts
of the code become moves of positions: `Wrapped` is the two bytes an iteration of
`pn53x_wrap_frame` stores. `pbtFrame` is the byte its pointer is at; in
`pn53x_unwrap_frame`, whose pointer moves once in eight bytes, the offset it has added to
`uiDataPos`. `transmit` is what lies between: the bytes and the last bits given to one chip,
the ones the other reports, and the length recovered from them. The bits are symbols
(`Data(i, k)`, `Parity(i)`), so one behaviour stands for all contents.

### Settings

A call is a list of steps (`todo`), each a property, a parameter, a reset or a command,
so that a failure in the middle leaves exactly what the earlier steps did. The flags
change when the code changes them: `bCrc` when the write is buffered,
`bAutoIso14443_4` before the command, `ui8Parameters` after it. `ui8TxBits` and
`ui8Parameters` start as whatever `malloc` returned. `InitChecked` says whether the
driver's open function looks at the result of `pn53x_init` (`pn53x_usb_open` does;
`pn532_uart_open`, `arygon_open` and `acr122_pcsc_open` do not). `blind` is a history
variable: such an open did not see `pn53x_init` fail, and no later
`pn53x_reset_settings` has made up for it. A timed exchange is refused or sends a frame
(`frame`) whose last write sets CIU_BitFraming past the cache and past `ui8TxBits`; `rawBits`
remembers it until `ui8TxBits` is written again. `autoSet` remembers that
NP_AUTO_ISO14443_4 has been set to TRUE since the device was opened: before that
`bAutoIso14443_4` is FALSE while the chip has automatic RATS. `Asked` are the properties the
application sets by itself; the calls of the library set all of them. The aborts of `WriteBack`
are not in this module.

### Session

Each call is an action with all its outcomes. `Breaks` is a command that fails: the
chip is left in one of the states the call could have reached by then. `role` is what
the application was told, and restricts it to the documented order of calls. The first
command out of low VBat carries a nested SAMConfiguration (`Awake`), which overwrites
`sam_mode`. The ISO14443-B' family (`RawTag`) is selected with raw frames and never
becomes `current_target`. Nor does a target selected without an `nfc_target` to fill (`pnt` NULL, as
`nfc-mfclassic` does) or found by InAutoPoll: `unnamed` is set. An exchange whose
status byte has NAD or MI set ends the process in `abort()` (`chained`).

### SerialReaders

`io` chooses the driver as `nfc_open` does. `stage` says where `arygon_open` (reset of
the PN532, firmware version of the microcontroller, `pn53x_init`), `acr122s_open`
(firmware version, powering the SAM, `pn53x_init`) or a close stands; `After` is what each
makes of a failure. `pc` is the request under way: waiting for its acknowledgement or for
its answer, of which the first bytes may have been read (`half`) when the rest was lost
(`cut_short`). On an ARYGON only the read of the first bytes watches the abort pipe; an answer
that begins like an extended frame ends the process (`gone`). `acr122s_receive` returns
NFC_EIO for a time-out too. The ARYGON's answer must name `last_command`; the ACR122S's must carry the
number of the request, and `seq` advances only in `recv_ack`. `aborted` is what follows a
closed pipe: on an ARYGON the dummy packet and a whole transceive of Diagnose, the call it
interrupts kept in `outer`; on an ACR122S nothing. `pipe_ok` is about descriptor
numbers: `uart_receive` closes the number it watched, `acr122s_abort_command` has by then
closed both ends and may have been given the same number for the new pipe. For the same reason
`select`, which watches a number, may not see an abort of an ACR122S at all. The reader is
external: a request ends the command under way, and a byte received badly makes the ARYGON
answer that it does not know the mode, which `arygon_tama_send` reads to its end and takes
for a success. `failed`, `hasty`, `lost` and `acked` are history variables; `failed` is not
forgotten when the device is closed and opened again, because `arygon_open` and `acr122s_open`
do not wait for what an earlier program left.

### Acr122

On USB `pc` is at the label `read:` of `acr122_usb_receive` (`pass`), in the bulk read
(`read`), in the read that follows GetResponse (`more`, a Touchatag), in an exchange of
`acr122_usb_init` (`raw`) or in the read of `acr122_usb_ack` (`stop`); `then` is what the
call returns after it. Over PC/SC an exchange is two synchronous calls: in T=1
the answer is saved by the first, in T=0 the reader holds it. Whatever the reader did before is gone
after `open`, which resets the USB device or connects anew. `unread` is a history variable: the
calls whose time-out, of one pass or less, ended them before their first read.

### Discovery

A process's `task` is its place in `nfc_list_devices` (`d` the driver, `i` the port, USB device or
reader it is at, `found` the array so far) or in `nfc_open`. All scans go from place to place, so
that other processes open and close devices between two places of one scan; the names of the PC/SC
readers are asked for once, when the scan of that driver begins. `uart_open` is two steps, because
the flag CCLAIMED is read by one system call and set by another; `uart_close` restores the
settings that were read, without the flag. A process may die at any step; the kernel frees
everything but the terminal settings. USB devices and PC/SC readers are claimed in the system,
which is external. `raced`, `lost`, `crashed` and `touched` are history variables that say when a
promise cannot be kept.

### Targets

`Answer` gives, for each technology, the bytes the chip passes on, and `decode` the parts of an
`nfc_target` that `pn53x_decode_target_data` writes (`Decoded` is the structure after it, cell by
cell); the optional parts leave their cells alone, so `nt`, which lives on the stack of the caller
and is filled again and again, keeps old bytes. The chips of `Tags` pass a UID on with its cascade
tags. Stripped in place (`abtUid`), one of twelve bytes has run over the ten of `abtUid` into
`szAtsLen`, and its last two bytes come from there. An ISO14443BI card of the long type has its
ATR copied up to the end of the buffer (`BufSize`). On a PN532 a command that was aborted succeeds
with no byte, and the count is what the stack held (`Rubbish`). A caller may give no `nfc_target`
(`size` 0). The loop of `nfc_initiator_list_passive_targets` is one action per iteration. The
ISO14443-B' family goes through `select_raw`, where the first byte of the answer is the result.
`auto_poll` is InAutoPoll on a PN532; `poll` and `poll_step` are the loop of selections of the
other chips, in which a time-out starts another round. `target_init_fails` is a TgInitAsTarget
that fails: after a time-out the result is that of `pn53x_idle`, 0. The tables of chips, firmware,
modulations and types of InAutoPoll are operators, related by `OfferedWorks`. Sizes wrap at
`SizeMod`, as `size_t` does in `pn53x_target_init`.

### Timing

`int_to_timeout` is the chain of comparisons of `pn53x_int_to_timeout`. A timed exchange is
one WriteRegister, a poll of the FIFO's level for a first byte, and one ReadRegister per
burst, while `receive_byte` fills the FIFO at any speed. `TimedRefuses` are the settings under which
it returns at once. If the level could not be read even once, `sz` is any of `Uninit`.

### MifareTools, Emulation, Relay

`MifareTools` has one action per block of `read_card` or `write_card` and keeps the local
variables they share (`bFailure`, `counter`, `key_index`). A command may fail on the air,
done or not; the user may change the card between any two commands, which is a fault only while a
tool is at work. A dump is always saved with the size of the largest card, zeros after the last block
of a smaller one; `stretched` remembers that such a dump was written to a larger card. `Emulation`
has the loop of `nfc_emulate_target` in three steps, receive, `nfcforum_tag4_io`, send, a reader
that writes messages the way the Type 4 specification prescribes, and one that updates anything
anywhere (`receive_stray`). Lengths are two bytes; a message may be longer than `ndef_file`, and what is
written past its end is `overrun`, what is read there `Beyond`. In `Relay` the
two processes share two pipes; `quitting` is looked at only where the loop comes round, and writing
to a process that has gone may end the writer.

## 3. The runs

| Run | Result | What it shows |
|---|---|---|
| `write_back` | pass | the cache keeps `CacheInv` and implements `RegisterFile`, every exchange failing at any point or being aborted and taken for a success |
| `uart` | pass | a foreign reply needs both a failed or aborted call and a caller that did not let the line settle (`StaleNeedsHaste`); the power mode is right until something fails; timed calls return; an abort that finds a call waiting for the first bytes of its reply ends it |
| `usb` | pass | whatever was left in the endpoint, up to two packets, an opened device is in step with its chip and answers its own calls until one fails; a call that times out has waited its time-out less one slice, and an abort ends no more than one call; as long as none has failed it does end the one under way, even without a time-out; timed calls return |
| `serial_readers` | pass | a foreign answer needs a failure and a hasty caller (on an ARYGON, or a second loss), and a request that was acknowledged never gets one; the chip behind an ARYGON drops an aborted command; timed calls, and those that see an abort, return or end the process, the nested transceive included |
| `acr122s_abort` | violation of `AbortsOneCall` | one `nfc_abort_command` on an ACR122S makes a later call fail too, though nothing on the line did: its descriptor was closed by the call that was aborted |
| `acr122` | pass | an opened reader answers its own calls until one fails, over PC/SC even then; however many calls time out or are aborted, at most one answer is left behind, and one more for each failed transfer and for each call too short to read at all; timed and aborted calls return |
| `discovery` | pass | a port has one user unless two processes were inside `uart_open` at once, and is not left claimed unless one died; the PC/SC context lives as long as a device needs it, and a failure costs at most one reference; lists fit, are right and miss nothing that was left alone; what is listed can be opened |
| `targets` | pass | a positive result was decoded from a card in the field, but on a PN532 that was aborted, and a UID asked for is the one selected; lists fit and miss no card; a card listed twice answered again and was decoded over another layout; what is offered is not refused; `nfc_target_init` writes at most one byte too many, and returns 0 with no byte only after a time-out; a timed exchange gives the answer in order; time-outs are those asked for; for every length of a frame, every bit of the air frame is in its place, and what is unwrapped is what was wrapped; at most one byte too many is written |
| `real_uid` | violation of `RealUid` | the UID of ten bytes of a card whose chip passes the cascade tags on is stored with two bytes of `szAtsLen` at its end |
| `settings` | pass | flags agree with the chip except for bits in doubt, for `ui8TxBits` after a timed exchange, and for automatic RATS before anybody asked for it; without failures `nfc_initiator_init` leaves the documented settings; reopening restores known settings even after failures, unless `pn53x_init` itself failed and the driver did not look; then the flags agree again from the next init call of the application on |
| `session` | pass | `nfc_idle` leaves the device at rest; the presence check is right when the last selection recorded its target; the process ends only through a null `current_target`, after a time-out or a release, or through a chained frame; `sam_mode` is the chip's |
| `tools` | pass | a saved dump is the card but for trailers whose reading failed; only a fault, or the dump of a smaller card, can close a sector; what is counted as written is on a card, and all of it on one; an emulated tag saves only complete messages, unless a reader wrote astray or the first one did not fit; a split relay waits for ever only after a failed exchange |

The type invariant of a module is a conjunct of one of its invariants (`TypeOK` in
`AwakeUnlessFailed`, `WaitsLessASlice`, `FlagsMatch`, `IdleAtRest`, `AbortStopsCommand`,
`OneBehind`, `ListRight`).

### Bounds and why they are enough

* `write_back`: one cached register of two bits that the chip also changes, and one
  register outside the range. Two bits give an empty, a partial and a full mask and a
  bit written next to one that was not. More registers are covered by the theorems.
* `uart`: three calls, because the longest scenario needs a call that fails, a second
  that meets what it left, and a third that meets what the second left; one abort; one
  loss, which covers a lost command, ACK, reply, a damaged frame or an I/O error; an
  exchange, a blocking `TgInitAsTarget` and a `PowerDown`, the commands the power mode
  depends on.
* `usb`: five calls, the three of opening and two of the application (or one and the
  close); up to two packets left over, among them a reply with the very code of the dummy
  command; one abort, one failing transfer. A slice is 2 units, `timeout_command` 3
  (one and a half slices, as 350 ms are nearly) and the longer time-out 5, so that a
  time-out is cut in one and in two passes, the last one shorter.
* `serial_readers`: six requests, the three of an open and three of the application (or
  two and a Diagnose, or a close); one abort, and two losses, because on an ARYGON the second
  one makes a difference (section 4). `acr122s_abort`
  needs one abort, no loss, and the call after it.
* `acr122`: eight messages, the three of opening and five more, so that a call that times
  out is followed by calls that meet what it left and are aborted in their turn; two
  aborts, one failing transfer; time-outs of three passes, of one, which ends before the first
  read, and none. An application may
  send the very command that stops the chip, whose answer then passes for its own.
* `discovery`: two processes, two calls in all besides the closes, one fault; devices of
  several drivers on two serial ports, the USB and PC/SC, and arrays of 2, 4 and 7, which
  overflow in the first driver, in a later one and not at all.
* `targets`: up to three cards of one technology, in every layout (UIDs of one, two and
  three cascade levels, with and without optional parts of up to two bytes, a first byte of 0,
  cards that are not quite what they answer to); arrays of 1
  and 4; five firmware answers, two of the chips (PN531, RC-S360) passing cascade tags on; a
  receive buffer of 3 with sizes modulo 16; a buffer of 12 bytes for target data, four more than the
  head of an ISO14443BI answer. For `Timing`,
  a FIFO of 2 and answers of up to 5 bytes, so that it must be read several times and may
  run over; an unassigned `sz` of 0, 2 and 130; time-outs at and next to the steps of the table.
  For `Framing`, 140 bits, two groups of eight bytes and a remainder, so that the byte the
  parity bits fill is skipped twice and every length modulo 8, 9 and 72 occurs. Longer
  frames are covered by the theorems. `real_uid` has the same cards and chips.
* `tools`: sectors of two blocks and of four from block 4 on, in place of 4 and 16 from 128, so
  that a card has sectors of both sizes; four cards, of the three Classic sizes and an Ultralight,
  one that can be unlocked; two runs of a tool, two faults. Bytes below 3 and a file of 7, so that
  a message of one byte has a length in one byte, one of three needs both, and one of seven does
  not fit; they are written two bytes at a time; one stray update. Three commands through the
  relay, one failure.
* `settings`: no bound on the number of calls; two symbols with a flag (`RxCrc`,
  `TxLastBits`), as symbols do not interact except through the commands that carry them
  all; of the properties kept in registers that are not observed the application sets one by itself
  (`Asked`), where the theorems have all; a driver that ignores `pn53x_init`, whose behaviours but for the failing open are
  those of one that does not.
* `session`: no bound on the number of calls; two ordinary targets so that one can be
  taken for the other, one of the ISO14443-B' family; two chip types, one of which polls
  with InAutoPoll. PN531 behaves like PN533 in everything modelled.

### Fairness

`uart`, `usb`, `serial_readers` and `acr122` check liveness. Weak fairness is assumed of
the host's own steps (a thread that can run does, and `select` or a bulk transfer with a
time-out returns), of the chip or reader taking what was sent (the serial or USB hardware
delivers) and, for the PN532 UART, of the second half of an abort. None is assumed of a
reply, of a loss or of an I/O error, and a call without a time-out has no step that ends it by
itself: that is what makes the abort properties worth checking. The requests that
`acr122s_open` and `arygon_open` make without a time-out are excluded from `CallReturns` for that
reason.

Deadlock is checked except where a bound on the calls ends the run, the call or the tool
has returned (`MCTools`) or the program has crashed (`Session`).

## 4. The proofs

`DeviceProofs` proves, for any sets of registers and bits:

* `Typing`: every reachable state of the cache is well typed;
* `CacheSafety`: `Spec => []CacheInv`;
* `CacheImplementsRegisterFile`: the cache implements `RegisterFile`, that is, with
  `mem` mapped to the pending bits over the chip's (`Mem`), its initial states are initial
  states of the file and every step is a step of the file or a stutter.

The only assumption is `RegisterAssumption` (cached and direct registers are disjoint,
volatile registers are registers, a register has at least one bit).

`CacheInv` is inductive, with the aborts that are taken for a success: such an abort puts in doubt
whole registers, those it carried and no other. "Nothing written is forgotten" is not by itself:
one has to know, exchange by exchange, what the masks mean. Between calls, a pending bit is one
that was written and not sent, or one whose write an error put in doubt (`PendingWhileCached`).
After the read-back, a mask is whole or empty; if empty the chip already has the value, and if
whole the bits nobody wrote have the chip's value (`PendingAfterReadback`), unless the reading was
aborted and the register is in doubt, so that writing the register back whole disturbs nothing.
When the command is sent, nothing is left that was written (`FlushedBeforeCommand`). For direct
writes, the value of the second half agrees with the chip outside the mask, but for bits in doubt
(`StoreInProgress`), and they are never pending (`RawNeverDirty`). The refinement then follows
action by action: `write_register`, `writeback_ok` and the commands are the file's steps, the
read-back is a stutter, because merging the chip's bits under the pending ones does not change
`Mem`.

It also proves, of `Discovery`, `DiscoveryInductive`, `OnePerPortHolds`, `ContextHeldHolds` and
`OpensListedHolds` for any processes, any machine and any number of calls, faults and
deaths. `OnePerPort` needs to know who is about to claim what: a port that a process has read as
free and not yet claimed is claimed by nobody and checked by no other, unless two raced
(`PortClaimed`), and devices and probes under way have their port open (`PortHeld`).
`OpensListed` needs that what is in use was already so when `nfc_open` began or was touched since
(`UseSeen`). `ListInductive` and `DevicesListRightHolds` are about `nfc_list_devices`. A place is
`Searched` once the scan of its driver has passed it; `ListInv` says that what is listed is
there, under its driver, once, and was searched (`FoundOK`), that unless the array is full or
something failed every searched place is listed, was seen in use or was not to be looked at
(`AllFound`), and that what is in use was so when the call began or was used since (`PlacesSeen`),
which is what excuses a port or device that a scan finds busy. A device added is new because its
place had not been searched (`SearchedNew`), and at the end every place is searched. The assumption
gives every place a driver or none, connects it where that driver looks, names no place twice, and
gives arrays at least one entry.

`FramingProofs` proves, for any `MaxBits`, that is for frames of any length:

* `FramingSafety`: the inductive invariant `FramingInv`;
* `WrapIsRight`, `UnwrapUndoesWrap`, `UnwrapStaysClose`: `FrameRight`, `RoundTrip` and
  `OneByteOver` always hold.

The only assumption is that `MaxBits` is a natural number. `FramingInv` has one part for
each value of `pc`. In the loops it is a linear relation between the positions: in
`pn53x_wrap_frame`, `8 * pbtFrame + uiBitPos = 9 * uiDataPos` (`InLoop`), in
`pn53x_unwrap_frame`, `8 * pbtFrame + uiBitPos = uiDataPos` (`InReverse`), with what has
been placed or received so far. From it follow both that the byte the parity bits fill is
skipped at the right moment and that the loops end at the right byte. `WrappedLength` and
`RecoveredLength` are the facts about the lengths: `n + n/8` loses a ninth to become `n`
again, and bytes and last bits determine the number of bits.

It also proves the two properties of `Timing` (`TimingSafety`, `TimedAnswerHolds`,
`TimeoutsNearHolds`), for answers of any length, a FIFO of any size and any time-outs, under
`TimingAssumption` (sets and sizes of natural numbers). The host reads the FIFO while the card
still fills it, so the invariant relates three places: until something fails or the FIFO runs
over, the caller's buffer followed by the FIFO is 1, 2, 3... up to the bytes sent (`BytesOK`), a
burst is no longer than the FIFO was when its level was read (`BurstOK`), and the chip was told the
codes of the present time-outs (`ToldOK`). `Codes` is `pn53x_int_to_timeout` as a table of
intervals; `CodeIsNear` follows from it case by case, for every natural number.

It proves the four properties of `Targets` too (`FoundIsDecodedHolds`, `TargetsListRightHolds`,
`OfferedWorksHolds`, `InitFitsHolds`, with the invariant of `TargetsInductive`), for any cards of
the seven technologies, any arrays, chips, receive buffers and number of faults.
`TargetsAssumption` says what a card is (a UID of a length its technology has, an optional part
that fits, two cards of one technology and length have different UIDs), that firmware answers have
two or four bytes and that sizes are small against `size_t`. Half of the argument is about the
codecs: the tags of a cascaded UID are found and stripped for 4, 7 and 10 bytes (`Cascaded...`),
of ten bytes the first eight are left (`Known`), what each branch of `decode` writes shows the
card that sent it, whatever was in the structure (`CardShown`), decoding over a card of the same
layout leaves nothing of it (`DecodedOver`), and no two cards leave the same memory (`ShownOnce`).
The other half is the loop of the listing: it goes on only while there is room and for cards that
were deselected (`Going`), `nt` is what the last card left in it (`JustFound`), cards of one
layout are stored as if the structure had been cleared (`Fresh`), so that a card that answers
again is found in the list unless another layout was in between (`Twice`), and the loop ends with
nobody left to answer (`ListDone`).

`SessionProofs` proves, for any targets and chip types and any sequence of calls, that
`SessionInv` is inductive (`SessionInductive`) and with it `IdleAtRest`,
`PresenceWhenListed`, `CrashOnlyOrphaned` and `SamUnlessFailed`. The assumption
`SessionAssumption` says that the ISO14443-B' targets are targets, that "no target" is none,
and names the chip types. The properties speak of what a call found; the invariant adds what
makes it so between the calls: the field is on only for an initiator (`FieldOfInitiator`), the
role the application was told is the mode of the device (`RoleMatches`), `current_target` and
the chip's selection agree unless the last target was not recorded (`TargetKnown`, `SelectedKnown`),
and the SAM mode is the chip's
wherever it is not excepted (`SamElsewhere`).

It also proves the tools correct. `RelayInductive` and `WaitNeedsFailureHolds`: for
any number of commands, until an exchange fails, the lines between the two processes are what is
left of the card's identity, or the one command under way or its answer (`OneLine`), and all
commands but that one were answered (`AllAnswered`, `InOrder`). `EmulationInductive` and
`SavedIsMessageHolds`: for any messages whose length has two bytes (`EmulationAssumption`), any size
of the file, of a byte and of the pieces and any number of frames, until a reader writes astray or
a message runs over the file, a file nobody writes is a whole message (`QuietFile`), one that is
being written has length 0 and the bytes written so far (`WrittenFile`).

`MifareInductive`, `SavedIsCardHolds` and `WrittenIsCountedHolds`: for any cards, files and keys,
any number of runs and faults. `MifareAssumption` says that the threshold is where a sector of
either size begins, that a Classic card ends with a trailer and an Ultralight with the last of
four pages, and that no card has access bits that close a sector to begin with; `FilesAssumption`
says the same of the files. A card that answers is the one the tool selected (`Placed`), so the
part of the dump already read is that card's (`ReadSoFar`). For the trailers the argument goes
round: without a fault and without a dump on a larger card (`stretched`) they can be read
(`Faultless`), so the dumps that are saved have valid ones (`DumpsValid`), so a card a dump is
written to keeps valid ones. The counter of `write_card` adds the size a sector has at the
counter's own value, which after a failure is behind the block: the invariant (`WrittenSoFar`) has
the first block of the sector that is not counted yet, the counter never ahead of it nor of the
blocks that are on a card, and equal to it only as long as no sector failed.

`SettingsProofs` proves `SettingsInductive`, `FlagsMatchHolds`, `ReadyUnlessFailedHolds` and
`ReopenHealsHolds` for any set of register symbols and any register width. A call is a list of
steps, and a flag may be wrong in the middle of one: the strengthening says of what is left of a
list (`TodoOK`: it is a suffix of the call's) what is already right. While `pn53x_init` runs the
flags are cleared, so every symbol will be written (`OpeningOK`); a device whose `pn53x_init`
failed unseen has flags that are cleared or true (`BlindOK`); otherwise they agree (`SettledOK`),
`ui8TxBits` unless a timed exchange framed since (`BitsMatch`), `bAutoIso14443_4` in one direction
always and in the other once automatic RATS was asked for (`AutoMatch`); and each step of
`nfc_initiator_init` leaves its part of the documented settings, which no later step takes back
(`InitiatorProgress`).

`UartProofs` proves `UartInductive`, `StaleNeedsHasteHolds` and `AwakeUnlessFailedHolds` for any
number of calls, aborts and losses, whichever of its commands the application uses and
whichever of them block (`LinkAssumption`). A flush drops any
prefix of the line, so what is known of the line has to hold of every suffix: the invariant
says what may stand behind what, never what is first. If callers waited for the line to settle, an
old answer can only come before the call's own acknowledgement, where it is not taken for
one; behind it is nothing but the call's own answer (`SettledOK`). Until a call fails, one
exchange is under way and the host knows the power of the chip (`SteadyOK`); the nested
SAMConfiguration is the top of a stack of at most two (`StackOK`).

`SerialProofs` proves `SerialInductive`, `ForeignNeedsHasteHolds` and `AbortStopsCommandHolds`
for any commands and any number of requests, opens, aborts and losses (`SerialAssumption`: the
application's commands are not those the drivers send by themselves, and those that block are
among them). Here the two drivers have some thirty steps, which are first brought to nine
shapes by what they do to the two directions of the line (`Steps`); each part of the
invariant is kept by each shape. Requests are numbered, the reader takes them in order and
its answers come in order (`Order`), so behind a request's own acknowledgement nothing of
an earlier one can come (`Own`), which is why an acknowledged request never returns a foreign
answer. Until a call fails there is one request under way (`Steady`); if callers wait, an old
answer comes before the acknowledgement (`Settled`), but for one case: a byte received badly makes
the ARYGON refuse a request, the send takes that for a success, and a blocking command that an
earlier loss left running answers in its place. That takes two losses (`Leftover`). While
the reader has an aborted command, a dummy packet or a request is behind it, both if nothing
was lost (`Stopped`). A reply that is cut short never passes for an answer: what comes next is
taken for the rest of it and refused.

`Acr122Proofs` proves `Acr122Inductive`, `OneBehindHolds` and `InStepUnlessFailedHolds` for any
commands, time-outs and number of calls, aborts and faults. The bound is not inductive
between the messages of a call: `BehindOK` allows one packet more while a call runs, and takes it
back when a read has come out empty, because then nothing older was left. `OwnAnswer` says what
is under way until a call fails: the command or its one answer; `PcscOK` that PC/SC never has
anything under way between two synchronous calls.

`Pn53xUsbProofs` proves `UsbInductive`, `WaitsLessASliceHolds` and `InStepUnlessFailedHolds`
for any commands, time-outs, slice and number of calls, aborts and faults. For the waits
(`WaitOK`), what a call has waited and has still to wait make its time-out less one slice.
That an opened device is in step is the longest argument here. SetParameters is the command
that gives the opening away: if its answer is its own, everything older was read before it. So
the invariant follows the old answers to SetParameters through the opening. They are within
the first three packets when the dummy command begins, the first two when the firmware
version is read, and gone when the answer to SetParameters is due (`Depth`, `StaleOK`), since
each exchange takes two packets from the front. Nothing sends them again: a NACK is behind
the frame of its own call (`NackOK`), a command that is still running is stopped by the
abort in front of it, and an acknowledgement or the silence of the chip says where the next
packets begin (`Settled`). Then, of the opening's own SetParameters, either its frame is still
on the way (`WaitingOK`) or its answer is the last thing in the endpoint (`TakenOK`), and when it is
read nothing else is left.

The assumptions of these proofs are those of the modules, which every run evaluates: sets
of the right elements, bounds that are natural numbers, a slice and a command time-out that are
not zero.

What the proofs corrected. Some properties held on the instances TLC explores and not in general.
On an ACR122, a call with a time-out of one pass writes its message and returns before the first
read, so such calls add up, each leaving an answer behind: `OneBehind` now counts them
(`unread`), and the run has such a time-out. On a PN53x over USB, an opening that
fails leaves packets too; after several of them the endpoint may hold more than two packets, among
them old answers to SetParameters, and the next opening can take one for its own and hand out a
device that is out of step. `InStepUnlessFailed` now speaks of openings that found at most two
packets, however they came to be there, and covers all of those. On the serial readers three
things had been hidden by the bounds: what a failed call leaves on the line outlives a close and
an open, so `failed` is no longer reset there; with a second loss a caller that waits can still be
given the answer of a blocking command on an ARYGON; and with both the dummy packet and Diagnose
lost an aborted command goes on. `ForeignNeedsHaste` and `AbortStopsCommand` now say so, and the
run allows two losses. For `Targets`, the cards of an instance had been chosen so that no two
had the same bytes; that is now an assumption, and the length of an optional part is a constant.
In `Discovery` the USB and PC/SC scans were one step each; they now look at one device at a time, as
the loops in the drivers do, and `usb_set_configuration` may fail in them.

Only model-checked:

* all liveness properties (`CallReturns`, `AbortUnblocks`, `AbortEndsCall`): the prover has no rule for
  fairness.

## 5. Further observations

What was met while modelling and no run is spent on. Most of it is visible in the models as
the exception in a property.

The line and the readers:

* `pn532_uart.c:283`: a reply that comes after its call timed out is taken by the next call
  with the same command code, if it comes after the flush: `hasty` in `StaleNeedsHaste`.
* `pn532_uart.c:482`: an abort that comes before the call waits for its reply is lost; hence
  `AbortUnblocks` asks for a call that waits.
* `pn532_uart.c:352`, `arygon.c:373`: only the first read of a reply watches the abort pipe, and the
  others use the call's time-out: a call without one that met a truncated reply never returns,
  aborted or not (`rest`, `half`).
* `acr122s.c:677`: both ends of the pipe are closed and made anew with the same numbers, so an abort
  can pass unseen by the `select` that watches by number. `acr122s.c:656` returns NFC_EIO for
  a time-out.
* `pn53x.c:677`: after an aborted ReadRegister, which counts as a success, bytes nobody wrote are
  merged into the registers and written back (`readback_abort`).
* `pn532_uart.c:263`: the result of `pn53x_init` is ignored: a device is handed out with
  unknown settings (`blind` in `ReopenHeals` and `FlagsMatch`).
* `arygon.c`: the reader's notice that it does not know the mode is returned as success of
  the send; the call then waits for an answer that does not come.
* `acr122s.c:212`: the number advances only when a request is acknowledged, so two requests
  may have the same one; the scan and the open wait for the SAM without a time-out.
* `acr122_usb.c:645`: a call that times out returns without stopping the chip, and every
  later call reads the packet of the one before (`OneBehind`).

Discovery:

* The connection strings `usb` and `pn53x_usb` without a place open the first device of the
  bus, whatever it is; the serial drivers refuse one without a place.
* A scan of the serial ports makes the abort pipe and never closes it.
* A reference on the PC/SC context is leaked by each call that fails half-way (`lost` in
  `ContextHeld`); a process that dies leaves its port claimed for everybody.

Settings and session:

* `pn53x.c:831`: after a failed write-back `bCrc` hides that the chip has no CRC, and a later
  successful `nfc_initiator_init` does not repair it (`doubt` in `FlagsMatch`).
* `pn53x.c:1970`: `nfc_target_init` that times out returns success with no
  `current_target`, which the next target call reads through (`CrashOnlyOrphaned`).
* `pn53x.c:1126`: a selection with `pnt` NULL, as `nfc-mfclassic.c:210` makes, leaves
  `current_target` as it was, and the presence check then asks for the target before
  (`unnamed` in `PresenceWhenListed`).
* `pn53x.c:213`: a NAD or a chained frame of the other side ends the process (`chained`).
* `pn53x.c:1505`: a timed exchange of bits leaves CIU_BitFraming set and `ui8TxBits` behind it; the next
  exchange that wants the old value writes nothing (`rawBits` in `FlagsMatch`).
* `pn53x.c:1187`: a target found by polling on a PN532 does not become `current_target`, and
  is reported as released (`PresenceWhenListed`).
* `pn53x.c:2256`: out of low VBat, initialising the secure element has its SAM mode
  overwritten by the nested SAMConfiguration (`drowsy` in `SamUnlessFailed`).

Targets and clocks:

* `pn53x.c:1091`: `(res = ... < 0)` makes a failed last read of an ISO14443B2CT the count 1,
  with an `nfc_target` in part unwritten (`Lost`); line 1129 has the same form.
* `pn53x.c:522`: for an ISO14443BI card of the long type the ATR is copied with the length of the whole
  buffer, because that of the answer (line 1084) is not stored: more than `abtAtr[33]` holds, and
  `szAtrLen` says so (`Shows`).
* `pn53x.c:475`: a UID of ten bytes loses its last two when its tags are stripped (run `real_uid`).
* `pn53x.c:2335`: on a PN532 that was aborted the number of targets is a byte nobody wrote (`Unread`).
* `nfc.c:480`: cells an earlier, longer answer left in the structure are compared too, so a
  card that answers again may be listed twice; an error of a selection ends the listing as if
  there were no more cards.
* `pn53x.c:2617`: the length is compared after it was reduced, so `nfc_target_init` copies
  one byte more than the buffer holds; and when there is nothing but the mode byte, the
  comparison wraps and gives NFC_EOVFLOW.
* `pn53x.c:1613`: nobody looks whether the FIFO's level could be read, and `sz` is used
  though no read set it; the answer is taken to be complete when the FIFO is empty for a
  moment (`early` in `TimedAnswer`).

Tools:

* `nfc-mfclassic.c:309`: a trailer that cannot be read is saved as zeros; written to a card, it
  closes the sector. Without a file of keys only the key that was used is saved, the other is
  zeros. A dump of a small card ends in zeros; written to a larger card it closes sectors though
  nothing failed (`stretched` in `SavedIsCard`). After a failure any card in the field is selected
  and written on, and the counter of blocks, not the block, decides the size of the sector it
  counts.
* `nfc-mfultralight.c:186`: a misplaced parenthesis makes `R` mean write. The lock bytes are
  written before the pages they lock: once the card is selected anew after a failure, the
  rest is refused.
* `nfc-emulate-forum-tag4.c`: UPDATE BINARY writes the NDEF file whichever file is selected; an
  update interrupted half-way leaves an empty file, and the old message is lost. Neither offset nor
  length of an update is checked (line 209), and the size check of line 254 lets in three sizes that
  do not fit `ndef_file` (`overrun`).
* `nfc-relay-picc.c:419-422`: the result is a comparison, and it is assigned to the length of
  the command, so answers are relayed with 0 bytes; after a failed exchange nothing
  is written back and a split relay waits for ever (`WaitNeedsFailure`).

Differences between comments and code:

* `nfc.c:841` says that an aborted function fails with an abort error; on a PN532 UART
  `pn532_uart_receive` returns the result of `pn532_uart_ack`, 0, and
  `pn53x_transceive` reports success with no bytes.
* `pn532_uart.c:273`: after a PowerDown whose reply was lost the chip sleeps while
  `power_mode` is still NORMAL, so no wake-up is sent.
* `nfc-types.h:112`: after `nfc_open`, switching NP_AUTO_ISO14443_4 off does nothing:
  `pn53x_init` sent PARAM_AUTO_RATS but `bAutoIso14443_4` is still false.
* `nfc.c:775` says that `nfc_target_init` disables easy framing; `nfc.c:803` and
  `pn53x_reset_settings` enable it.
* `nfc-device.c:46` relies on `pn53x_init` sending the settings; three drivers ignore
  whether it did.
* `nfc.c:823`: `nfc_idle` does nothing in IDLE mode, even when a failed
  `nfc_initiator_init` has switched the field on.
* `nfc.c:382`: initialising the secure element does not switch the field off.
* `nfc.c:839` says that `nfc_abort_command` aborts the current running command;
  `pn53x_usb_abort_command` sets a flag that stays up when no call is under way, and the
  next call whose reply does not come within a slice is aborted instead.
* `pn53x_usb.c:534`: the first slice is subtracted before the first read, so a call waits
  200 ms less than it was told to, and one of 200 ms or less does not read the reply at
  all.
* `pn53x_usb.c:485`: a time-out while waiting for the ACK is returned as the negated
  system error, not as NFC_ETIMEOUT; an abort is not noticed there.
* `pn53x.c:415` calls `pn53x_unwrap_frame` the reverse of wrapping, but the loop of one
  ends after the last byte and that of the other, for frames of whole bytes, writes one
  more byte (and parity) than it returns.

## 6. Plan

1. Done: `WriteBack` with its abstract specification and proofs, `Pn532Uart`,
   `Pn53xUsb`, `Settings`, `Session`, `Framing` with its proofs, `SerialReaders`, `Acr122`,
   `Discovery`, `Targets`, `Timing`, `MifareTools`, `Emulation`, `Relay`.
2. Done: the proofs of section 4.
3. Still to come: the frame checks of the drivers (normal and extended frames, lengths,
   checksums) against a reference definition.

## 7. Not modelled

* `pn53x_build_frame`, the checks of frames in the drivers and the CRC: arithmetic over bytes
  without state. A damaged frame is a frame of kind `junk`.
* Printing of targets (`target-subr.c`), bit mirroring tables, logging: formatting. So is most of
  the text output of the tools.
* The Windows serial port (`uart_win32.c`): a platform variant of `uart_posix.c`.
* The environment variables read by `nfc_get_default_device`, and the LED of the ACR122, which
  nothing calls.
* The extra commands of the Sony RC-S360 and of the ASK LoGO.
* The corrections of the measured time in the timed exchanges.
* The other examples and utilities (`nfc-list`, `nfc-poll`, `nfc-anticol`,
  `nfc-read-forum-tag3` and so on): straight sequences of calls that print what they get.
