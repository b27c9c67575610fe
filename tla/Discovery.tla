------------------------------ MODULE Discovery ------------------------------
(***************************************************************************)
(* Finding, opening and closing devices: nfc_list_devices, nfc_open and    *)
(* nfc_close, the scan, open and close functions of the six drivers, the   *)
(* claim on a serial port (buses/uart_posix.c) and the PC/SC context       *)
(* shared by the devices of a process.  Several processes use one machine. *)
(*                                                                         *)
(* A serial port is claimed by a flag in its terminal settings, read by    *)
(* one system call and set by another; closing the port restores the       *)
(* settings that were read.  The USB interface is claimed in the kernel.   *)
(***************************************************************************)
EXTENDS Naturals, Sequences, FiniteSets

CONSTANTS Proc,       \* processes
          Ports,      \* the serial ports, in the order of /dev
          Usb,        \* the USB devices, in the order of the busses
          Readers,    \* the readers PC/SC lists
          At,         \* the driver for what is connected at each place, or "none"
          Lengths,    \* sizes of the array given to nfc_list_devices
          MaxOps,     \* bound: calls of nfc_list_devices and nfc_open
          MaxFaults   \* bound: failing commands or system calls

Serial == {"acr122s", "pn532_uart", "arygon"}
OnUsb == {"pn53x_usb", "acr122_usb"}
Elements(s) == {s[i] : i \in DOMAIN s}
Place == Elements(Ports) \cup Elements(Usb) \cup Elements(Readers)

\* The places a driver looks at
Where(d) == IF d \in Serial THEN Ports ELSE IF d \in OnUsb THEN Usb ELSE Readers

ASSUME DiscoveryAssumption ==
    /\ At \in [Place -> Serial \cup OnUsb \cup {"acr122_pcsc", "none"}]
    /\ \A s \in {Ports, Usb, Readers} : s \in Seq(Place) /\ \A i, j \in DOMAIN s : s[i] = s[j] => i = j
    /\ \A x \in Place : At[x] = "none" \/ x \in Elements(Where(At[x]))
    /\ Lengths \subseteq Nat \ {0}
    /\ MaxOps \in Nat /\ MaxFaults \in Nat

nfc_drivers == <<"pn53x_usb", "acr122_pcsc", "acr122_usb", "acr122s", "pn532_uart", "arygon">>
Driver == Elements(nfc_drivers)

\* A connection string names a driver (or just "usb") and perhaps a place.
Connstring == [driver : Serial, at : Elements(Ports) \cup {"any"}]
              \cup [driver : OnUsb \cup {"usb"}, at : Elements(Usb) \cup {"any"}]
              \cup [driver : {"acr122_pcsc"}, at : Elements(Readers) \cup {"any"}]
Nothing == [driver |-> "none", at |-> "any"]

VARIABLES task,      \* what each process is doing
          held,      \* history: the ports each process has open
          claimed,   \* ports whose settings have the flag CCLAIMED
          dev,       \* the devices each process has open
          refs,      \* _iSCardContextRefCount
          context,   \* processes with an established PC/SC context
          raced,     \* history: two processes were inside uart_open of one port
          lost,      \* history: the calls on PC/SC of each process that failed
          crashed,   \* history: the ports a process left claimed
          touched,   \* history: places used by anybody since the task began
          ops, faults

discovery_vars == <<task, held, claimed, dev, refs, context, raced, lost, crashed, touched, ops, faults>>
resources == <<held, claimed, dev, refs, context, raced, lost, crashed>>

Idle == [op |-> "idle", d |-> 0, i |-> 0, uart |-> "none", found |-> <<>>, len |-> 0,
         intrusive |-> FALSE, cs |-> Nothing, dev |-> Nothing]

DiscoveryInit ==
    /\ task = [p \in Proc |-> Idle]
    /\ held = [p \in Proc |-> {}] /\ claimed = {}
    /\ dev = [p \in Proc |-> {}]
    /\ refs = [p \in Proc |-> 0] /\ context = {}
    /\ raced = FALSE /\ crashed = {} /\ lost = [p \in Proc |-> 0]
    /\ touched = [p \in Proc |-> {}]
    /\ ops = 0 /\ faults = 0

InUse == claimed \cup UNION {{x.at : x \in dev[p]} : p \in Proc}

\* Everybody else learns that a place is being used.
Touch(p, place) == touched' = [q \in Proc |-> IF q = p THEN touched[q] ELSE touched[q] \cup {place}]

Fault == faults < MaxFaults /\ faults' = faults + 1

-----------------------------------------------------------------------------
(* Connection strings: the decode function of each driver and nfc_open     *)

Accepts(d, cs) == cs.driver = d \/ (cs.driver = "usb" /\ d \in OnUsb)

\* Those nfc_open may try from *pndr on.  Only for "usb" does it go on after a failure.
Candidates(cs, d) == {k \in DOMAIN nfc_drivers : k >= d /\ Accepts(nfc_drivers[k], cs)}

\* mutant: the place in the connection string is not compared
UsbPlace_MutFirst(cs) == Usb[1]

\* Where a USB driver looks: the device named, or the first one of the bus,
\* whatever it is.
UsbPlace(cs) == IF cs.at = "any" THEN Usb[1] ELSE cs.at

-----------------------------------------------------------------------------
(* nfc_list_devices                                                        *)

list_devices(p, len, intrusive) ==
    /\ task[p].op = "idle" /\ ops < MaxOps
    /\ ops' = ops + 1
    /\ task' = [task EXCEPT ![p] = [Idle EXCEPT !.op = "list", !.d = 1, !.i = 1, !.len = len, !.intrusive = intrusive]]
    /\ touched' = [touched EXCEPT ![p] = InUse]
    /\ UNCHANGED <<resources, faults>>

Scanning(p, d) ==
    /\ task[p].op = "list" /\ task[p].uart = "none"
    /\ task[p].d \in DOMAIN nfc_drivers /\ nfc_drivers[task[p].d] = d

\* One driver's scan returns: nfc_list_devices stops when the array is full.
ScanDone(t, more) ==
    LET all == t.found \o more IN
      [t EXCEPT !.found = all, !.i = 1, !.uart = "none",
                !.op = IF Len(all) = t.len \/ t.d = Len(nfc_drivers) THEN "listed" ELSE "list",
                !.d = t.d + 1]

\* Nothing more is to be done at this place.
NextProbe(t) == IF t.op = "list" THEN [t EXCEPT !.i = @ + 1, !.uart = "none"]
                ELSE [t EXCEPT !.op = "opened", !.uart = "none"]

\* mutant: the room left in the array is not taken into account
Room_MutWhole(t) == t.len

\* connstrings_len - device_found
Room(t) == t.len - Len(t.found)

\* A scan that finds a device ends when the array is full.
Listed(t, new) == IF Room(t) = 1 THEN ScanDone(t, <<new>>) ELSE NextProbe([t EXCEPT !.found = Append(@, new)])

\* pn53x_usb_scan and acr122_usb_scan, one device in the order of the bus;
\* pn53x_usb_scan sets the configuration, which fails on a device in use.
usb_scan(p, d) ==
    /\ Scanning(p, d) /\ d \in OnUsb /\ task[p].i <= Len(Usb)
    /\ LET x == Usb[task[p].i] IN
         \/ /\ At[x] = d /\ (d = "pn53x_usb" => x \notin InUse)
            /\ task' = [task EXCEPT ![p] = Listed(@, [driver |-> d, at |-> x])]
            /\ UNCHANGED faults
         \/ /\ \/ (At[x] # d \/ (d = "pn53x_usb" /\ x \in InUse)) /\ UNCHANGED faults
               \/ d = "pn53x_usb" /\ Fault
            /\ task' = [task EXCEPT ![p] = NextProbe(@)]
    /\ UNCHANGED <<resources, touched, ops>>

\* acr122_pcsc_scan: the names of the readers are asked for at once, and then
\* looked at.  A failing SCardListReaders keeps the reference.
pcsc_scan(p) ==
    /\ Scanning(p, "acr122_pcsc")
    /\ \/ /\ task[p].i <= Len(Readers)
          /\ LET x == Readers[task[p].i] IN
               task' = [task EXCEPT ![p] = IF At[x] = "acr122_pcsc" THEN Listed(@, [driver |-> "acr122_pcsc", at |-> x])
                                           ELSE NextProbe(@)]
          /\ UNCHANGED <<refs, context, lost, faults>>
       \/ /\ task[p].i = 1 /\ Fault
          /\ lost' = [lost EXCEPT ![p] = @ + 1]
          /\ task' = [task EXCEPT ![p] = ScanDone(@, <<>>)]
          /\ \/ refs' = [refs EXCEPT ![p] = @ + 1] /\ context' = context \cup {p}
             \/ refs[p] = 0 /\ UNCHANGED <<refs, context>>
    /\ UNCHANGED <<held, claimed, dev, raced, crashed, touched, ops>>

\* A scan ends with the last place; the serial drivers scan only when it is allowed.
scan_end(p, d) ==
    /\ Scanning(p, d)
    /\ (d \in Serial /\ ~task[p].intrusive) \/ task[p].i > Len(Where(d))
    /\ task' = [task EXCEPT ![p] = ScanDone(@, <<>>)]
    /\ UNCHANGED <<resources, touched, ops, faults>>

-----------------------------------------------------------------------------
(* uart_open, the probe, uart_close                                        *)

\* The port a process is about to open, for a scan or for nfc_open
NextPort(p) == IF task[p].op = "list" THEN Ports[task[p].i] ELSE task[p].cs.at
WantsPort(p) ==
    /\ task[p].uart = "none"
    /\ \/ /\ task[p].op = "list" /\ task[p].intrusive /\ task[p].d \in DOMAIN nfc_drivers
          /\ nfc_drivers[task[p].d] \in Serial /\ task[p].i <= Len(Ports)
       \/ task[p].op = "open" /\ task[p].cs.driver \in Serial /\ task[p].cs.at # "any"

\* mutant: the flag is not looked at
Refused_MutNever(port) == FALSE

\* "Make sure the port is not claimed already"
Refused(port) == port \in claimed

\* The first half: the settings are read.  A port that is claimed, or cannot be
\* opened, is passed over.
uart_check(p) ==
    /\ WantsPort(p)
    /\ Touch(p, NextPort(p))
    /\ \/ /\ ~Refused(NextPort(p))
          /\ task' = [task EXCEPT ![p].uart = "checked"]
          /\ raced' = (raced \/ \E q \in Proc \ {p} : task[q].uart = "checked" /\ NextPort(q) = NextPort(p))
          /\ UNCHANGED faults
       \/ /\ Refused(NextPort(p))
          /\ task' = [task EXCEPT ![p] = NextProbe(@)]
          /\ UNCHANGED <<raced, faults>>
       \/ /\ Fault
          /\ task' = [task EXCEPT ![p] = NextProbe(@)]
          /\ UNCHANGED raced
    /\ UNCHANGED <<held, claimed, dev, refs, context, lost, crashed, ops>>

\* The second half: the flag is set.
uart_claim(p) ==
    /\ task[p].uart = "checked"
    /\ claimed' = claimed \cup {NextPort(p)}
    /\ held' = [held EXCEPT ![p] = @ \cup {NextPort(p)}]
    /\ task' = [task EXCEPT ![p].uart = "open"]
    /\ Touch(p, NextPort(p))
    /\ UNCHANGED <<dev, refs, context, raced, lost, crashed, ops, faults>>

\* mutant: the settings are left as they are
uart_close_MutKeep(p, port) ==
    /\ UNCHANGED claimed
    /\ held' = [held EXCEPT ![p] = @ \ {port}]

\* uart_close: the settings read by uart_open, which had no flag, are restored.
uart_close(p, port) ==
    /\ claimed' = claimed \ {port}
    /\ held' = [held EXCEPT ![p] = @ \ {port}]

\* The scan of a serial driver talks to what is there, and closes the port.
scan_probe(p) ==
    /\ task[p].op = "list" /\ task[p].uart = "open"
    /\ LET port == NextPort(p)
           d == nfc_drivers[task[p].d]
       IN /\ uart_close(p, port)
          /\ \/ /\ At[port] = d
                /\ task' = [task EXCEPT ![p] = Listed(@, [driver |-> d, at |-> port])]
                /\ UNCHANGED <<touched, faults>>
             \/ /\ At[port] # d
                /\ task' = [task EXCEPT ![p] = NextProbe(@)]
                /\ UNCHANGED <<touched, faults>>
             \/ /\ Fault
                /\ task' = [task EXCEPT ![p] = NextProbe(@)]
                /\ touched' = [touched EXCEPT ![p] = @ \cup {port}]
    /\ UNCHANGED <<dev, refs, context, raced, lost, crashed, ops>>

-----------------------------------------------------------------------------
(* nfc_open and nfc_close                                                  *)

open(p, cs) ==
    /\ task[p].op = "idle" /\ ops < MaxOps
    /\ ops' = ops + 1
    /\ task' = [task EXCEPT ![p] = [Idle EXCEPT !.op = "open", !.cs = cs, !.d = 1]]
    /\ touched' = [touched EXCEPT ![p] = InUse]
    /\ UNCHANGED <<resources, faults>>

\* The open functions of the serial drivers: the reader must answer.
open_probe(p) ==
    /\ task[p].op = "open" /\ task[p].uart = "open"
    /\ LET cs == task[p].cs IN
         \/ /\ At[cs.at] = cs.driver
            /\ dev' = [dev EXCEPT ![p] = @ \cup {cs}]
            /\ task' = [task EXCEPT ![p] = NextProbe([@ EXCEPT !.dev = cs])]
            /\ UNCHANGED <<held, claimed, touched, faults>>
         \/ /\ At[cs.at] # cs.driver
            /\ uart_close(p, cs.at)
            /\ task' = [task EXCEPT ![p] = NextProbe(@)]
            /\ UNCHANGED <<dev, touched, faults>>
         \/ /\ Fault
            /\ uart_close(p, cs.at)
            /\ task' = [task EXCEPT ![p] = NextProbe(@)]
            /\ touched' = [touched EXCEPT ![p] = @ \cup {cs.at}]
            /\ UNCHANGED dev
    /\ UNCHANGED <<refs, context, raced, lost, crashed, ops>>

\* A serial driver is not given a port.
open_noport(p) ==
    /\ task[p].op = "open" /\ task[p].cs.driver \in Serial /\ task[p].cs.at = "any"
    /\ task' = [task EXCEPT ![p].op = "opened"]
    /\ UNCHANGED <<resources, touched, ops, faults>>

\* The open functions of the USB drivers: the interface is claimed, and the chip
\* must answer the driver's kind of frames.
open_usb(p) ==
    /\ task[p].op = "open"
    /\ \E k \in Candidates(task[p].cs, task[p].d) :
       LET t == task[p]
           d == nfc_drivers[k]
           new == [driver |-> d, at |-> UsbPlace(t.cs)]
           next == IF t.cs.driver = "usb" /\ Candidates(t.cs, k + 1) # {} THEN [t EXCEPT !.d = k + 1]
                   ELSE [t EXCEPT !.op = "opened"]
       IN /\ d \in OnUsb /\ \A j \in Candidates(t.cs, t.d) : k <= j
          /\ Touch(p, new.at)
          /\ \/ /\ new.at \notin InUse /\ At[new.at] = d
                /\ dev' = [dev EXCEPT ![p] = @ \cup {new}]
                /\ task' = [task EXCEPT ![p] = [t EXCEPT !.op = "opened", !.dev = new]]
                /\ UNCHANGED faults
             \/ /\ \/ (new.at \in InUse \/ At[new.at] # d) /\ UNCHANGED faults
                   \/ Fault
                /\ task' = [task EXCEPT ![p] = next]
                /\ UNCHANGED dev
    /\ UNCHANGED <<held, claimed, refs, context, raced, lost, crashed, ops>>

\* mutant: a failing acr122_pcsc_open gives a reference back that it never had
GetContext_MutFreed(p, ok) ==
    IF refs[p] > 0 THEN refs' = [refs EXCEPT ![p] = IF ok THEN @ + 1 ELSE @ - 1] /\ context' = IF refs'[p] = 0 THEN context \ {p} ELSE context
    ELSE IF ok THEN refs' = [refs EXCEPT ![p] = 1] /\ context' = context \cup {p}
    ELSE UNCHANGED <<refs, context>>

\* acr122_pcsc_get_scardcontext, and the error path of acr122_pcsc_open, which
\* does not give the reference back.
GetContext(p, ok) ==
    \/ refs' = [refs EXCEPT ![p] = @ + 1] /\ context' = context \cup {p}
    \/ ~ok /\ refs[p] = 0 /\ UNCHANGED <<refs, context>>

\* acr122_pcsc_open: the reader named, or the first that is supported.
open_pcsc(p) ==
    /\ task[p].op = "open" /\ task[p].cs.driver = "acr122_pcsc"
    /\ LET cs == task[p].cs
           list == SelectSeq(Readers, LAMBDA x : At[x] = "acr122_pcsc")
           at == IF cs.at # "any" THEN cs.at ELSE IF list = <<>> THEN "any" ELSE list[1]
           new == [driver |-> "acr122_pcsc", at |-> at]
       IN \/ /\ at = "any"
             /\ task' = [task EXCEPT ![p].op = "opened"]
             /\ UNCHANGED <<dev, refs, context, lost, touched, faults>>
          \/ /\ at \in Place /\ at \notin InUse /\ At[at] = "acr122_pcsc"
             /\ GetContext(p, TRUE)
             /\ dev' = [dev EXCEPT ![p] = @ \cup {new}]
             /\ task' = [task EXCEPT ![p] = [@ EXCEPT !.op = "opened", !.dev = new]]
             /\ Touch(p, at)
             /\ UNCHANGED <<lost, faults>>
          \/ /\ at \in Place
             /\ \/ (at \in InUse \/ At[at] # "acr122_pcsc") /\ UNCHANGED faults
                \/ Fault
             /\ GetContext(p, FALSE)
             /\ lost' = [lost EXCEPT ![p] = @ + 1]
             /\ task' = [task EXCEPT ![p].op = "opened"]
             /\ Touch(p, at)
             /\ UNCHANGED dev
    /\ UNCHANGED <<held, claimed, raced, crashed, ops>>

\* The call returns to the application.
return(p) ==
    /\ task[p].op \in {"listed", "opened"}
    /\ task' = [task EXCEPT ![p] = Idle]
    /\ UNCHANGED <<resources, touched, ops, faults>>

\* nfc_close and the close function of the driver
close(p, x) ==
    /\ task[p].op = "idle" /\ x \in dev[p]
    /\ dev' = [dev EXCEPT ![p] = @ \ {x}]
    /\ IF x.driver \in Serial THEN uart_close(p, x.at)
       ELSE UNCHANGED <<held, claimed>>
    /\ IF x.driver # "acr122_pcsc" THEN UNCHANGED <<refs, context>>
       ELSE /\ refs' = [refs EXCEPT ![p] = @ - 1]
            /\ context' = IF refs[p] = 1 THEN context \ {p} ELSE context
    /\ UNCHANGED <<task, raced, lost, crashed, touched, ops, faults>>

\* A process dies.  The kernel frees all it held but for the terminal settings.
crash(p) ==
    /\ Fault
    /\ task' = [task EXCEPT ![p] = Idle]
    /\ crashed' = crashed \cup (held[p] \cap claimed)
    /\ held' = [held EXCEPT ![p] = {}] /\ dev' = [dev EXCEPT ![p] = {}]
    /\ refs' = [refs EXCEPT ![p] = 0] /\ context' = context \ {p}
    /\ lost' = [lost EXCEPT ![p] = 0]
    /\ UNCHANGED <<claimed, raced, touched, ops>>

Scan(p) == pcsc_scan(p) \/ (\E d \in Driver : usb_scan(p, d) \/ scan_end(p, d)) \/ scan_probe(p)
Open(p) == open_probe(p) \/ open_noport(p) \/ open_usb(p) \/ open_pcsc(p)

DiscoveryNext ==
    \E p \in Proc :
          \/ \E len \in Lengths, b \in BOOLEAN : list_devices(p, len, b)
          \/ \E cs \in Connstring : open(p, cs)
          \/ Scan(p) \/ uart_check(p) \/ uart_claim(p) \/ Open(p) \/ return(p) \/ crash(p)
          \/ \E x \in dev[p] : close(p, x)

DiscoverySpec == DiscoveryInit /\ [][DiscoveryNext]_discovery_vars

-----------------------------------------------------------------------------
(* Properties                                                              *)

\* "Make sure the port is not claimed already": no two processes have a serial
\* port open, scans included, unless two were inside uart_open at once; and a port
\* nobody has open is not claimed, in whatever order it was closed, unless a
\* process died with it.
OnePerPort ==
    /\ ~raced => \A p, q \in Proc : p # q => held[p] \cap held[q] = {}
    /\ claimed \subseteq crashed \cup UNION {held[p] : p \in Proc}

\* The PC/SC context is there for as long as a device of the process needs it,
\* and a call that fails costs one reference at most.
ContextHeld ==
    \A p \in Proc :
      LET n == Cardinality({x \in dev[p] : x.driver = "acr122_pcsc"}) IN
        /\ n <= refs[p] /\ refs[p] <= n + lost[p]
        /\ p \in context <=> refs[p] > 0

Names(found) == {found[i] : i \in DOMAIN found}

\* nfc_list_devices fills the caller's array and no more, lists what is there
\* under the right driver, once, and unless the array is full it misses nothing
\* that was left alone; the serial readers only if it was allowed to look.
ListRight ==
    \A p \in Proc : task[p].op = "listed" =>
      LET t == task[p] IN
        /\ Len(t.found) <= t.len
        /\ Cardinality(Names(t.found)) = Len(t.found)
        /\ \A x \in Names(t.found) : At[x.at] = x.driver
        /\ Len(t.found) < t.len /\ faults = 0 =>
             \A x \in Place : \/ x \in touched[p] \/ At[x] = "none"
                              \/ At[x] \in Serial /\ ~t.intrusive
                              \/ [driver |-> At[x], at |-> x] \in Names(t.found)

\* nfc_open with a string that nfc_list_devices gives opens that device with that
\* driver, unless it was used by somebody else meanwhile or did not answer.
OpensListed ==
    \A p \in Proc : task[p].op = "opened" /\ task[p].cs.at # "any" /\ task[p].cs.driver = At[task[p].cs.at] =>
        task[p].dev = task[p].cs \/ task[p].cs.at \in touched[p] \/ faults > 0
=============================================================================
