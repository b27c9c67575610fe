---------------------------- MODULE MCDiscovery ----------------------------
(* Two processes, two serial ports, three USB devices of which the first   *)
(* is none of ours, two PC/SC readers.                                     *)
EXTENDS Discovery
MCPorts == <<"ttyS0", "ttyUSB0">>
MCUsb == <<"hub", "pn533", "acr122">>
MCReaders == <<"reader", "reader2">>
MCAt == [x \in {"ttyS0", "ttyUSB0", "hub", "pn533", "acr122", "reader", "reader2"} |->
           CASE x = "ttyS0" -> "arygon" [] x = "ttyUSB0" -> "acr122s" [] x = "pn533" -> "pn53x_usb"
             [] x = "acr122" -> "acr122_usb" [] x \in {"reader", "reader2"} -> "acr122_pcsc" [] OTHER -> "none"]
=============================================================================
