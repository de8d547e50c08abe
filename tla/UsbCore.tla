------------------------------- MODULE UsbCore -------------------------------
(***************************************************************************)
(* The USB device core (emcore/usb/usb.c): endpoint 0 and the standard     *)
(* requests.                                                               *)
(*                                                                         *)
(* The statics of the core and of the monitor are a record s, and an       *)
(* operator bears the name of the function it models.  s.in is the packet  *)
(* that waits for the host on endpoint 0, s.out whether a packet from the  *)
(* host other than a SETUP is accepted; a callback is its name.  A packet  *)
(* tells which request it was made for; its bytes are counted in units of  *)
(* sixteen, the size of the header of a monitor's answer.                  *)
(***************************************************************************)
EXTENDS Integers, Sequences, SequencesExt

CONSTANTS Packet,          \* units in a packet, 64 bytes
          DescriptorSize   \* units in the descriptor that the host asks for

ASSUME UsbAssumption == Packet \in Nat \ {0, 1} /\ DescriptorSize \in Nat \ {0}

Lesser(a, b) == IF a < b THEN a ELSE b
Both == {"in", "out"}

NoHeader == [of |-> 0, status |-> "none", bytes |-> 0]
NoPacket == [of |-> 0, header |-> NoHeader, body |-> << >>]
Zero(of) == [NoPacket EXCEPT !.of = of]   \* of length zero

Size(packet) == Len(packet.body) + (IF packet.header = NoHeader THEN 0 ELSE 1)

\* Units from first + 1 to last of what a request reads or writes.
Units(of, first, last) == [i \in 1 .. last - first |-> <<of, first + i>>]

usb_set_stall(s, dirs) == [s EXCEPT !.stalled = @ \cup dirs]
usb_ep0_start_rx(s, nonsetup, callback) == [s EXCEPT !.rxcallback = callback, !.out = nonsetup]
usb_ep0_start_tx(s, packet, callback) == [s EXCEPT !.txcallback = callback, !.in = packet]

-----------------------------------------------------------------------------
(* Callbacks of endpoint 0.                                                *)

\* The last packet of a request has gone in direction dir.
usb_ep0_ack_callback(s, dir) ==
    LET t == usb_set_stall(s, Both)
    IN  IF dir = "out" THEN usb_ep0_start_rx(t, FALSE, "none") ELSE t

\* tx.ptr is whether ep0_tx_ptr is set.
usb_ep0_short_tx_callback(s) ==
    LET t == usb_set_stall(s, {"in"})
    IN  IF s.tx.ptr THEN usb_ep0_start_rx(t, TRUE, "ack") ELSE t

\* Variant: the status is not expected.
LastSent_deaf(s) == usb_ep0_start_tx([s EXCEPT !.tx.ptr = FALSE], Zero(s.req), "short")

\* All was sent: expect the zero-length status, and send a packet of length zero to a host
\* that may expect more.
LastSent(s) ==
    usb_ep0_start_tx(usb_ep0_start_rx([s EXCEPT !.tx.ptr = FALSE], TRUE, "ack"), Zero(s.req), "short")

\* tx.left units are left to be sent, from the one after tx.sent of those of request tx.of.
usb_ep0_tx_callback(s) ==
    LET len == Lesser(Packet, s.tx.left) IN
    IF s.tx.left = 0 THEN LastSent(s)
    ELSE usb_ep0_start_tx([s EXCEPT !.tx.left = @ - len, !.tx.sent = @ + len],
                          [Zero(s.req) EXCEPT !.body = Units(s.tx.of, s.tx.sent, s.tx.sent + len)],
                          IF len < Packet THEN "short" ELSE "tx")

-----------------------------------------------------------------------------
(* What becomes of a request: size = 0, size > 0 and size = -1 or -2 of    *)
(* usb_handle_ep0_setup.                                                   *)

Acknowledge(s) ==
    usb_ep0_start_tx(usb_ep0_start_rx(usb_set_stall(s, {"out"}), FALSE, "none"), Zero(s.req), "ack")

Send(s, size) ==
    usb_ep0_tx_callback([usb_ep0_start_rx(s, FALSE, "none") EXCEPT
                            !.tx = [of |-> s.req, sent |-> 0, left |-> size, ptr |-> TRUE]])

Refuse(s) == usb_ep0_start_rx(usb_set_stall(s, Both), FALSE, "none")

-----------------------------------------------------------------------------
(* Configurations.  There is one, with one interface, the monitor's.       *)

\* usbdebug_enable and usbdebug_disable.
EnableMonitor(s) == [s EXCEPT !.dbgstate = "IDLE"]

usb_unconfigure(s) ==
    IF s.configuration = 0 THEN s ELSE [EnableMonitor(s) EXCEPT !.configuration = 0]

SetConfiguration(s, value) ==
    LET t == [usb_unconfigure(s) EXCEPT !.configuration = value]
    IN  IF value = 0 THEN t ELSE EnableMonitor(t)

\* With what the reset does to the controller: no transfer, no stall.
usb_handle_bus_reset(s) ==
    LET t == [s EXCEPT !.address = FALSE, !.in = NoPacket, !.stalled = {}]
    IN  usb_ep0_start_rx(usb_unconfigure(t), FALSE, "none")

\* Standard requests.  SET_INTERFACE does what it is asked for and is refused, as its size
\* is never set.
StandardSetup(s, r) ==
    CASE r.kind = "address" -> Acknowledge([s EXCEPT !.address = TRUE])
      [] r.kind \in {"configure", "unconfigure"} ->
            IF s.address THEN Acknowledge(SetConfiguration(s, IF r.kind = "configure" THEN 1 ELSE 0))
            ELSE Refuse(s)
      [] r.kind = "descriptor" -> Send(s, Lesser(DescriptorSize, r.units))
      [] r.kind = "status" -> IF s.address THEN Send(s, 1) ELSE Refuse(s)
      [] r.kind = "interface" -> Refuse(IF s.configuration = 0 THEN s ELSE EnableMonitor(s))
      [] r.kind = "unknown" -> Refuse(s)

\* A SETUP packet comes: the driver flushes the endpoint, the controller lifts the stalls.
SetupReceived(s) == [s EXCEPT !.req = @ + 1, !.in = NoPacket, !.out = FALSE, !.stalled = {}]
=============================================================================
