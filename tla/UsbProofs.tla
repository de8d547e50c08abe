------------------------------ MODULE UsbProofs ------------------------------
(***************************************************************************)
(* Every answer of the USB monitor is that of its command (AnswersMatch),  *)
(* whatever requests were given up, overtaken or reset before it, for any  *)
(* sizes of packets and rings and any workload.                            *)
(*                                                                         *)
(* The monitor has no notion of a command that was answered: its state     *)
(* (dbgstate), its buffer and its counters stay as the last request left   *)
(* them.  The invariant says what they are at each stage of a transfer,    *)
(* seen from the host.                                                     *)
(***************************************************************************)
EXTENDS UsbMonitor, SequenceTheorems, TLAPS

-----------------------------------------------------------------------------
(* Types.  t stands for the statics, h for the host, w for dbgthread.      *)

StaticFields ==
    {"configuration", "address", "req", "in", "out", "stalled", "rxcallback", "txcallback", "tx",
     "dbgstate", "dbgbusy", "dbgbuf", "signalled", "memof", "memlen", "count", "written",
     "refused", "late", "void", "sendbuf", "sendread", "sendwrite", "attached", "text",
     "recvbuf", "recvread", "recvwrite", "typed"}

Content == Int \cup (Nat \X Nat)     \* a byte of the console, or a unit of a request's data
Statuses == {"none", "ok", "unsupported"} \cup WorkerKinds
Headers == [of : Nat, status : Statuses, bytes : Nat]
Packets == [of : Nat, header : Headers, body : Seq(Content)]
Asked == [of : Nat, kind : CommandKinds \cup {"none"}, units : Nat]

Device(t) ==
    /\ DOMAIN t = StaticFields
    /\ t.req \in Nat
    /\ t.in \in Packets
    /\ t.rxcallback \in {"none", "ack", "data"}
    /\ t.txcallback \in {"none", "ack", "short", "tx", "read_console"}
    /\ t.tx \in [of : Nat, sent : Nat, left : Nat, ptr : BOOLEAN]
    /\ t.dbgbuf \in Headers
    /\ t.memof \in Nat /\ t.memlen \in Nat /\ t.count \in Nat
    /\ t.written \in Seq(Content)
    /\ t.late \subseteq 0 .. t.req

Rings(t) ==
    /\ t.sendbuf \in [0 .. SendSize - 1 -> Int] /\ t.text \in Int
    /\ t.sendread \in 0 .. SendSize - 1 /\ t.sendwrite \in 0 .. SendSize - 1
    /\ t.recvread \in 0 .. RecvSize - 1 /\ t.recvwrite \in 0 .. RecvSize - 1

Host(h) ==
    /\ DOMAIN h = {"phase", "kind", "units", "begun", "sent", "got", "asked", "seen"}
    /\ h.kind \in StandardKinds \cup CommandKinds \cup {"answer", "none"}
    /\ h.units \in Nat /\ h.sent \in Nat /\ h.begun \in BOOLEAN
    /\ h.got \in [header : Headers, body : Seq(Content)]
    /\ h.asked \in Asked

ThreadTypes ==
    /\ worker \in [pc : {"wait", "check", "run", "writing", "finish"}, of : Nat, kind : Statuses, units : Nat]
    /\ writer \in [Writers -> [pc : {"idle", "lock", "space", "wait", "full", "copy", "advance"},
                               left : Int, n : Int]]
    /\ work \in [requests : Nat, resets : Int, text : Nat, overflows : BOOLEAN, kinds : SUBSET Requests,
                 writes : SUBSET (Nat \ {0}), panics : SUBSET (1 .. SendSize - MarkSize - 1)]

-----------------------------------------------------------------------------
(* The invariant.                                                          *)

\* The host is in a stage of its request, and the endpoint listens for nothing else.
Stages(t, h) ==
    /\ h.phase \in {"idle", "in", "out", "status_in", "status_out"}
    /\ IF h.phase = "idle" THEN h.kind = "none" /\ h.got = NoAnswer /\ ~h.begun /\ h.sent = 0
       ELSE t.req > 0
    /\ h.phase \in {"in", "status_out"} =>
         h.kind \in {"descriptor", "status", "answer"} /\ (t.out => t.rxcallback = "ack")
    /\ h.phase = "out" => h.kind \in CommandKinds
    /\ h.phase = "status_in" => h.kind \notin {"descriptor", "status", "answer", "none"}
    /\ h.kind = "answer" => h.asked # NoCommand
    /\ t.in # NoPacket /\ t.txcallback = "read_console" => h.kind \in {"answer", "none"}
    /\ t.configuration = 0 => t.dbgstate = "IDLE"

\* The command that dbgthread has been given.
Given(t, w) ==
    IF w.pc \in {"wait", "check"}
    THEN [of |-> t.dbgbuf.of, kind |-> t.dbgbuf.status, units |-> t.dbgbuf.bytes]
    ELSE [of |-> w.of, kind |-> w.kind, units |-> w.units]

This(t, h) == [of |-> t.req, kind |-> h.kind, units |-> h.units]

\* It is that of the host's request, or of an earlier one.
LeftToWorker(t, h, w) ==
    /\ w.pc \in {"run", "writing", "finish"} => t.dbgbusy
    /\ t.dbgstate = "ASYNC" =>
         /\ t.dbgbusy
         /\ Given(t, w).of \in 1 .. t.req
         /\ h.phase # "idle" => IF h.kind \in CommandKinds THEN Given(t, w) = This(t, h)
                                ELSE Given(t, w).of < t.req

GoodHeader(c, header) ==
    header.of = c.of /\ header.status = IF c.kind = "bad" THEN "unsupported" ELSE "ok"

AllWritten(t, c) == c.kind = "write" => t.written = Units(c.of, 0, c.units)

\* The monitor has the answer to command c.
Ready(t, c) ==
    /\ t.dbgstate = IF c.kind = "con_read" THEN "READ_CONSOLE" ELSE "RESPOND"
    /\ c.kind = "con_read" => t.memof = c.of /\ t.count = c.units
    /\ c.of \notin t.refused =>
         /\ c.kind \in {"read", "i2c"} => t.memof = c.of /\ t.memlen = c.units
         /\ c.kind \notin {"con_read", "flush"} => GoodHeader(c, t.dbgbuf)
    /\ AllWritten(t, c)

\* It has that of the command that was acknowledged last, until it is asked for.
AskedReady(t, h) ==
    h.asked # NoCommand =>
        /\ h.asked.kind \in CommandKinds /\ h.asked.of \in 1 .. t.req
        /\ h.phase # "idle" => h.kind \notin CommandKinds
        /\ h.kind # "answer" => t.dbgstate = "IDLE" \/ Ready(t, h.asked)

\* A command is on its way, or its acknowledgement.
CommandStage(t, h) ==
    /\ h.phase \in {"out", "status_in"} /\ h.kind \in CommandKinds /\ t.in # NoPacket => Ready(t, This(t, h))
    /\ h.phase = "out" /\ t.out =>
         /\ t.in = NoPacket /\ t.rxcallback = "data"
         /\ \/ ~h.begun /\ h.sent = 0 /\ t.dbgstate = "SETUP" /\ t.memlen = 0
            \/ /\ h.begun /\ h.sent < h.units
               /\ \/ /\ t.dbgstate = "WRITE_MEM" /\ h.kind = "write"
                     /\ t.memlen = h.units - h.sent /\ t.written = Units(t.req, 0, h.sent)
                  \/ /\ t.dbgstate = "WRITE_CONSOLE" /\ h.kind = "con_write"
                     /\ GoodHeader(This(t, h), t.dbgbuf)

Exceptional(t, h) ==
    \/ t.req \in t.late
    \/ h.kind = "answer" /\ (h.asked.kind = "flush" \/ h.asked.of \in t.refused)

OfConsole(h) == h.kind = "answer" /\ h.asked.kind = "con_read"

\* Whose data are sent to the host, and how much of them.
Source(t, h) == IF h.kind = "answer" THEN h.asked.of ELSE t.req
Total(h) ==
    CASE h.kind = "descriptor" -> Lesser(DescriptorSize, h.units)
      [] h.kind = "status" -> 1
      [] h.kind = "answer" -> IF h.asked.kind \in DataKinds THEN h.asked.units ELSE 0

\* k units have been sent to the host, and j more are on their way.
Carries(t, h, k, j) ==
    /\ k = Len(h.got.body) /\ j = Len(t.in.body) /\ k + j <= Total(h)
    /\ ~OfConsole(h) => /\ h.got.body = Units(Source(t, h), 0, k)
                        /\ t.in.body = Units(Source(t, h), k, k + j)
    /\ IF h.kind = "answer"
       THEN /\ h.units = Total(h)
            /\ \/ h.got = NoAnswer /\ GoodHeader(h.asked, t.in.header)
               \/ GoodHeader(h.asked, h.got.header) /\ t.in.header = NoHeader
            /\ AllWritten(t, h.asked)
       ELSE h.got.header = NoHeader /\ t.in.header = NoHeader

\* What the callback will send next: all that is left.
Continues(t, h, sent) ==
    \/ t.txcallback = "short" /\ Size(t.in) < Packet
    \/ /\ t.txcallback = "tx" /\ t.tx.left = Total(h) - sent
       /\ t.tx.left > 0 => t.tx.of = Source(t, h) /\ t.tx.sent = sent /\ ~OfConsole(h)
    \/ t.txcallback = "read_console" /\ OfConsole(h) /\ t.count = Total(h) - sent /\ t.memlen <= t.count

Flow(t, h) ==
    \E k, j \in Nat :
        /\ Carries(t, h, k, j) /\ Continues(t, h, k + j)
        /\ Size(t.in) <= Packet
        /\ Size(t.in) < Packet => k + j = Total(h)

DataStage(t, h) ==
    h.phase = "in" /\ ~Exceptional(t, h) => "in" \in t.stalled \/ Flow(t, h)

\* All has come.
Delivered(t, h) ==
    h.phase = "status_out" /\ ~Exceptional(t, h) =>
        /\ Len(h.got.body) = Total(h)
        /\ ~OfConsole(h) => h.got.body = Units(Source(t, h), 0, Total(h))
        /\ h.kind = "answer" => GoodHeader(h.asked, h.got.header) /\ AllWritten(t, h.asked)

Transfer(t, h, w) ==
    /\ Stages(t, h) /\ LeftToWorker(t, h, w) /\ AskedReady(t, h)
    /\ CommandStage(t, h) /\ DataStage(t, h) /\ Delivered(t, h)

UsbInvariant == Device(s) /\ Rings(s) /\ Host(host) /\ ThreadTypes /\ Transfer(s, host, worker)

-----------------------------------------------------------------------------
(* Sequences of units, and indices of the rings.                           *)

\* The units of a request.
LEMMA UnitsSeq ==
    ASSUME NEW of \in Nat, NEW a \in Nat, NEW b \in Nat, a <= b
    PROVE  Units(of, a, b) \in Seq(Content) /\ Len(Units(of, a, b)) = b - a
<1>1. b - a \in Nat
  OBVIOUS
<1>2. \A i \in 1 .. b - a : <<of, a + i>> \in Content
  BY DEF Content
<1> QED
  BY <1>1, <1>2 DEF Units

\* None.
LEMMA UnitsNone == ASSUME NEW of, NEW a \in Nat PROVE Units(of, a, a) = << >>
<1>1. 1 .. a - a = {}
  OBVIOUS
<1> QED
  BY <1>1 DEF Units

\* Two pieces that follow each other.
LEMMA UnitsJoin ==
    ASSUME NEW of \in Nat, NEW a \in Nat, NEW b \in Nat, NEW c \in Nat, a <= b, b <= c
    PROVE  Units(of, a, b) \o Units(of, b, c) = Units(of, a, c)
<1>1. a <= c /\ Content # {}
  BY DEF Content
<1>2. /\ Units(of, a, b) \in Seq(Content) /\ Len(Units(of, a, b)) = b - a
      /\ Units(of, b, c) \in Seq(Content) /\ Len(Units(of, b, c)) = c - b
      /\ Units(of, a, c) \in Seq(Content) /\ Len(Units(of, a, c)) = c - a
  BY <1>1, UnitsSeq
<1>3. /\ \A i \in 1 .. b - a : Units(of, a, b)[i] = <<of, a + i>>
      /\ \A i \in 1 .. c - b : Units(of, b, c)[i] = <<of, b + i>>
      /\ \A i \in 1 .. c - a : Units(of, a, c)[i] = <<of, a + i>>
  BY DEF Units
<1> DEFINE x == Units(of, a, b)
           y == Units(of, b, c)
           z == Units(of, a, c)
<1> HIDE DEF x, y, z
<1>4. /\ x \in Seq(Content) /\ Len(x) = b - a /\ y \in Seq(Content) /\ Len(y) = c - b
      /\ z \in Seq(Content) /\ Len(z) = c - a
  BY <1>2 DEF x, y, z
<1>5. /\ \A i \in 1 .. b - a : x[i] = <<of, a + i>>
      /\ \A i \in 1 .. c - b : y[i] = <<of, b + i>>
      /\ \A i \in 1 .. c - a : z[i] = <<of, a + i>>
  BY <1>3 DEF x, y, z
<1>6. /\ x \o y \in Seq(Content) /\ Len(x \o y) = Len(x) + Len(y)
      /\ \A i \in 1 .. Len(x) + Len(y) : (x \o y)[i] = IF i <= Len(x) THEN x[i] ELSE y[i - Len(x)]
  BY <1>4, ConcatProperties, Zenon
<1>9. Len(x) + Len(y) = c - a /\ Len(x) = b - a
  BY <1>4
<1> DEFINE xy == x \o y
<1> HIDE DEF xy
<1>10. /\ xy \in Seq(Content) /\ Len(xy) = c - a
       /\ \A i \in 1 .. c - a : xy[i] = IF i <= b - a THEN x[i] ELSE y[i - (b - a)]
  BY <1>6, <1>9 DEF xy
<1>7. ASSUME NEW i \in 1 .. c - a PROVE xy[i] = z[i]
  <2>1. CASE i <= b - a
    <3>1. i \in 1 .. b - a
      BY <2>1
    <3> QED
      BY <1>5, <1>10, <2>1, <3>1
  <2>2. CASE ~(i <= b - a)
    <3>1. i - (b - a) \in 1 .. c - b /\ b + (i - (b - a)) = a + i
      BY <2>2
    <3> QED
      BY <1>5, <1>10, <2>2, <3>1
  <2> QED
    BY <2>1, <2>2
<1>8. xy = z
  BY <1>4, <1>7, <1>10, SeqEqual
<1> QED
  BY <1>8 DEF x, y, z, xy

\* What has come so far, and what comes next.
LEMMA UnitsAppend ==
    ASSUME NEW of \in Nat, NEW m \in Nat, NEW n \in Nat, m <= n
    PROVE  Units(of, 0, m) \o Units(of, m, n) = Units(of, 0, n)
<1>1. 0 \in Nat /\ 0 <= m
  OBVIOUS
<1> QED
  BY <1>1, UnitsJoin, Zenon

\* An index stays in its ring.
LEMMA Wraps == ASSUME NEW x \in Int, NEW n \in Nat \ {0} PROVE x % n \in 0 .. n - 1
  OBVIOUS

\* The rings are not empty.
LEMMA Sizes == /\ SendSize \in Nat \ {0} /\ RecvSize \in Nat \ {0} /\ MarkSize \in Nat \ {0}
               /\ SendSize > MarkSize + 1
<1>1. SendSize \in Nat /\ RecvSize \in Nat /\ MarkSize \in Nat
  BY ConsoleAssumption
<1> QED
  BY <1>1, ConsoleAssumption

-----------------------------------------------------------------------------
(* What the operators of the device do.                                    *)

SameConsole(t, u) ==
    /\ u.sendbuf = t.sendbuf /\ u.sendread = t.sendread /\ u.sendwrite = t.sendwrite
    /\ u.text = t.text /\ u.recvread = t.recvread /\ u.recvwrite = t.recvwrite

\* Which request it is, and what is known of earlier ones.
SameRequest(t, u) == u.req = t.req /\ u.refused = t.refused /\ u.late = t.late

SameCommand(t, u) == u.dbgstate = t.dbgstate /\ u.dbgbusy = t.dbgbusy /\ u.configuration = t.configuration
SameAnswer(t, u) == u.dbgbuf = t.dbgbuf /\ u.memof = t.memof /\ u.written = t.written
SameLeft(t, u) == u.memlen = t.memlen /\ u.count = t.count

\* A zero-length packet.
LEMMA ZeroPacket ==
    ASSUME NEW of \in Nat
    PROVE  /\ Zero(of) = [of |-> of, header |-> NoHeader, body |-> << >>]
           /\ Zero(of) \in Packets /\ Len(Zero(of).body) = 0 /\ Size(Zero(of)) = 0
<1>1. Zero(of) = [of |-> of, header |-> NoHeader, body |-> << >>]
  BY DEF Zero, NoPacket
<1>2. << >> \in Seq(Content) /\ NoHeader \in Headers
  BY DEF NoHeader, Headers, Statuses
<1>3. Len(<< >>) = 0
  OBVIOUS
<1> QED
  BY <1>1, <1>2, <1>3 DEF Packets, Size

\* Expect the status, and send the last packet.
LEMMA LastSentEffect ==
    ASSUME NEW t, Device(t), Rings(t)
    PROVE  LET u == LastSent(t) IN
           /\ Device(u) /\ Rings(u) /\ SameRequest(t, u) /\ SameCommand(t, u)
           /\ SameAnswer(t, u) /\ SameLeft(t, u) /\ u.stalled = t.stalled
           /\ u.in = Zero(t.req) /\ u.txcallback = "short" /\ u.out /\ u.rxcallback = "ack"
<1>1. Zero(t.req) \in Packets
  BY ZeroPacket DEF Device
<1> DEFINE u == LastSent(t)
<1>2. /\ DOMAIN u = StaticFields /\ u.tx = [t.tx EXCEPT !.ptr = FALSE]
      /\ SameRequest(t, u) /\ SameCommand(t, u) /\ SameAnswer(t, u) /\ SameLeft(t, u) /\ SameConsole(t, u)
      /\ u.stalled = t.stalled
      /\ u.in = Zero(t.req) /\ u.txcallback = "short" /\ u.out /\ u.rxcallback = "ack"
  BY DEF Device, LastSent, usb_ep0_start_tx, usb_ep0_start_rx, StaticFields, SameRequest, SameCommand,
     SameAnswer, SameLeft, SameConsole
<1> HIDE DEF u
<1>3. Device(u) /\ Rings(u)
  BY <1>1, <1>2 DEF Device, Rings, SameRequest, SameCommand, SameAnswer, SameLeft, SameConsole
<1> QED
  BY <1>2, <1>3 DEF u

\* The next packet of an answer from the memory, or of a descriptor.
LEMMA MoreUnits ==
    ASSUME NEW t, Device(t), Rings(t)
    PROVE  LET u == usb_ep0_tx_callback(t)
               len == Lesser(Packet, t.tx.left)
           IN  /\ Device(u) /\ Rings(u) /\ SameRequest(t, u) /\ SameCommand(t, u)
               /\ SameAnswer(t, u) /\ SameLeft(t, u) /\ u.stalled = t.stalled
               /\ u.in.header = NoHeader /\ u.in.body = Units(t.tx.of, t.tx.sent, t.tx.sent + len)
               /\ u.txcallback = IF len < Packet THEN "short" ELSE "tx"
               /\ t.tx.left > 0 => /\ u.tx.left = t.tx.left - len /\ u.tx.of = t.tx.of
                                   /\ u.tx.sent = t.tx.sent + len
                                   /\ u.out = t.out /\ u.rxcallback = t.rxcallback
               /\ t.tx.left = 0 => u.out /\ u.rxcallback = "ack"
<1>1. t.tx \in [of : Nat, sent : Nat, left : Nat, ptr : BOOLEAN] /\ t.req \in Nat /\ Packet \in Nat /\ Packet > 1
  BY UsbAssumption DEF Device
<1> DEFINE u == usb_ep0_tx_callback(t)
           len == Lesser(Packet, t.tx.left)
<1>2. CASE t.tx.left = 0
  <2>1. u = LastSent(t) /\ len = 0
    BY <1>1, <1>2 DEF usb_ep0_tx_callback, Lesser
  <2>2. Units(t.tx.of, t.tx.sent, t.tx.sent + len) = << >>
    <3>1. t.tx.sent + len = t.tx.sent /\ t.tx.sent \in Nat
      BY <1>1, <2>1
    <3> QED
      BY <3>1, UnitsNone
  <2>3. Zero(t.req) = [of |-> t.req, header |-> NoHeader, body |-> << >>]
    BY <1>1, ZeroPacket
  <2>4. len < Packet
    BY <1>1, <2>1
  <2> HIDE DEF u, len
  <2> QED
    BY <1>2, <2>1, <2>2, <2>3, <2>4, LastSentEffect DEF u, len
<1>3. CASE t.tx.left # 0
  <2>1. /\ len \in 1 .. t.tx.left /\ len <= Packet
        /\ t.tx.left - len \in Nat /\ t.tx.sent + len \in Nat /\ t.tx.sent <= t.tx.sent + len
        /\ t.tx.of \in Nat /\ t.tx.sent \in Nat
    BY <1>1, <1>3 DEF Lesser
  <2> HIDE DEF len
  <2> DEFINE body == Units(t.tx.of, t.tx.sent, t.tx.sent + len)
             packet == [Zero(t.req) EXCEPT !.body = body]
  <2>2. body \in Seq(Content)
    BY <1>1, <2>1, UnitsSeq
  <2>3. packet \in Packets /\ packet.header = NoHeader /\ packet.body = body
    BY <1>1, <2>2, ZeroPacket DEF Packets
  <2> HIDE DEF body, packet
  <2>4. /\ DOMAIN u = StaticFields
        /\ u.tx = [t.tx EXCEPT !.left = @ - len, !.sent = @ + len]
        /\ SameRequest(t, u) /\ SameCommand(t, u) /\ SameAnswer(t, u) /\ SameLeft(t, u) /\ SameConsole(t, u)
        /\ u.stalled = t.stalled /\ u.out = t.out /\ u.rxcallback = t.rxcallback
        /\ u.in = packet /\ u.txcallback = IF len < Packet THEN "short" ELSE "tx"
    BY <1>1, <1>3 DEF Device, usb_ep0_tx_callback, usb_ep0_start_tx, StaticFields, SameRequest, SameCommand,
       SameAnswer, SameLeft, SameConsole, body, packet, len
  <2> HIDE DEF u, len
  <2>5. u.tx.left = t.tx.left - len /\ u.tx.of = t.tx.of /\ u.tx.sent = t.tx.sent + len
        /\ u.tx \in [of : Nat, sent : Nat, left : Nat, ptr : BOOLEAN]
    BY <1>1, <2>1, <2>4
  <2>6. Device(u) /\ Rings(u)
    BY <2>3, <2>4, <2>5 DEF Device, Rings, SameRequest, SameCommand, SameAnswer, SameLeft, SameConsole
  <2> QED
    BY <1>1, <1>3, <2>3, <2>4, <2>5, <2>6 DEF u, len, body
<1> QED
  BY <1>2, <1>3

\* Text that is taken out of the ring.
LEMMA TakePieceEffect ==
    ASSUME NEW t, Device(t), Rings(t), NEW size \in Nat
    PROVE  LET u == TakePiece(t, size) IN
           /\ Device(u) /\ Rings(u) /\ SameRequest(t, u) /\ SameCommand(t, u) /\ SameAnswer(t, u)
           /\ u.in = t.in /\ u.out = t.out /\ u.stalled = t.stalled /\ u.tx = t.tx
           /\ u.rxcallback = t.rxcallback /\ u.txcallback = t.txcallback
           /\ u.count = t.count - Lesser(size, t.count)
           /\ u.memlen = t.memlen - Lesser(size, t.memlen)
<1> DEFINE u == TakePiece(t, size)
           n == Lesser(size, t.memlen)
           m == Lesser(size, t.count)
<1>1. n \in 0 .. t.memlen /\ m \in 0 .. t.count /\ t.memlen - n \in Nat /\ t.count - m \in Nat
  BY DEF Device, Lesser
<1>2. (t.sendread + n) % SendSize \in 0 .. SendSize - 1
  <2>1. t.sendread + n \in Int
    BY <1>1 DEF Rings, Device
  <2> QED
    BY <2>1, Sizes, Wraps
<1>3. /\ DOMAIN u = StaticFields
      /\ SameRequest(t, u) /\ SameCommand(t, u) /\ SameAnswer(t, u)
      /\ u.sendread = (t.sendread + n) % SendSize
      /\ u.sendbuf = t.sendbuf /\ u.sendwrite = t.sendwrite
      /\ u.text = t.text /\ u.recvread = t.recvread /\ u.recvwrite = t.recvwrite
      /\ u.in = t.in /\ u.out = t.out /\ u.stalled = t.stalled /\ u.tx = t.tx
      /\ u.rxcallback = t.rxcallback /\ u.txcallback = t.txcallback
      /\ u.count = t.count - m /\ u.memlen = t.memlen - n
  BY DEF Device, TakePiece, Take, StaticFields, SameRequest, SameCommand, SameAnswer
<1> HIDE DEF u, n, m
<1>4. Device(u) /\ Rings(u)
  BY <1>1, <1>2, <1>3 DEF Device, Rings, SameRequest, SameCommand, SameAnswer
<1> QED
  BY <1>3, <1>4 DEF u, n, m

\* It is as long as the count says, with padding for what was not found.
LEMMA PieceSeq ==
    ASSUME NEW t, Device(t), Rings(t), NEW size \in Nat
    PROVE  /\ ConsolePiece(t, size) \in Seq(Content)
           /\ t.memlen <= t.count => Len(ConsolePiece(t, size)) = Lesser(size, t.count)
<1> DEFINE n == Lesser(size, t.memlen)
           m == Lesser(size, t.count)
           text == Taken(t, n)
           padding == [i \in 1 .. m - n |-> PadByte]
<1>1. n \in Nat /\ m \in Nat /\ (t.memlen <= t.count => n <= m)
  BY DEF Device, Lesser
<1> HIDE DEF n, m
<1>2. ASSUME NEW i \in 1 .. n PROVE t.sendbuf[(t.sendread + i - 1) % SendSize] \in Content
  <2>1. (t.sendread + i - 1) % SendSize \in 0 .. SendSize - 1
    <3>1. t.sendread + i - 1 \in Int
      BY DEF Rings
    <3> QED
      BY <3>1, Sizes, Wraps
  <2> QED
    BY <2>1 DEF Rings, Content
<1>3. text \in Seq(Content) /\ Len(text) = n
  BY <1>1, <1>2 DEF Taken
<1>4. /\ padding \in Seq(Content)
      /\ n <= m => Len(padding) = m - n
  <2>1. PadByte \in Content
    BY DEF PadByte, Content
  <2>2. CASE n <= m
    <3>1. m - n \in Nat
      BY <1>1, <2>2
    <3> QED
      BY <2>1, <3>1
  <2>3. CASE ~(n <= m)
    <3>1. 1 .. m - n = {}
      BY <1>1, <2>3
    <3>2. padding = << >>
      BY <3>1
    <3>3. << >> \in Seq(Content)
      OBVIOUS
    <3> QED
      BY <2>3, <3>2, <3>3
  <2> QED
    BY <2>2, <2>3
<1>5. ConsolePiece(t, size) = text \o padding
  BY DEF ConsolePiece, n, m
<1> HIDE DEF text, padding
<1>6. text \o padding \in Seq(Content) /\ Len(text \o padding) = Len(text) + Len(padding)
  BY <1>3, <1>4, ConcatProperties, Zenon
<1>7. t.memlen <= t.count => Len(text) + Len(padding) = m
  BY <1>1, <1>3, <1>4
<1> QED
  BY <1>5, <1>6, <1>7 DEF m

\* The next packet of console text.
LEMMA MoreText ==
    ASSUME NEW t, Device(t), Rings(t)
    PROVE  LET u == read_console_callback(t)
               len == Lesser(Packet, t.count)
           IN  /\ Device(u) /\ Rings(u) /\ SameRequest(t, u) /\ SameCommand(t, u)
               /\ SameAnswer(t, u) /\ u.stalled = t.stalled
               /\ u.in.header = NoHeader
               /\ (t.memlen <= t.count => Len(u.in.body) = len /\ u.memlen <= u.count)
               /\ u.count = t.count - len
               /\ u.txcallback = IF t.count < Packet THEN "short" ELSE "read_console"
               /\ u.out => u.rxcallback = "ack" \/ (t.out /\ u.rxcallback = t.rxcallback)
<1>1. t.count \in Nat /\ t.memlen \in Nat /\ t.req \in Nat /\ Packet \in Nat /\ Packet > 1
  BY UsbAssumption DEF Device
<1> DEFINE u == read_console_callback(t)
           len == Lesser(Packet, t.count)
<1>2. CASE t.count = 0
  <2>1. u = LastSent(t) /\ len = 0 /\ t.count < Packet
    BY <1>1, <1>2 DEF read_console_callback, Lesser
  <2>2. Zero(t.req) = [of |-> t.req, header |-> NoHeader, body |-> << >>]
    BY <1>1, ZeroPacket
  <2>3. Len(<< >>) = 0
    OBVIOUS
  <2> HIDE DEF u, len
  <2>4. /\ Device(u) /\ Rings(u) /\ SameRequest(t, u) /\ SameCommand(t, u)
        /\ SameAnswer(t, u) /\ SameLeft(t, u) /\ u.stalled = t.stalled
        /\ u.in = Zero(t.req) /\ u.txcallback = "short" /\ u.out /\ u.rxcallback = "ack"
    BY <2>1, LastSentEffect
  <2>5. u.count = t.count - len /\ (t.memlen <= t.count => u.memlen <= u.count)
    BY <1>1, <2>1, <2>4 DEF SameLeft
  <2> QED
    BY <2>1, <2>2, <2>3, <2>4, <2>5 DEF u, len
<1>3. CASE t.count # 0
  <2> DEFINE v == TakePiece(t, Packet)
             body == ConsolePiece(t, Packet)
             packet == [Zero(t.req) EXCEPT !.body = body]
             callback == IF t.count < Packet THEN "short" ELSE "read_console"
  <2>1. u = usb_ep0_start_tx(v, packet, callback)
    BY <1>3 DEF read_console_callback
  <2>2. /\ Device(v) /\ Rings(v) /\ SameRequest(t, v) /\ SameCommand(t, v) /\ SameAnswer(t, v)
        /\ v.in = t.in /\ v.out = t.out /\ v.stalled = t.stalled /\ v.tx = t.tx
        /\ v.rxcallback = t.rxcallback /\ v.txcallback = t.txcallback
        /\ v.count = t.count - len
        /\ v.memlen = t.memlen - Lesser(Packet, t.memlen)
    BY <1>1, TakePieceEffect
  <2>3. body \in Seq(Content) /\ (t.memlen <= t.count => Len(body) = len)
    BY <1>1, PieceSeq
  <2>4. packet \in Packets /\ packet.header = NoHeader /\ packet.body = body
    BY <1>1, <2>3, ZeroPacket DEF Packets
  <2>5. callback \in {"short", "read_console"}
    OBVIOUS
  <2>6. t.memlen <= t.count => v.memlen <= v.count
    BY <1>1, <2>2 DEF Lesser
  <2> HIDE DEF u, v, body, packet, callback
  <2>7. /\ DOMAIN u = StaticFields /\ u.in = packet /\ u.txcallback = callback
        /\ SameRequest(v, u) /\ SameCommand(v, u) /\ SameAnswer(v, u) /\ SameLeft(v, u) /\ SameConsole(v, u)
        /\ u.out = v.out /\ u.rxcallback = v.rxcallback /\ u.stalled = v.stalled /\ u.tx = v.tx
    BY <2>1, <2>2 DEF Device, usb_ep0_start_tx, StaticFields, SameRequest, SameCommand,
       SameAnswer, SameLeft, SameConsole
  <2>8. Device(u) /\ Rings(u)
    BY <2>2, <2>4, <2>5, <2>7 DEF Device, Rings, SameRequest, SameCommand, SameAnswer, SameLeft, SameConsole
  <2>9. SameRequest(t, u) /\ SameCommand(t, u) /\ SameAnswer(t, u)
    BY <2>2, <2>7 DEF SameRequest, SameCommand, SameAnswer
  <2>10. /\ u.stalled = t.stalled /\ u.out = t.out /\ u.rxcallback = t.rxcallback
         /\ u.count = t.count - len /\ (t.memlen <= t.count => u.memlen <= u.count)
    BY <2>2, <2>6, <2>7 DEF SameLeft
  <2>11. u.in.header = NoHeader /\ (t.memlen <= t.count => Len(u.in.body) = len)
    BY <2>3, <2>4, <2>7
  <2> QED
    BY <2>7, <2>8, <2>9, <2>10, <2>11 DEF u, len, callback
<1> QED
  BY <1>2, <1>3

\* The packet on the IN endpoint has gone: its callback sends the next one, or ends the data.
LEMMA InEffect ==
    ASSUME NEW t, Device(t), Rings(t)
    PROVE  LET u == InComplete(t) IN
           /\ Device(u) /\ Rings(u) /\ SameRequest(t, u) /\ SameCommand(t, u) /\ SameAnswer(t, u)
           /\ t.txcallback # "read_console" =>
                SameLeft(t, u) /\ (u.in # NoPacket => u.txcallback # "read_console")
           /\ u.out => u.rxcallback = "ack" \/ (t.out /\ u.rxcallback = t.rxcallback)
           /\ t.txcallback = "short" => "in" \in u.stalled
           /\ t.txcallback \in {"tx", "read_console"} =>
                LET left == IF t.txcallback = "tx" THEN t.tx.left ELSE t.count
                    len == Lesser(Packet, left)
                IN  /\ u.in.header = NoHeader
                    /\ u.txcallback = IF len < Packet THEN "short" ELSE t.txcallback
                    /\ t.txcallback = "tx" =>
                         /\ u.in.body = Units(t.tx.of, t.tx.sent, t.tx.sent + len)
                         /\ left > 0 => /\ u.tx.left = left - len /\ u.tx.of = t.tx.of
                                        /\ u.tx.sent = t.tx.sent + len
                    /\ t.txcallback = "read_console" =>
                         /\ u.count = left - len
                         /\ t.memlen <= t.count => Len(u.in.body) = len /\ u.memlen <= u.count
<1> DEFINE v == [t EXCEPT !.in = NoPacket, !.txcallback = "none"]
           u == InComplete(t)
<1>1. NoPacket \in Packets
  BY DEF NoPacket, Packets, NoHeader, Headers, Statuses
<1>2. /\ DOMAIN v = StaticFields /\ v.in = NoPacket /\ v.txcallback = "none"
      /\ SameRequest(t, v) /\ SameCommand(t, v) /\ SameAnswer(t, v) /\ SameLeft(t, v) /\ SameConsole(t, v)
      /\ v.out = t.out /\ v.rxcallback = t.rxcallback /\ v.stalled = t.stalled /\ v.tx = t.tx
  BY DEF Device, StaticFields, SameRequest, SameCommand, SameAnswer, SameLeft, SameConsole
<1>3. Device(v) /\ Rings(v)
  BY <1>1, <1>2 DEF Device, Rings, SameRequest, SameCommand, SameAnswer, SameLeft, SameConsole
<1>4. u = CASE t.txcallback = "none" -> v
            [] t.txcallback = "ack" -> usb_ep0_ack_callback(v, "in")
            [] t.txcallback = "short" -> usb_ep0_short_tx_callback(v)
            [] t.txcallback = "tx" -> usb_ep0_tx_callback(v)
            [] t.txcallback = "read_console" -> read_console_callback(v)
  BY DEF InComplete
<1>5. t.txcallback \in {"none", "ack", "short", "tx", "read_console"}
  BY DEF Device
<1> HIDE DEF u, v
<1>6. CASE t.txcallback \in {"none", "ack", "short"}
  <2>1. /\ DOMAIN u = StaticFields /\ u.in = NoPacket
        /\ u.txcallback = "none"
        /\ SameRequest(v, u) /\ SameCommand(v, u) /\ SameAnswer(v, u) /\ SameLeft(v, u) /\ SameConsole(v, u)
        /\ u.tx = v.tx
        /\ \/ u.out = v.out /\ u.rxcallback = v.rxcallback
           \/ u.rxcallback = "ack"
        /\ t.txcallback = "short" => "in" \in u.stalled
    BY <1>2, <1>4, <1>6 DEF usb_ep0_ack_callback, usb_ep0_short_tx_callback, usb_set_stall, usb_ep0_start_rx,
       Both, StaticFields, SameRequest, SameCommand, SameAnswer, SameLeft, SameConsole
  <2>2. Device(u) /\ Rings(u)
    BY <1>3, <2>1, <1>1 DEF Device, Rings, SameRequest, SameCommand, SameAnswer, SameLeft, SameConsole
  <2>3. SameRequest(t, u) /\ SameCommand(t, u) /\ SameAnswer(t, u) /\ SameLeft(t, u)
    BY <1>2, <2>1 DEF SameRequest, SameCommand, SameAnswer, SameLeft
  <2> QED
    BY <1>2, <1>6, <2>1, <2>2, <2>3 DEF u
<1>7. CASE t.txcallback = "tx"
  <2>1. u = usb_ep0_tx_callback(v)
    BY <1>4, <1>7
  <2> DEFINE len == Lesser(Packet, v.tx.left)
  <2>2. /\ Device(u) /\ Rings(u) /\ SameRequest(v, u) /\ SameCommand(v, u)
        /\ SameAnswer(v, u) /\ SameLeft(v, u) /\ u.stalled = v.stalled
        /\ u.in.header = NoHeader /\ u.in.body = Units(v.tx.of, v.tx.sent, v.tx.sent + len)
        /\ u.txcallback = IF len < Packet THEN "short" ELSE "tx"
        /\ v.tx.left > 0 => /\ u.tx.left = v.tx.left - len /\ u.tx.of = v.tx.of
                            /\ u.tx.sent = v.tx.sent + len
                            /\ u.out = v.out /\ u.rxcallback = v.rxcallback
        /\ v.tx.left = 0 => u.out /\ u.rxcallback = "ack"
    BY <1>3, <2>1, MoreUnits
  <2>3. v.tx.left = 0 \/ v.tx.left > 0
    <3>1. v.tx.left \in Nat
      BY <1>3 DEF Device
    <3> QED
      BY <3>1
  <2>4. SameRequest(t, u) /\ SameCommand(t, u) /\ SameAnswer(t, u) /\ SameLeft(t, u)
    BY <1>2, <2>2 DEF SameRequest, SameCommand, SameAnswer, SameLeft
  <2> HIDE DEF len
  <2>5. u.out => u.rxcallback = "ack" \/ (t.out /\ u.rxcallback = t.rxcallback)
    BY <1>2, <2>2, <2>3
  <2> QED
    BY <1>2, <1>7, <2>2, <2>4, <2>5 DEF u, len
<1>8. CASE t.txcallback = "read_console"
  <2>1. u = read_console_callback(v)
    BY <1>4, <1>8
  <2> DEFINE len == Lesser(Packet, v.count)
  <2>2. /\ Device(u) /\ Rings(u) /\ SameRequest(v, u) /\ SameCommand(v, u)
        /\ SameAnswer(v, u) /\ u.stalled = v.stalled
        /\ u.in.header = NoHeader
        /\ (v.memlen <= v.count => Len(u.in.body) = len /\ u.memlen <= u.count)
        /\ u.count = v.count - len
        /\ u.txcallback = IF v.count < Packet THEN "short" ELSE "read_console"
        /\ u.out => u.rxcallback = "ack" \/ (v.out /\ u.rxcallback = v.rxcallback)
    BY <1>3, <2>1, MoreText
  <2>3. v.count < Packet <=> len < Packet
    <3>1. v.count \in Nat /\ Packet \in Nat
      BY <1>3, UsbAssumption DEF Device
    <3> QED
      BY <3>1 DEF Lesser
  <2>4. SameRequest(t, u) /\ SameCommand(t, u) /\ SameAnswer(t, u)
    BY <1>2, <2>2 DEF SameRequest, SameCommand, SameAnswer
  <2>5. v.count = t.count /\ v.memlen = t.memlen
    BY <1>2 DEF SameLeft
  <2> HIDE DEF len
  <2> QED
    BY <1>2, <1>8, <2>2, <2>3, <2>4, <2>5 DEF u, len
<1> QED
  BY <1>5, <1>6, <1>7, <1>8

\* The status of the host, or of its request.
LEMMA OutEffect ==
    ASSUME NEW t, Device(t), Rings(t), NEW r, NEW data, t.rxcallback # "data"
    PROVE  LET u == OutComplete(t, r, data) IN
           /\ Device(u) /\ Rings(u) /\ SameRequest(t, u) /\ SameCommand(t, u) /\ SameAnswer(t, u)
           /\ SameLeft(t, u) /\ u.in = t.in /\ u.txcallback = t.txcallback /\ u.tx = t.tx
           /\ ~u.out
<1> DEFINE u == OutComplete(t, r, data)
<1>1. /\ DOMAIN u = StaticFields /\ u.in = t.in /\ u.txcallback = t.txcallback /\ u.tx = t.tx
      /\ SameRequest(t, u) /\ SameCommand(t, u) /\ SameAnswer(t, u) /\ SameLeft(t, u) /\ SameConsole(t, u)
      /\ ~u.out /\ u.rxcallback = "none"
  BY DEF Device, OutComplete, usb_ep0_ack_callback, usb_set_stall, usb_ep0_start_rx, Both, StaticFields,
     SameRequest, SameCommand, SameAnswer, SameLeft, SameConsole
<1> HIDE DEF u
<1>2. Device(u) /\ Rings(u)
  BY <1>1 DEF Device, Rings, SameRequest, SameCommand, SameAnswer, SameLeft, SameConsole
<1> QED
  BY <1>1, <1>2 DEF u

\* What every request leaves alone.
SameWorker(t, u) == u.dbgbusy = t.dbgbusy /\ SameRequest(t, u)

Stays(t, u) == /\ u.dbgstate \in {t.dbgstate, "IDLE"}
               /\ u.configuration = 0 => u.dbgstate = "IDLE" \/ (t.configuration = 0 /\ u.dbgstate = t.dbgstate)

\* A SETUP packet.
LEMMA SetupEffect ==
    ASSUME NEW t, Device(t), Rings(t)
    PROVE  LET u == SetupReceived(t) IN
           /\ Device(u) /\ Rings(u) /\ SameCommand(t, u) /\ SameAnswer(t, u) /\ SameLeft(t, u)
           /\ u.req = t.req + 1 /\ u.refused = t.refused /\ u.late = t.late
           /\ u.in = NoPacket /\ ~u.out /\ u.stalled = {}
<1> DEFINE u == SetupReceived(t)
<1>1. NoPacket \in Packets /\ t.req \in Nat
  BY DEF NoPacket, Packets, NoHeader, Headers, Statuses, Device
<1>2. /\ DOMAIN u = StaticFields
      /\ SameCommand(t, u) /\ SameAnswer(t, u) /\ SameLeft(t, u) /\ SameConsole(t, u)
      /\ u.req = t.req + 1 /\ u.refused = t.refused /\ u.late = t.late /\ u.tx = t.tx
      /\ u.in = NoPacket /\ ~u.out /\ u.stalled = {}
      /\ u.rxcallback = t.rxcallback /\ u.txcallback = t.txcallback
  BY DEF Device, SetupReceived, StaticFields, SameCommand, SameAnswer, SameLeft, SameConsole
<1> HIDE DEF u
<1>3. u.req \in Nat /\ u.late \subseteq 0 .. u.req
  BY <1>1, <1>2 DEF Device
<1>4. Device(u)
  <2>1. /\ DOMAIN u = StaticFields /\ u.in \in Packets
        /\ u.rxcallback \in {"none", "ack", "data"}
        /\ u.txcallback \in {"none", "ack", "short", "tx", "read_console"}
        /\ u.tx \in [of : Nat, sent : Nat, left : Nat, ptr : BOOLEAN]
    BY <1>1, <1>2 DEF Device
  <2>2. /\ u.dbgbuf \in Headers /\ u.memof \in Nat /\ u.memlen \in Nat /\ u.count \in Nat
        /\ u.written \in Seq(Content)
    BY <1>2 DEF Device, SameAnswer, SameLeft
  <2> QED
    BY <1>3, <2>1, <2>2 DEF Device
<1>5. Rings(u)
  BY <1>2 DEF Rings, SameConsole
<1> QED
  BY <1>2, <1>4, <1>5 DEF u

\* A request that is refused.
LEMMA RefuseEffect ==
    ASSUME NEW t, Device(t), Rings(t)
    PROVE  LET u == Refuse(t) IN
           /\ Device(u) /\ Rings(u) /\ SameRequest(t, u) /\ SameCommand(t, u) /\ SameAnswer(t, u)
           /\ SameLeft(t, u) /\ u.in = t.in /\ ~u.out /\ "in" \in u.stalled
<1> DEFINE u == Refuse(t)
<1>1. /\ DOMAIN u = StaticFields
      /\ SameRequest(t, u) /\ SameCommand(t, u) /\ SameAnswer(t, u) /\ SameLeft(t, u) /\ SameConsole(t, u)
      /\ u.in = t.in /\ ~u.out /\ "in" \in u.stalled /\ u.tx = t.tx
      /\ u.rxcallback = "none" /\ u.txcallback = t.txcallback
  BY DEF Device, Refuse, usb_set_stall, usb_ep0_start_rx, Both, StaticFields, SameRequest, SameCommand,
     SameAnswer, SameLeft, SameConsole
<1> HIDE DEF u
<1>2. Device(u) /\ Rings(u)
  BY <1>1 DEF Device, Rings, SameRequest, SameCommand, SameAnswer, SameLeft, SameConsole
<1> QED
  BY <1>1, <1>2 DEF u

\* A request without data that is done.
LEMMA AcknowledgeEffect ==
    ASSUME NEW t, Device(t), Rings(t)
    PROVE  LET u == Acknowledge(t) IN
           /\ Device(u) /\ Rings(u) /\ SameRequest(t, u) /\ SameCommand(t, u) /\ SameAnswer(t, u)
           /\ SameLeft(t, u) /\ u.txcallback = "ack" /\ ~u.out
<1> DEFINE u == Acknowledge(t)
<1>1. Zero(t.req) \in Packets
  BY ZeroPacket DEF Device
<1>2. /\ DOMAIN u = StaticFields
      /\ SameRequest(t, u) /\ SameCommand(t, u) /\ SameAnswer(t, u) /\ SameLeft(t, u) /\ SameConsole(t, u)
      /\ u.in = Zero(t.req) /\ ~u.out /\ u.tx = t.tx
      /\ u.rxcallback = "none" /\ u.txcallback = "ack"
  BY DEF Device, Acknowledge, usb_set_stall, usb_ep0_start_rx, usb_ep0_start_tx, StaticFields, SameRequest,
     SameCommand, SameAnswer, SameLeft, SameConsole
<1> HIDE DEF u
<1>3. Device(u) /\ Rings(u)
  BY <1>1, <1>2 DEF Device, Rings, SameRequest, SameCommand, SameAnswer, SameLeft, SameConsole
<1> QED
  BY <1>2, <1>3 DEF u

\* The first packet of size units of a request's own data.
Sends(t, u, size) ==
    LET len == Lesser(Packet, size)
    IN  /\ u.in.header = NoHeader /\ u.in.body = Units(t.req, 0, len)
        /\ u.txcallback = IF len < Packet THEN "short" ELSE "tx"
        /\ size > 0 => u.tx.left = size - len /\ u.tx.of = t.req /\ u.tx.sent = len

\* A request whose own data are sent.
LEMMA SendEffect ==
    ASSUME NEW t, Device(t), Rings(t), NEW size \in Nat
    PROVE  LET u == Send(t, size) IN
           /\ Device(u) /\ Rings(u) /\ SameRequest(t, u) /\ SameCommand(t, u) /\ SameAnswer(t, u)
           /\ SameLeft(t, u) /\ Sends(t, u, size) /\ (u.out => u.rxcallback = "ack")
<1> DEFINE v == [usb_ep0_start_rx(t, FALSE, "none") EXCEPT
                            !.tx = [of |-> t.req, sent |-> 0, left |-> size, ptr |-> TRUE]]
           u == Send(t, size)
<1>1. u = usb_ep0_tx_callback(v)
  BY DEF Send
<1>2. /\ DOMAIN v = StaticFields
      /\ SameRequest(t, v) /\ SameCommand(t, v) /\ SameAnswer(t, v) /\ SameLeft(t, v) /\ SameConsole(t, v)
      /\ v.in = t.in /\ v.out = FALSE /\ v.tx = [of |-> t.req, sent |-> 0, left |-> size, ptr |-> TRUE]
      /\ v.rxcallback = "none" /\ v.txcallback = t.txcallback
  BY DEF Device, usb_ep0_start_rx, StaticFields, SameRequest, SameCommand, SameAnswer, SameLeft, SameConsole
<1> HIDE DEF u, v
<1>3. Device(v) /\ Rings(v)
  <2>1. v.tx \in [of : Nat, sent : Nat, left : Nat, ptr : BOOLEAN]
    <3>1. t.req \in Nat
      BY DEF Device
    <3> QED
      BY <1>2, <3>1
  <2>2. Device(v)
    BY <1>2, <2>1 DEF Device, SameRequest, SameAnswer, SameLeft
  <2>3. Rings(v)
    BY <1>2 DEF Rings, SameConsole
  <2> QED
    BY <2>2, <2>3
<1> DEFINE len == Lesser(Packet, v.tx.left)
<1>4. /\ Device(u) /\ Rings(u) /\ SameRequest(v, u) /\ SameCommand(v, u)
      /\ SameAnswer(v, u) /\ SameLeft(v, u)
      /\ u.in.header = NoHeader /\ u.in.body = Units(v.tx.of, v.tx.sent, v.tx.sent + len)
      /\ u.txcallback = IF len < Packet THEN "short" ELSE "tx"
      /\ v.tx.left > 0 => /\ u.tx.left = v.tx.left - len /\ u.tx.of = v.tx.of
                          /\ u.tx.sent = v.tx.sent + len
                          /\ u.out = v.out /\ u.rxcallback = v.rxcallback
      /\ v.tx.left = 0 => u.out /\ u.rxcallback = "ack"
  BY <1>1, <1>3, MoreUnits
<1>5. v.tx.left = size /\ v.tx.sent = 0 /\ v.tx.of = t.req
  BY <1>2
<1>6. len \in Nat
  BY <1>5, UsbAssumption DEF Lesser
<1> HIDE DEF len
<1>7. 0 + len = len /\ (size = 0 \/ size > 0)
  BY <1>6
<1>8. Sends(t, u, size)
  BY <1>4, <1>5, <1>7 DEF Sends, len
<1>9. u.out => u.rxcallback = "ack"
  BY <1>2, <1>4, <1>5, <1>7
<1>10. SameRequest(t, u) /\ SameCommand(t, u) /\ SameAnswer(t, u) /\ SameLeft(t, u)
  BY <1>2, <1>4 DEF SameRequest, SameCommand, SameAnswer, SameLeft
<1> QED
  BY <1>4, <1>8, <1>9, <1>10 DEF u

\* A configuration is set or cleared, or the address: nothing is sent by it.
LEMMA ConfigureEffect ==
    ASSUME NEW t, Device(t), Rings(t), NEW v,
           \/ v = t \/ v = EnableMonitor(t) \/ v = [t EXCEPT !.address = TRUE]
           \/ \E n : v = SetConfiguration(t, n) \/ v = usb_unconfigure(t)
    PROVE  /\ Device(v) /\ Rings(v) /\ SameWorker(t, v) /\ SameAnswer(t, v) /\ SameLeft(t, v) /\ Stays(t, v)
           /\ v.in = t.in /\ v.out = t.out
<1> DEFINE Kept(w) ==
             /\ DOMAIN w = StaticFields
             /\ SameWorker(t, w) /\ SameAnswer(t, w) /\ SameLeft(t, w) /\ SameConsole(t, w) /\ Stays(t, w)
             /\ w.in = t.in /\ w.out = t.out /\ w.tx = t.tx
             /\ w.rxcallback = t.rxcallback /\ w.txcallback = t.txcallback
<1>3. Kept(t)
  BY DEF Device, EnableMonitor, StaticFields, SameRequest, SameWorker, Stays,
     SameAnswer, SameLeft, SameConsole
<1>4. Kept(EnableMonitor(t))
  BY DEF Device, EnableMonitor, StaticFields, SameRequest, SameWorker, Stays,
     SameAnswer, SameLeft, SameConsole
<1>5. Kept([t EXCEPT !.address = TRUE])
  BY DEF Device, EnableMonitor, StaticFields, SameRequest, SameWorker, Stays,
     SameAnswer, SameLeft, SameConsole
<1>6. Kept(usb_unconfigure(t))
  <2>1. CASE t.configuration = 0
    BY <1>3, <2>1 DEF usb_unconfigure
  <2>2. CASE t.configuration # 0
    BY <2>2 DEF usb_unconfigure, Device, EnableMonitor, StaticFields, SameRequest, SameWorker, Stays,
       SameAnswer, SameLeft, SameConsole
  <2> QED
    BY <2>1, <2>2
<1>7. ASSUME NEW n PROVE Kept(SetConfiguration(t, n))
  <2> DEFINE w == usb_unconfigure(t)
             x == [w EXCEPT !.configuration = n]
  <2>1. Kept(w)
    BY <1>6
  <2> HIDE DEF w
  <2>2. /\ DOMAIN x = StaticFields
        /\ SameWorker(w, x) /\ SameAnswer(w, x) /\ SameLeft(w, x) /\ SameConsole(w, x)
        /\ x.in = w.in /\ x.out = w.out /\ x.tx = w.tx /\ x.dbgstate = w.dbgstate
        /\ x.rxcallback = w.rxcallback /\ x.txcallback = w.txcallback /\ x.configuration = n
    BY <2>1 DEF StaticFields, SameRequest, SameWorker, SameAnswer, SameLeft, SameConsole
  <2> HIDE DEF x
  <2>3. SetConfiguration(t, n) = IF n = 0 THEN x ELSE EnableMonitor(x)
    BY DEF SetConfiguration, x, w
  <2>4. w.dbgstate = "IDLE" \/ (t.configuration = 0 /\ w.dbgstate = t.dbgstate)
    BY DEF w, usb_unconfigure, EnableMonitor, Device, StaticFields
  <2>5. Kept(x)
    BY <2>1, <2>2, <2>4 DEF SameRequest, SameWorker, SameAnswer, SameLeft, SameConsole, Stays
  <2>6. Kept(EnableMonitor(x))
    BY <2>5 DEF EnableMonitor, StaticFields, SameRequest, SameWorker, SameAnswer, SameLeft, SameConsole, Stays
  <2> QED
    BY <2>3, <2>5, <2>6
<1>1. Kept(v)
  BY <1>3, <1>4, <1>5, <1>6, <1>7
<1>2. Device(v) /\ Rings(v)
  BY <1>1 DEF Device, Rings, SameRequest, SameWorker, SameAnswer, SameLeft, SameConsole
<1> QED
  BY <1>1, <1>2

\* A standard request changes nothing of an answer, and answers for itself.
LEMMA StandardEffect ==
    ASSUME NEW t, Device(t), Rings(t), t.in = NoPacket, ~t.out,
           NEW r \in Requests, r.kind \in StandardKinds
    PROVE  LET u == StandardSetup(t, r) IN
           /\ Device(u) /\ Rings(u) /\ SameWorker(t, u) /\ SameAnswer(t, u) /\ SameLeft(t, u)
           /\ Stays(t, u)
           /\ u.in # NoPacket => u.txcallback # "read_console"
           /\ u.out => u.rxcallback = "ack"
           /\ r.kind = "descriptor" => Sends(t, u, Lesser(DescriptorSize, r.units))
           /\ r.kind = "status" => "in" \in u.stalled \/ Sends(t, u, 1)
<1> DEFINE u == StandardSetup(t, r)
           Changed(v) == \/ v = t \/ v = EnableMonitor(t) \/ v = [t EXCEPT !.address = TRUE]
                         \/ \E n : v = SetConfiguration(t, n) \/ v = usb_unconfigure(t)
           size == Lesser(DescriptorSize, r.units)
<1>1. r.units \in Nat /\ size \in Nat /\ 1 \in Nat
  BY UsbAssumption DEF Requests, Lesser
<1>2. \/ \E v : Changed(v) /\ u = Acknowledge(v) /\ r.kind \notin {"descriptor", "status"}
      \/ \E v : Changed(v) /\ u = Refuse(v) /\ r.kind # "descriptor"
      \/ r.kind = "descriptor" /\ u = Send(t, size)
      \/ r.kind = "status" /\ u = Send(t, 1)
  BY DEF StandardSetup, StandardKinds
<1> HIDE DEF u, size
<1>3. CASE \E v : Changed(v) /\ u = Acknowledge(v) /\ r.kind \notin {"descriptor", "status"}
  <2>1. PICK v : Changed(v) /\ u = Acknowledge(v)
    BY <1>3
  <2>2. /\ Device(v) /\ Rings(v) /\ SameWorker(t, v) /\ SameAnswer(t, v) /\ SameLeft(t, v) /\ Stays(t, v)
        /\ v.in = t.in /\ v.out = t.out
    BY <2>1, ConfigureEffect
  <2>3. /\ Device(u) /\ Rings(u) /\ SameRequest(v, u) /\ SameCommand(v, u) /\ SameAnswer(v, u)
        /\ SameLeft(v, u) /\ u.txcallback = "ack" /\ ~u.out
    BY <2>1, <2>2, AcknowledgeEffect
  <2> QED
    BY <1>3, <2>2, <2>3 DEF u, SameWorker, SameRequest, SameCommand, SameAnswer, SameLeft, Stays
<1>4. CASE \E v : Changed(v) /\ u = Refuse(v) /\ r.kind # "descriptor"
  <2>1. PICK v : Changed(v) /\ u = Refuse(v)
    BY <1>4
  <2>2. /\ Device(v) /\ Rings(v) /\ SameWorker(t, v) /\ SameAnswer(t, v) /\ SameLeft(t, v) /\ Stays(t, v)
        /\ v.in = t.in /\ v.out = t.out
    BY <2>1, ConfigureEffect
  <2>3. /\ Device(u) /\ Rings(u) /\ SameRequest(v, u) /\ SameCommand(v, u) /\ SameAnswer(v, u)
        /\ SameLeft(v, u) /\ u.in = v.in /\ ~u.out /\ "in" \in u.stalled
    BY <2>1, <2>2, RefuseEffect
  <2> QED
    BY <1>4, <2>2, <2>3 DEF u, SameWorker, SameRequest, SameCommand, SameAnswer, SameLeft, Stays
<1>5. ASSUME NEW n \in Nat, u = Send(t, n)
      PROVE  /\ Device(u) /\ Rings(u) /\ SameWorker(t, u) /\ SameAnswer(t, u) /\ SameLeft(t, u)
             /\ Stays(t, u) /\ (u.in # NoPacket => u.txcallback # "read_console")
             /\ (u.out => u.rxcallback = "ack") /\ Sends(t, u, n)
  <2>1. /\ Device(u) /\ Rings(u) /\ SameRequest(t, u) /\ SameCommand(t, u) /\ SameAnswer(t, u)
        /\ SameLeft(t, u) /\ Sends(t, u, n) /\ (u.out => u.rxcallback = "ack")
    BY <1>5, SendEffect
  <2>2. u.txcallback # "read_console"
    BY <2>1 DEF Sends
  <2> QED
    BY <2>1, <2>2 DEF SameWorker, SameCommand, Stays
<1>6. CASE r.kind = "descriptor" /\ u = Send(t, size)
  BY <1>1, <1>5, <1>6 DEF u, size
<1>7. CASE r.kind = "status" /\ u = Send(t, 1)
  BY <1>1, <1>5, <1>7 DEF u
<1> QED
  BY <1>2, <1>3, <1>4, <1>6, <1>7

\* The first packet of an answer, with its header.
LEMMA FirstEffect ==
    ASSUME NEW t, Device(t), Rings(t), NEW body \in Seq(Content), NEW rest \in Nat,
           NEW callback \in {"tx", "read_console"}
    PROVE  LET u == FirstPacket(t, body, rest, callback) IN
           /\ Device(u) /\ Rings(u) /\ SameWorker(t, u) /\ SameAnswer(t, u) /\ SameLeft(t, u)
           /\ Stays(t, u) /\ ~u.out
           /\ u.in = [of |-> t.req, header |-> t.dbgbuf, body |-> body]
           /\ u.txcallback = IF Size(u.in) # Packet THEN "short" ELSE IF rest > 0 THEN callback ELSE "tx"
           /\ u.tx.left = t.tx.left /\ u.tx.of = t.memof /\ u.tx.sent = Len(body)
<1> DEFINE u == FirstPacket(t, body, rest, callback)
           packet == [of |-> t.req, header |-> t.dbgbuf, body |-> body]
           next == IF ~ (Size(packet) = Packet) THEN "short" ELSE IF rest > 0 THEN callback ELSE "tx"
<1>1. packet \in Packets /\ Len(body) \in Nat /\ next \in {"short", "tx", "read_console"}
  BY DEF Device, Packets
<1> HIDE DEF packet, next
<1>2. /\ DOMAIN u = StaticFields
      /\ SameWorker(t, u) /\ SameAnswer(t, u) /\ SameLeft(t, u) /\ SameConsole(t, u) /\ Stays(t, u)
      /\ ~u.out /\ u.rxcallback = "none" /\ u.in = packet /\ u.txcallback = next
      /\ u.tx = [of |-> t.memof, sent |-> Len(body), left |-> t.tx.left, ptr |-> TRUE]
  BY DEF Device, FirstPacket, usb_ep0_start_tx, usb_ep0_start_rx, StaticFields, SameWorker, SameRequest, SameAnswer,
     SameLeft, SameConsole, Stays, packet, next
<1> HIDE DEF u
<1>3. u.tx \in [of : Nat, sent : Nat, left : Nat, ptr : BOOLEAN]
  BY <1>1, <1>2 DEF Device
<1>4. Device(u) /\ Rings(u)
  BY <1>1, <1>2, <1>3 DEF Device, Rings, SameWorker, SameRequest, SameAnswer, SameLeft, SameConsole
<1> QED
  BY <1>2, <1>4 DEF u, packet, next

\* The first packet of the answer to a command that is in the buffer.
LEMMA AnswerEffect ==
    ASSUME NEW t, Device(t), Rings(t), NEW want \in Nat
    PROVE  LET u == AnswerCommand(t, want)
               all == Lesser(t.memlen, want)
               len == Lesser(AnswerData, all)
           IN  /\ Device(u) /\ Rings(u) /\ SameWorker(t, u) /\ SameAnswer(t, u) /\ Stays(t, u) /\ ~u.out
               /\ u.in = [of |-> t.req, header |-> t.dbgbuf, body |-> Units(t.memof, 0, len)]
               /\ u.txcallback = IF Size(u.in) # Packet THEN "short" ELSE "tx"
               /\ u.tx.left = all - len /\ u.tx.of = t.memof /\ u.tx.sent = len
<1> DEFINE all == Lesser(t.memlen, want)
           len == Lesser(AnswerData, all)
           v == [t EXCEPT !.memlen = all - len, !.tx.left = all - len]
           u == AnswerCommand(t, want)
<1>1. all \in Nat /\ len \in Nat /\ all - len \in Nat /\ t.memof \in Nat
  BY UsbAssumption DEF Device, Lesser, AnswerData
<1>2. u = FirstPacket(v, Units(v.memof, 0, len), all - len, "tx")
  BY DEF AnswerCommand, Device, StaticFields
<1> HIDE DEF all, len
<1>3. /\ DOMAIN v = StaticFields /\ v.memlen = all - len /\ v.count = t.count
      /\ SameRequest(t, v) /\ SameCommand(t, v) /\ SameAnswer(t, v) /\ SameConsole(t, v)
      /\ v.in = t.in /\ v.out = t.out /\ v.rxcallback = t.rxcallback /\ v.txcallback = t.txcallback
      /\ v.tx = [t.tx EXCEPT !.left = all - len]
  BY DEF Device, StaticFields, SameRequest, SameCommand, SameAnswer, SameConsole
<1> HIDE DEF v, u
<1>4. v.tx \in [of : Nat, sent : Nat, left : Nat, ptr : BOOLEAN] /\ v.tx.left = all - len
  BY <1>1, <1>3 DEF Device
<1>5. Device(v) /\ Rings(v)
  BY <1>1, <1>3, <1>4 DEF Device, Rings, SameRequest, SameCommand, SameAnswer, SameConsole
<1>6. v.memof = t.memof /\ v.req = t.req /\ v.dbgbuf = t.dbgbuf
  BY <1>3 DEF SameAnswer, SameRequest
<1> DEFINE body == Units(t.memof, 0, len)
<1>7. body \in Seq(Content) /\ Len(body) = len
  <2>1. 0 <= len /\ len - 0 = len
    BY <1>1
  <2> QED
    BY <1>1, <2>1, UnitsSeq
<1> HIDE DEF body
<1>8. u = FirstPacket(v, body, all - len, "tx")
  BY <1>2, <1>6 DEF body
<1>9. /\ Device(u) /\ Rings(u) /\ SameWorker(v, u) /\ SameAnswer(v, u) /\ SameLeft(v, u)
      /\ Stays(v, u) /\ ~u.out
      /\ u.in = [of |-> v.req, header |-> v.dbgbuf, body |-> body]
      /\ u.txcallback = IF Size(u.in) # Packet THEN "short" ELSE IF all - len > 0 THEN "tx" ELSE "tx"
      /\ u.tx.left = v.tx.left /\ u.tx.of = v.memof /\ u.tx.sent = Len(body)
  BY <1>1, <1>5, <1>7, <1>8, FirstEffect
<1>10. SameWorker(t, u) /\ SameAnswer(t, u) /\ Stays(t, u)
  BY <1>3, <1>9 DEF SameWorker, SameRequest, SameCommand, SameAnswer, Stays
<1> QED
  BY <1>4, <1>6, <1>7, <1>9, <1>10 DEF u, all, len, body

\* The first packet of console text.
LEMMA TextEffect ==
    ASSUME NEW t, Device(t), Rings(t), NEW want \in Nat
    PROVE  LET u == AnswerConsole(t, want)
               all == Lesser(t.count, want)
               len == Lesser(AnswerData, all)
           IN  /\ Device(u) /\ Rings(u) /\ SameWorker(t, u) /\ Stays(t, u) /\ ~u.out
               /\ u.in.header.of = t.memof /\ u.in.header.status = "ok"
               /\ Len(u.in.body) = len
               /\ u.txcallback = IF Size(u.in) # Packet THEN "short"
                                 ELSE IF all - len > 0 THEN "read_console" ELSE "tx"
               /\ u.tx.left = 0 /\ u.count = all - len /\ u.memlen <= u.count
<1> DEFINE all == Lesser(t.count, want)
           found == Found(t, all)
           len == Lesser(AnswerData, all)
           header == [of |-> t.memof, status |-> "ok", bytes |-> found]
           v == [t EXCEPT !.count = all, !.memlen = found, !.dbgbuf = header]
           w == TakePiece(v, AnswerData)
           x == [w EXCEPT !.tx.left = 0]
           u == AnswerConsole(t, want)
<1>1. /\ all \in Nat /\ len \in Nat /\ all - len \in Nat /\ found \in Nat /\ found <= all
      /\ t.memof \in Nat /\ AnswerData \in Nat
  <2>1. all \in Nat /\ t.memof \in Nat
    BY DEF Device, Lesser
  <2>2. AnswerData \in Nat
    BY UsbAssumption DEF AnswerData
  <2> HIDE DEF all
  <2>3. len \in Nat /\ all - len \in Nat
    BY <2>1, <2>2 DEF Lesser
  <2>4. t.sendwrite - t.sendread \in Int
    BY Sizes DEF Rings
  <2>5. found \in Nat /\ found <= all
    BY <2>1, <2>4 DEF Found
  <2> QED
    BY <2>1, <2>2, <2>3, <2>5
<1>2. header \in Headers /\ header.of = t.memof /\ header.status = "ok"
  BY <1>1 DEF Headers, Statuses
<1>3. u = FirstPacket(x, ConsolePiece(v, AnswerData), x.count, "read_console")
  BY DEF AnswerConsole
<1> HIDE DEF all, found, len, header
<1>4. /\ DOMAIN v = StaticFields /\ v.memlen = found /\ v.count = all /\ v.dbgbuf = header
      /\ SameRequest(t, v) /\ SameCommand(t, v) /\ SameConsole(t, v)
      /\ v.memof = t.memof /\ v.written = t.written
      /\ v.in = t.in /\ v.out = t.out /\ v.rxcallback = t.rxcallback /\ v.txcallback = t.txcallback
      /\ v.tx = t.tx
  BY DEF Device, StaticFields, SameRequest, SameCommand, SameConsole
<1> HIDE DEF v
<1>5. Device(v) /\ Rings(v)
  BY <1>1, <1>2, <1>4 DEF Device, Rings, SameRequest, SameCommand, SameConsole
<1>6. /\ Device(w) /\ Rings(w) /\ SameRequest(v, w) /\ SameCommand(v, w) /\ SameAnswer(v, w)
      /\ w.tx = v.tx /\ w.in = v.in /\ w.out = v.out
      /\ w.rxcallback = v.rxcallback /\ w.txcallback = v.txcallback
      /\ w.count = v.count - Lesser(AnswerData, v.count)
      /\ w.memlen = v.memlen - Lesser(AnswerData, v.memlen)
  BY <1>1, <1>5, TakePieceEffect
<1>7. w.count = all - len /\ w.memlen <= w.count
  BY <1>1, <1>4, <1>6 DEF Lesser, len
<1> DEFINE body == ConsolePiece(v, AnswerData)
<1>8. body \in Seq(Content) /\ Len(body) = len
  BY <1>1, <1>4, <1>5, PieceSeq DEF len
<1> HIDE DEF w, body
<1>9. /\ DOMAIN x = StaticFields
      /\ SameRequest(w, x) /\ SameCommand(w, x) /\ SameAnswer(w, x) /\ SameLeft(w, x) /\ SameConsole(w, x)
      /\ x.in = w.in /\ x.out = w.out /\ x.rxcallback = w.rxcallback /\ x.txcallback = w.txcallback
      /\ x.tx = [w.tx EXCEPT !.left = 0]
  BY <1>6 DEF Device, StaticFields, SameRequest, SameCommand, SameAnswer, SameLeft, SameConsole
<1> HIDE DEF x
<1>10. x.tx \in [of : Nat, sent : Nat, left : Nat, ptr : BOOLEAN] /\ x.tx.left = 0
  <2>1. w.tx \in [of : Nat, sent : Nat, left : Nat, ptr : BOOLEAN]
    BY <1>6 DEF Device
  <2> QED
    BY <1>9, <2>1
<1>11. Device(x) /\ Rings(x)
  BY <1>6, <1>9, <1>10 DEF Device, Rings, SameRequest, SameCommand, SameAnswer, SameLeft, SameConsole
<1>12. x.count = all - len /\ x.memlen <= x.count
  BY <1>7, <1>9 DEF SameLeft
<1>13. u = FirstPacket(x, body, x.count, "read_console")
  BY <1>3 DEF body
<1> HIDE DEF u
<1>14. /\ Device(u) /\ Rings(u) /\ SameWorker(x, u) /\ SameAnswer(x, u) /\ SameLeft(x, u)
       /\ Stays(x, u) /\ ~u.out
       /\ u.in = [of |-> x.req, header |-> x.dbgbuf, body |-> body]
       /\ u.txcallback = IF Size(u.in) # Packet THEN "short" ELSE IF x.count > 0 THEN "read_console" ELSE "tx"
       /\ u.tx.left = x.tx.left /\ u.tx.of = x.memof /\ u.tx.sent = Len(body)
  BY <1>1, <1>8, <1>11, <1>12, <1>13, FirstEffect
<1>15. x.dbgbuf = header
  BY <1>4, <1>6, <1>9 DEF SameAnswer
<1>16. SameWorker(t, u) /\ Stays(t, u)
  BY <1>4, <1>6, <1>9, <1>14 DEF SameWorker, SameRequest, SameCommand, Stays
<1>17. u.count = all - len /\ u.memlen <= u.count
  BY <1>12, <1>14 DEF SameLeft
<1> QED
  BY <1>2, <1>8, <1>10, <1>12, <1>14, <1>15, <1>16, <1>17 DEF u, all, len

-----------------------------------------------------------------------------
(* A request begins.                                                       *)

\* What was made ready stays ready as long as nobody touches it.
LEMMA ReadyStays ==
    ASSUME NEW t, NEW u, NEW c, Ready(t, c), SameAnswer(t, u), SameLeft(t, u),
           u.dbgstate = t.dbgstate, u.refused = t.refused
    PROVE  Ready(u, c)
BY DEF Ready, SameAnswer, SameLeft, GoodHeader, AllWritten

\* The first packet of a request's own data.
LEMMA FlowOwn ==
    ASSUME NEW t, NEW u, Device(t), u.req = t.req, NEW h, h.kind \in {"descriptor", "status"},
           h.got = NoAnswer, Total(h) \in Nat, Sends(t, u, Total(h))
    PROVE  Flow(u, h)
<1> DEFINE size == Total(h)
           len == Lesser(Packet, size)
<1>1. size \in Nat /\ Packet \in Nat /\ Packet > 1 /\ t.req \in Nat
  BY UsbAssumption DEF Device
<1>2. /\ u.in.header = NoHeader /\ u.in.body = Units(t.req, 0, len)
      /\ u.txcallback = IF len < Packet THEN "short" ELSE "tx"
      /\ size > 0 => u.tx.left = size - len /\ u.tx.of = t.req /\ u.tx.sent = len
  BY DEF Sends
<1> HIDE DEF size
<1>3. len \in Nat /\ len <= size /\ len <= Packet /\ (len < Packet => len = size)
  BY <1>1 DEF Lesser
<1> HIDE DEF len
<1>4. Len(u.in.body) = len
  <2>1. 0 <= len /\ len - 0 = len
    BY <1>3
  <2>2. Len(Units(t.req, 0, len)) = len - 0
    BY <1>1, <1>3, <2>1, UnitsSeq
  <2> QED
    BY <1>2, <2>1, <2>2
<1>5. Size(u.in) = len
  BY <1>2, <1>3, <1>4 DEF Size
<1>6. ~OfConsole(h) /\ Source(u, h) = t.req /\ h.kind # "answer"
  BY DEF OfConsole, Source
<1>7. h.got.header = NoHeader /\ h.got.body = << >> /\ Len(<< >>) = 0
  BY DEF NoAnswer
<1>8. Units(t.req, 0, 0) = << >>
  BY UnitsNone
<1>9. 0 + len = len /\ 0 \in Nat
  BY <1>3
<1>10. Carries(u, h, 0, len)
  BY <1>2, <1>3, <1>4, <1>6, <1>7, <1>8, <1>9 DEF Carries, size
<1>11. Continues(u, h, 0 + len)
  BY <1>1, <1>2, <1>3, <1>5, <1>6, <1>9 DEF Continues, size
<1> QED
  BY <1>3, <1>5, <1>9, <1>10, <1>11 DEF Flow, size

\* The first packet of the answer that is ready.
LEMMA FlowAnswer ==
    ASSUME NEW t, Device(t), Rings(t), NEW h, h.kind = "answer", h.got = NoAnswer, h.asked \in Asked,
           h.asked.kind \in CommandKinds, h.asked.kind # "flush", h.asked.of \notin t.refused,
           h.units = Total(h), Ready(t, h.asked), t.dbgstate = "RESPOND"
    PROVE  Flow(AnswerCommand(t, h.units), h)
<1> DEFINE want == h.units
           all == Lesser(t.memlen, want)
           len == Lesser(AnswerData, all)
           u == AnswerCommand(t, want)
           c == h.asked
<1>1. /\ c.kind # "con_read" /\ GoodHeader(c, t.dbgbuf) /\ AllWritten(t, c)
      /\ c.kind \in {"read", "i2c"} => t.memof = c.of /\ t.memlen = c.units
      /\ c.of \in Nat /\ c.units \in Nat
  BY DEF Ready, Asked
<1>2. want = IF c.kind \in {"read", "i2c"} THEN c.units ELSE 0
  BY <1>1 DEF Total, DataKinds
<1>3. want \in Nat /\ t.memlen \in Nat /\ t.memof \in Nat /\ Packet \in Nat /\ Packet > 1
  BY <1>1, <1>2, UsbAssumption DEF Device
<1>4. all = want
  BY <1>1, <1>2, <1>3 DEF Lesser
<1>5. /\ Device(u) /\ Rings(u) /\ SameWorker(t, u) /\ SameAnswer(t, u)
      /\ u.in = [of |-> t.req, header |-> t.dbgbuf, body |-> Units(t.memof, 0, len)]
      /\ u.txcallback = IF Size(u.in) # Packet THEN "short" ELSE "tx"
      /\ u.tx.left = all - len /\ u.tx.of = t.memof /\ u.tx.sent = len
  BY <1>3, AnswerEffect
<1> HIDE DEF u, want, all
<1>6. len \in Nat /\ len <= all /\ len + 1 <= Packet /\ (len + 1 < Packet => len = all)
  BY <1>3, <1>4 DEF Lesser, AnswerData
<1> HIDE DEF len
<1>7. Units(t.memof, 0, len) = Units(c.of, 0, len)
  <2>1. CASE len = 0
    BY <2>1, UnitsNone
  <2>2. CASE len # 0
    BY <1>1, <1>2, <1>4, <1>6, <2>2
  <2> QED
    BY <2>1, <2>2
<1>8. u.in.header = t.dbgbuf /\ u.in.body = Units(c.of, 0, len)
  BY <1>5, <1>7
<1>9. Len(u.in.body) = len
  <2>1. 0 <= len /\ len - 0 = len
    BY <1>6
  <2> QED
    <3>1. 0 \in Nat /\ len \in Nat /\ c.of \in Nat /\ 0 <= len
      BY <1>1, <1>6
    <3>2. Len(Units(c.of, 0, len)) = len - 0
      BY ONLY <3>1, UnitsSeq
    <3> QED
      BY <1>8, <2>1, <3>2
<1>10. u.in.header # NoHeader
  BY <1>1, <1>8 DEF GoodHeader, NoHeader
<1>11. Size(u.in) = len + 1
  BY <1>6, <1>9, <1>10 DEF Size
<1>12. ~OfConsole(h) /\ Source(u, h) = c.of /\ Total(h) = all /\ h.units = all
  BY <1>1, <1>4 DEF OfConsole, Source, want
<1>13. h.got.body = << >> /\ Len(<< >>) = 0
  BY DEF NoAnswer
<1>14. Units(c.of, 0, 0) = << >>
  BY UnitsNone
<1>15. 0 + len = len /\ 0 \in Nat
  BY <1>6
<1>16. AllWritten(u, c) /\ GoodHeader(c, u.in.header)
  BY <1>1, <1>5, <1>8 DEF AllWritten, SameAnswer
<1>17. Carries(u, h, 0, len)
  BY <1>6, <1>8, <1>9, <1>12, <1>13, <1>14, <1>15, <1>16 DEF Carries
<1>18. Continues(u, h, 0 + len)
  <2>1. all - len > 0 => t.memof = c.of
    BY <1>1, <1>2, <1>4, <1>6
  <2> QED
    BY <1>3, <1>5, <1>6, <1>11, <1>12, <1>15, <2>1 DEF Continues
<1>19. Flow(u, h)
  BY <1>6, <1>11, <1>12, <1>15, <1>17, <1>18 DEF Flow
<1> QED
  BY <1>19 DEF u, want

\* The first packet of console text.
LEMMA FlowText ==
    ASSUME NEW t, Device(t), Rings(t), NEW h, h.kind = "answer", h.got = NoAnswer, h.asked \in Asked,
           h.asked.kind \in CommandKinds, h.units = Total(h), Ready(t, h.asked), t.dbgstate = "READ_CONSOLE"
    PROVE  Flow(AnswerConsole(t, h.units), h)
<1> DEFINE want == h.units
           all == Lesser(t.count, want)
           len == Lesser(AnswerData, all)
           u == AnswerConsole(t, want)
           c == h.asked
<1>1. c.kind = "con_read" /\ t.memof = c.of /\ t.count = c.units /\ c.units \in Nat
  BY DEF Ready, Asked
<1>2. want = c.units
  BY <1>1 DEF Total, DataKinds
<1>3. want \in Nat /\ Packet \in Nat /\ Packet > 1 /\ all = want
  BY <1>1, <1>2, UsbAssumption DEF Lesser
<1>4. /\ Device(u) /\ Rings(u)
      /\ u.in.header.of = t.memof /\ u.in.header.status = "ok"
      /\ Len(u.in.body) = len
      /\ u.txcallback = IF Size(u.in) # Packet THEN "short"
                        ELSE IF all - len > 0 THEN "read_console" ELSE "tx"
      /\ u.tx.left = 0 /\ u.count = all - len /\ u.memlen <= u.count
  BY <1>3, TextEffect
<1> HIDE DEF u, want, all
<1>5. len \in Nat /\ len <= all /\ len + 1 <= Packet /\ (len + 1 < Packet => len = all)
  BY <1>3 DEF Lesser, AnswerData
<1> HIDE DEF len
<1>6. Size(u.in) = len + 1
  <2>1. u.in.header # NoHeader
    BY <1>4 DEF NoHeader
  <2> QED
    BY <1>4, <1>5, <2>1 DEF Size
<1>7. OfConsole(h) /\ Total(h) = all /\ h.units = all
  BY <1>1, <1>3 DEF OfConsole, want
<1>8. Len(h.got.body) = 0
  BY DEF NoAnswer
<1>9. 0 + len = len /\ 0 \in Nat
  BY <1>5
<1>10. AllWritten(u, c) /\ GoodHeader(c, u.in.header)
  BY <1>1, <1>4 DEF AllWritten, GoodHeader
<1>11. Carries(u, h, 0, len)
  BY <1>4, <1>5, <1>7, <1>8, <1>9, <1>10 DEF Carries
<1>12. Continues(u, h, 0 + len)
  <2>1. all - len > 0 \/ all - len = 0
    BY <1>3, <1>5
  <2> QED
    BY <1>3, <1>4, <1>5, <1>6, <1>7, <1>9, <2>1 DEF Continues
<1>13. Flow(u, h)
  BY <1>5, <1>6, <1>7, <1>9, <1>11, <1>12 DEF Flow
<1> QED
  BY <1>13 DEF u, want

\* Everything that the invariant says, of other statics and another host.
Good(t, h, w) == Device(t) /\ Rings(t) /\ Host(h) /\ Transfer(t, h, w)

\* The stage of a request, and its kind.
LEMMA StageOf ==
    ASSUME NEW r \in Requests
    PROVE  /\ r.kind \in CommandKinds => Stage(r) = "out"
           /\ r.kind \in {"descriptor", "status", "answer"} => Stage(r) = "in" /\ r.kind \notin CommandKinds
           /\ r.kind \in StandardKinds \ {"descriptor", "status"} =>
                Stage(r) = "status_in" /\ r.kind \notin CommandKinds
           /\ r.kind \in StandardKinds \cup CommandKinds \cup {"answer"} /\ r.units \in Nat
           /\ r.kind # "none"
BY DEF Requests, Stage, CommandKinds, StandardKinds, WorkerKinds

\* usb_handle_ep0_setup for every kind of request.
LEMMA HandleSetup ==
    ASSUME NEW t, Device(t), Rings(t), t.in = NoPacket, ~t.out, t.configuration = 0 => t.dbgstate = "IDLE",
           NEW r \in Requests
    PROVE  LET u == usb_handle_ep0_setup(t, r) IN
           /\ Device(u) /\ Rings(u) /\ SameWorker(t, u)
           /\ u.configuration = 0 => u.dbgstate = "IDLE"
           /\ r.kind # "answer" /\ u.in # NoPacket => u.txcallback # "read_console"
           /\ r.kind \in StandardKinds =>
                /\ SameAnswer(t, u) /\ SameLeft(t, u) /\ u.dbgstate \in {t.dbgstate, "IDLE"}
                /\ u.out => u.rxcallback = "ack"
                /\ r.kind = "descriptor" => Sends(t, u, Lesser(DescriptorSize, r.units))
                /\ r.kind = "status" => "in" \in u.stalled \/ Sends(t, u, 1)
           /\ r.kind \in CommandKinds =>
                /\ u.in = NoPacket /\ u.dbgstate \in {"SETUP", "IDLE"}
                /\ u.out => u.dbgstate = "SETUP" /\ u.memlen = 0 /\ u.rxcallback = "data"
           /\ r.kind = "answer" =>
                /\ ~u.out
                /\ \/ SameAnswer(t, u) /\ SameLeft(t, u) /\ u.dbgstate = t.dbgstate /\ "in" \in u.stalled
                   \/ u = AnswerCommand(t, r.units) /\ t.dbgstate = "RESPOND" /\ u.dbgstate # "ASYNC"
                   \/ u = AnswerConsole(t, r.units) /\ t.dbgstate = "READ_CONSOLE" /\ u.dbgstate # "ASYNC"
<1> DEFINE u == usb_handle_ep0_setup(t, r)
<1>1. /\ r.kind \in StandardKinds \cup CommandKinds \cup {"answer"} /\ r.units \in Nat
      /\ StandardKinds \cap CommandKinds = {} /\ "answer" \notin StandardKinds \cup CommandKinds
      /\ "descriptor" \in StandardKinds /\ "status" \in StandardKinds
  BY DEF Requests, StandardKinds, CommandKinds, WorkerKinds
<1>2. CASE r.kind \in StandardKinds
  <2>1. u = StandardSetup(t, r)
    BY <1>2 DEF usb_handle_ep0_setup
  <2> HIDE DEF u
  <2>2. /\ Device(u) /\ Rings(u) /\ SameWorker(t, u) /\ SameAnswer(t, u) /\ SameLeft(t, u)
        /\ Stays(t, u)
        /\ u.in # NoPacket => u.txcallback # "read_console"
        /\ u.out => u.rxcallback = "ack"
        /\ r.kind = "descriptor" => Sends(t, u, Lesser(DescriptorSize, r.units))
        /\ r.kind = "status" => "in" \in u.stalled \/ Sends(t, u, 1)
    BY <1>2, <2>1, StandardEffect
  <2> QED
    BY <1>1, <1>2, <2>2 DEF u, Stays
<1>3. CASE r.kind \notin StandardKinds /\ t.configuration = 0
  <2>1. u = Refuse(t)
    BY <1>3 DEF usb_handle_ep0_setup
  <2> HIDE DEF u
  <2>2. /\ Device(u) /\ Rings(u) /\ SameRequest(t, u) /\ SameCommand(t, u) /\ SameAnswer(t, u)
        /\ SameLeft(t, u) /\ u.in = t.in /\ ~u.out /\ "in" \in u.stalled
    BY <2>1, RefuseEffect
  <2> QED
    BY <1>1, <1>3, <2>2 DEF u, SameCommand, SameWorker
<1>4. CASE r.kind \notin StandardKinds /\ t.configuration # 0 /\ r.kind # "answer"
  <2>1. u = usb_ep0_start_rx([t EXCEPT !.dbgstate = "SETUP", !.memlen = 0], TRUE, "data")
    BY <1>4 DEF usb_handle_ep0_setup, usbdebug_handle_setup
  <2>2. /\ DOMAIN u = StaticFields
        /\ SameWorker(t, u) /\ SameAnswer(t, u) /\ SameConsole(t, u) /\ u.configuration = t.configuration
        /\ u.dbgstate = "SETUP" /\ u.memlen = 0 /\ u.count = t.count /\ u.in = t.in /\ u.txcallback = t.txcallback
        /\ u.rxcallback = "data" /\ u.out /\ u.tx = t.tx
    BY <2>1 DEF Device, StaticFields, usb_ep0_start_rx, SameWorker, SameRequest, SameAnswer, SameConsole
  <2> HIDE DEF u
  <2>3. Device(u) /\ Rings(u)
    <3>1. Device(u)
      BY <1>1, <2>2 DEF Device, SameWorker, SameRequest, SameAnswer
    <3>2. Rings(u)
      BY <1>1, <2>2 DEF Rings, SameConsole
    <3> QED
      BY <3>1, <3>2
  <2> QED
    BY <1>1, <1>4, <2>2, <2>3 DEF u
<1>5. CASE r.kind = "answer" /\ t.configuration # 0
  <2>1. u = CASE t.dbgstate = "RESPOND" -> AnswerCommand(t, r.units)
              [] t.dbgstate = "READ_CONSOLE" -> AnswerConsole(t, r.units)
              [] OTHER -> Refuse(t)
    BY <1>1, <1>5 DEF usb_handle_ep0_setup, usbdebug_handle_setup
  <2> HIDE DEF u
  <2>2. CASE t.dbgstate = "RESPOND"
    <3>1. u = AnswerCommand(t, r.units)
      BY <2>1, <2>2
    <3>2. Device(u) /\ Rings(u) /\ SameWorker(t, u) /\ SameAnswer(t, u) /\ Stays(t, u) /\ ~u.out
      BY <1>1, <3>1, AnswerEffect
    <3> QED
      BY <1>1, <1>5, <2>2, <3>1, <3>2 DEF u, Stays
  <2>3. CASE t.dbgstate = "READ_CONSOLE"
    <3>1. u = AnswerConsole(t, r.units)
      BY <2>1, <2>3
    <3>2. Device(u) /\ Rings(u) /\ SameWorker(t, u) /\ Stays(t, u) /\ ~u.out
      BY <1>1, <3>1, TextEffect
    <3> QED
      BY <1>1, <1>5, <2>3, <3>1, <3>2 DEF u, Stays
  <2>4. CASE t.dbgstate \notin {"RESPOND", "READ_CONSOLE"}
    <3>1. u = Refuse(t)
      BY <2>1, <2>4
    <3>2. /\ Device(u) /\ Rings(u) /\ SameRequest(t, u) /\ SameCommand(t, u) /\ SameAnswer(t, u)
          /\ SameLeft(t, u) /\ u.in = t.in /\ ~u.out /\ "in" \in u.stalled
      BY <3>1, RefuseEffect
    <3> QED
      BY <1>1, <1>5, <2>4, <3>2 DEF u, SameCommand, SameWorker
  <2> QED
    BY <2>2, <2>3, <2>4
<1> QED
  BY <1>1, <1>2, <1>3, <1>4, <1>5

\* The statics and the host of host_setup.
LEMMA SetupStep ==
    ASSUME UsbInvariant, NEW r \in Requests, host_setup(r)
    PROVE  Good(s', host', worker)
<1> DEFINE t == SetupReceived(s)
           u == usb_handle_ep0_setup(t, r)
           g == [host EXCEPT !.phase = Stage(r), !.kind = r.kind, !.units = r.units,
                             !.asked = IF r.kind \in CommandKinds THEN NoCommand ELSE @]
<1>1. s' = u /\ host' = g /\ host.phase = "idle" /\ MayAsk(r)
  BY DEF host_setup
<1>2. /\ Device(s) /\ Rings(s) /\ Host(host) /\ Stages(s, host) /\ LeftToWorker(s, host, worker)
      /\ AskedReady(s, host)
  BY DEF UsbInvariant, Transfer
<1>3. /\ Device(t) /\ Rings(t) /\ SameCommand(s, t) /\ SameAnswer(s, t) /\ SameLeft(s, t)
      /\ t.req = s.req + 1 /\ t.refused = s.refused /\ t.late = s.late
      /\ t.in = NoPacket /\ ~t.out /\ t.stalled = {}
  BY <1>2, SetupEffect
<1>4. t.configuration = 0 => t.dbgstate = "IDLE"
  BY <1>2, <1>3 DEF Stages, SameCommand
<1>5. /\ host.kind = "none" /\ host.got = NoAnswer /\ ~host.begun /\ host.sent = 0
      /\ s.req \in Nat /\ host.asked \in Asked
  BY <1>1, <1>2 DEF Stages, Device, Host
<1>6. /\ DOMAIN g = DOMAIN host /\ g.phase = Stage(r) /\ g.kind = r.kind /\ g.units = r.units
      /\ g.asked = IF r.kind \in CommandKinds THEN NoCommand ELSE host.asked
      /\ g.got = NoAnswer /\ g.begun = host.begun /\ g.sent = 0
  BY <1>2, <1>5 DEF Host
<1> HIDE DEF t, g
<1>7. /\ Device(u) /\ Rings(u) /\ SameWorker(t, u)
      /\ u.configuration = 0 => u.dbgstate = "IDLE"
      /\ r.kind # "answer" /\ u.in # NoPacket => u.txcallback # "read_console"
      /\ r.kind \in StandardKinds =>
           /\ SameAnswer(t, u) /\ SameLeft(t, u) /\ u.dbgstate \in {t.dbgstate, "IDLE"}
           /\ u.out => u.rxcallback = "ack"
           /\ r.kind = "descriptor" => Sends(t, u, Lesser(DescriptorSize, r.units))
           /\ r.kind = "status" => "in" \in u.stalled \/ Sends(t, u, 1)
      /\ r.kind \in CommandKinds =>
           /\ u.in = NoPacket /\ u.dbgstate \in {"SETUP", "IDLE"}
           /\ u.out => u.dbgstate = "SETUP" /\ u.memlen = 0 /\ u.rxcallback = "data"
      /\ r.kind = "answer" =>
           /\ ~u.out
           /\ \/ SameAnswer(t, u) /\ SameLeft(t, u) /\ u.dbgstate = t.dbgstate /\ "in" \in u.stalled
              \/ u = AnswerCommand(t, r.units) /\ t.dbgstate = "RESPOND" /\ u.dbgstate # "ASYNC"
              \/ u = AnswerConsole(t, r.units) /\ t.dbgstate = "READ_CONSOLE" /\ u.dbgstate # "ASYNC"
  BY <1>3, <1>4, HandleSetup
<1> HIDE DEF u
<1>8. /\ r.kind \in CommandKinds => Stage(r) = "out"
      /\ r.kind \in {"descriptor", "status", "answer"} => Stage(r) = "in" /\ r.kind \notin CommandKinds
      /\ r.kind \in StandardKinds \ {"descriptor", "status"} =>
           Stage(r) = "status_in" /\ r.kind \notin CommandKinds
      /\ r.kind \in StandardKinds \cup CommandKinds \cup {"answer"} /\ r.units \in Nat
      /\ r.kind # "none"
  BY StageOf
<1>9. Host(g)
  <2>1. NoCommand \in Asked /\ NoAnswer \in [header : Headers, body : Seq(Content)]
    BY <1>2, <1>5 DEF NoCommand, Asked, Host
  <2> QED
    BY <1>2, <1>5, <1>6, <1>8, <2>1 DEF Host
<1>10. "descriptor" \in StandardKinds /\ "status" \in StandardKinds
  BY DEF StandardKinds
<1>11. Stages(u, g)
  <2>1. r.kind = "answer" => host.asked # NoCommand
    BY <1>1 DEF MayAsk
  <2>2. u.req > 0
    BY <1>3, <1>5, <1>7 DEF SameWorker, SameRequest
  <2>3. g.phase \in {"in", "out", "status_in"}
    BY <1>6 DEF Stage
  <2> QED
    BY <1>6, <1>7, <1>8, <1>10, <2>1, <2>2, <2>3 DEF Stages
<1>12. LeftToWorker(u, g, worker)
  <2>1. u.req = s.req + 1 /\ u.dbgbusy = s.dbgbusy
    BY <1>3, <1>7 DEF SameWorker, SameRequest, SameCommand
  <2>2. ASSUME u.dbgstate = "ASYNC"
        PROVE  /\ s.dbgstate = "ASYNC" /\ r.kind \notin CommandKinds
               /\ Given(u, worker) = Given(s, worker)
    <3>1. /\ SameAnswer(t, u) /\ u.dbgstate = t.dbgstate /\ r.kind \notin CommandKinds
      BY <1>7, <1>8, <2>2
    <3> QED
      BY <1>3, <2>2, <3>1 DEF SameAnswer, SameCommand, Given
  <2>3. s.dbgstate = "ASYNC" => s.dbgbusy /\ Given(s, worker).of \in 1 .. s.req
    BY <1>2 DEF LeftToWorker
  <2>4. worker.pc \in {"run", "writing", "finish"} => u.dbgbusy
    BY <1>2, <2>1 DEF LeftToWorker
  <2>5. ASSUME u.dbgstate = "ASYNC"
        PROVE  u.dbgbusy /\ Given(u, worker).of \in 1 .. u.req /\ Given(u, worker).of < u.req
    BY <1>5, <2>1, <2>2, <2>3, <2>5
  <2> QED
    BY <1>6, <2>2, <2>4, <2>5 DEF LeftToWorker
<1>13. AskedReady(u, g)
  <2> SUFFICES ASSUME g.asked # NoCommand
               PROVE  /\ g.asked.kind \in CommandKinds /\ g.asked.of \in 1 .. u.req
                      /\ g.phase # "idle" => g.kind \notin CommandKinds
                      /\ g.kind # "answer" => u.dbgstate = "IDLE" \/ Ready(u, g.asked)
    BY DEF AskedReady
  <2>1. r.kind \notin CommandKinds /\ g.asked = host.asked
    BY <1>6
  <2>2. /\ g.asked.kind \in CommandKinds /\ g.asked.of \in 1 .. s.req
        /\ s.dbgstate = "IDLE" \/ Ready(s, g.asked)
    BY <1>2, <1>5, <2>1 DEF AskedReady
  <2>3. u.req = s.req + 1 /\ u.refused = s.refused
    BY <1>3, <1>7 DEF SameWorker, SameRequest
  <2>4. g.asked.of \in 1 .. u.req
    BY <1>5, <2>2, <2>3
  <2>5. ASSUME r.kind # "answer" PROVE u.dbgstate = "IDLE" \/ Ready(u, g.asked)
    <3>1. SameAnswer(t, u) /\ SameLeft(t, u) /\ u.dbgstate \in {t.dbgstate, "IDLE"}
      BY <1>7, <1>8, <2>1, <2>5
    <3>2. SameAnswer(s, u) /\ SameLeft(s, u) /\ u.dbgstate \in {s.dbgstate, "IDLE"}
      BY <1>3, <3>1 DEF SameAnswer, SameLeft, SameCommand
    <3> QED
      BY <2>2, <2>3, <3>2, ReadyStays
  <2> QED
    BY <1>6, <2>1, <2>2, <2>4, <2>5
<1>14. CommandStage(u, g)
  BY <1>5, <1>6, <1>7, <1>8 DEF CommandStage
<1>15. DataStage(u, g)
  <2> SUFFICES ASSUME g.phase = "in", ~Exceptional(u, g), "in" \notin u.stalled PROVE Flow(u, g)
    BY DEF DataStage
  <2>1. r.kind \in {"descriptor", "status", "answer"}
    BY <1>6, <1>8
  <2>2. u.req = t.req /\ u.refused = t.refused
    BY <1>7 DEF SameWorker, SameRequest
  <2>3. CASE r.kind \in {"descriptor", "status"}
    <3>1. Total(g) \in Nat
      BY <1>6, <1>8, <2>3, UsbAssumption DEF Total, Lesser
    <3>2. Sends(t, u, Total(g))
      BY <1>6, <1>7, <1>10, <2>3 DEF Total
    <3> QED
      BY <1>3, <1>6, <2>2, <2>3, <3>1, <3>2, FlowOwn
  <2>4. CASE r.kind = "answer"
    <3>1. /\ host.asked # NoCommand
          /\ r.units = IF host.asked.kind \in DataKinds THEN host.asked.units ELSE 0
      BY <1>1, <2>4 DEF MayAsk
    <3>2. g.asked = host.asked /\ g.units = Total(g) /\ g.kind = "answer"
      BY <1>6, <1>8, <2>4, <3>1 DEF Total
    <3>3. g.asked.kind # "flush" /\ g.asked.of \notin t.refused
      BY <2>2, <3>2 DEF Exceptional
    <3>4. /\ g.asked.kind \in CommandKinds
          /\ s.dbgstate = "IDLE" \/ Ready(s, g.asked)
      BY <1>2, <1>5, <3>1, <3>2 DEF AskedReady
    <3>5. t.dbgstate = s.dbgstate
      BY <1>3 DEF SameCommand
    <3>6. t.dbgstate # "IDLE" => Ready(t, g.asked)
      BY <1>3, <3>4, <3>5, ReadyStays
    <3>7. g.asked \in Asked /\ g.got = NoAnswer
      BY <1>6, <1>9 DEF Host
    <3>8. CASE u = AnswerCommand(t, r.units) /\ t.dbgstate = "RESPOND"
      BY <1>3, <1>6, <3>2, <3>3, <3>4, <3>6, <3>7, <3>8, FlowAnswer
    <3>9. CASE u = AnswerConsole(t, r.units) /\ t.dbgstate = "READ_CONSOLE"
      BY <1>3, <1>6, <3>2, <3>4, <3>6, <3>7, <3>9, FlowText
    <3> QED
      BY <1>7, <2>4, <3>8, <3>9
  <2> QED
    BY <2>1, <2>3, <2>4
<1>16. Delivered(u, g)
  BY <1>6, <1>8, StageOf DEF Delivered, Stage
<1> QED
  BY <1>1, <1>7, <1>9, <1>11, <1>12, <1>13, <1>14, <1>15, <1>16 DEF Good, Transfer

-----------------------------------------------------------------------------
(* The data of a command.                                                  *)

SameStage(t, u) ==
    /\ u.in = t.in /\ u.out = t.out /\ u.tx = t.tx
    /\ u.rxcallback = t.rxcallback /\ u.txcallback = t.txcallback

\* A command is acknowledged.
LEMMA RespondEffect ==
    ASSUME NEW t, Device(t), Rings(t)
    PROVE  LET u == Respond(t) IN
           /\ Device(u) /\ Rings(u) /\ SameWorker(t, u) /\ SameAnswer(t, u) /\ SameLeft(t, u)
           /\ u.configuration = t.configuration /\ u.dbgstate = "RESPOND"
           /\ u.txcallback = "none" /\ u.out = t.out
<1> DEFINE u == Respond(t)
<1>1. Zero(t.req) \in Packets
  BY ZeroPacket DEF Device
<1>2. /\ DOMAIN u = StaticFields
      /\ SameWorker(t, u) /\ SameAnswer(t, u) /\ SameLeft(t, u) /\ SameConsole(t, u)
      /\ u.configuration = t.configuration /\ u.dbgstate = "RESPOND"
      /\ u.in = Zero(t.req) /\ u.txcallback = "none" /\ u.out = t.out
      /\ u.rxcallback = t.rxcallback /\ u.tx = t.tx
  BY DEF Device, Respond, usb_set_stall, usb_ep0_start_tx, StaticFields, SameRequest, SameWorker,
     SameAnswer, SameLeft, SameConsole
<1> HIDE DEF u
<1>3. Device(u) /\ Rings(u)
  BY <1>1, <1>2 DEF Device, Rings, SameRequest, SameWorker, SameAnswer, SameLeft, SameConsole
<1> QED
  BY <1>2, <1>3 DEF u

\* More data are expected.
LEMMA MoreDataEffect ==
    ASSUME NEW t, Device(t), Rings(t), NEW state
    PROVE  LET u == MoreData(t, state) IN
           /\ Device(u) /\ Rings(u) /\ SameWorker(t, u) /\ SameAnswer(t, u) /\ SameLeft(t, u)
           /\ u.configuration = t.configuration /\ u.dbgstate = state
           /\ u.in = t.in /\ u.out /\ u.rxcallback = "data"
<1> DEFINE u == MoreData(t, state)
<1>1. /\ DOMAIN u = StaticFields
      /\ SameWorker(t, u) /\ SameAnswer(t, u) /\ SameLeft(t, u) /\ SameConsole(t, u)
      /\ u.configuration = t.configuration /\ u.dbgstate = state
      /\ u.in = t.in /\ u.txcallback = t.txcallback /\ u.out
      /\ u.rxcallback = "data" /\ u.tx = t.tx
  BY DEF Device, MoreData, usb_ep0_start_rx, StaticFields, SameRequest, SameWorker,
     SameAnswer, SameLeft, SameConsole
<1> HIDE DEF u
<1>2. Device(u) /\ Rings(u)
  BY <1>1 DEF Device, Rings, SameRequest, SameWorker, SameAnswer, SameLeft, SameConsole
<1> QED
  BY <1>1, <1>2 DEF u

\* What the host typed goes into its ring.
LEMMA TypedEffect ==
    ASSUME NEW t, Device(t), Rings(t), NEW n \in Nat
    PROVE  LET u == Typed(t, n) IN
           /\ Device(u) /\ Rings(u) /\ SameRequest(t, u) /\ SameCommand(t, u) /\ SameAnswer(t, u)
           /\ SameLeft(t, u) /\ SameStage(t, u)
<1> DEFINE u == Typed(t, n)
           i == (t.recvwrite + n) % RecvSize
<1>1. i \in 0 .. RecvSize - 1
  <2>1. t.recvwrite + n \in Int
    BY DEF Rings
  <2> QED
    BY <2>1, Sizes, Wraps
<1>2. /\ DOMAIN u = StaticFields
      /\ SameRequest(t, u) /\ SameCommand(t, u) /\ SameAnswer(t, u) /\ SameLeft(t, u) /\ SameStage(t, u)
      /\ u.sendbuf = t.sendbuf /\ u.sendread = t.sendread /\ u.sendwrite = t.sendwrite
      /\ u.text = t.text /\ u.recvread = t.recvread /\ u.recvwrite = i
  BY DEF Device, Typed, StaticFields, SameRequest, SameCommand, SameAnswer, SameLeft, SameStage
<1> HIDE DEF u, i
<1>3. Device(u) /\ Rings(u)
  BY <1>1, <1>2 DEF Device, Rings, SameRequest, SameCommand, SameAnswer, SameLeft, SameStage
<1> QED
  BY <1>2, <1>3 DEF u

\* After a packet of a command's data: what the invariant needs, of command c.
After(t, u, c, last) ==
    /\ Device(u) /\ Rings(u)
    /\ u.req = t.req /\ u.late = t.late /\ u.configuration = t.configuration
    /\ t.dbgbusy => u.dbgbusy
    /\ u.in # NoPacket => Ready(u, c) /\ u.txcallback = "none"
    /\ u.dbgstate = "ASYNC" =>
         ~t.dbgbusy /\ u.dbgbusy /\ u.dbgbuf = [of |-> c.of, status |-> c.kind, bytes |-> c.units]
    /\ u.out => /\ u.in = NoPacket /\ u.rxcallback = "data"
                /\ \/ /\ u.dbgstate = "WRITE_MEM" /\ c.kind = "write"
                      /\ u.memlen = c.units - last /\ u.written = Units(c.of, 0, last)
                   \/ u.dbgstate = "WRITE_CONSOLE" /\ c.kind = "con_write" /\ GoodHeader(c, u.dbgbuf)

\* A buffer is filled, and the command acknowledged.
LEMMA RespondAfter ==
    ASSUME NEW t, NEW v, Device(v), Rings(v), NEW c \in Asked, NEW last,
           v.req = t.req, v.late = t.late, v.configuration = t.configuration, v.dbgbusy = t.dbgbusy, ~v.out,
           c.kind # "con_read",
           c.of \notin v.refused =>
               /\ c.kind \in {"read", "i2c"} => v.memof = c.of /\ v.memlen = c.units
               /\ c.kind # "flush" => GoodHeader(c, v.dbgbuf),
           AllWritten(v, c)
    PROVE  After(t, Respond(v), c, last)
<1> DEFINE u == Respond(v)
<1>1. /\ Device(u) /\ Rings(u) /\ SameWorker(v, u) /\ SameAnswer(v, u) /\ SameLeft(v, u)
      /\ u.configuration = v.configuration /\ u.dbgstate = "RESPOND"
      /\ u.txcallback = "none" /\ u.out = v.out
  BY RespondEffect
<1> HIDE DEF u
<1>2. Ready(u, c)
  BY <1>1 DEF Ready, SameWorker, SameRequest, SameAnswer, SameLeft, AllWritten, GoodHeader
<1>3. u.req = t.req /\ u.late = t.late /\ u.configuration = t.configuration /\ u.dbgbusy = t.dbgbusy
  BY <1>1 DEF SameWorker, SameRequest
<1>4. After(t, u, c, last)
  BY <1>1, <1>2, <1>3 DEF After
<1> QED
  BY <1>4 DEF u

\* The first packet of a WRITE MEMORY.
LEMMA WriteMemoryEffect ==
    ASSUME NEW t, Device(t), Rings(t), ~t.out, t.in = NoPacket, s.req = t.req, NEW n \in Nat, NEW last \in Nat, last <= n
    PROVE  LET u == WriteMemory(t, n, Units(t.req, 0, last)) IN
           After(t, u, [of |-> t.req, kind |-> "write", units |-> n], last)
<1> DEFINE data == Units(t.req, 0, last)
           u == [t EXCEPT !.written = data, !.memlen = n - Len(data)]
           v == [u EXCEPT !.dbgbuf = Answer("ok", 0)]
           c == [of |-> t.req, kind |-> "write", units |-> n]
<1>1. data \in Seq(Content) /\ Len(data) = last /\ t.req \in Nat
  <2>1. 0 <= last /\ last - 0 = last /\ t.req \in Nat
    BY DEF Device
  <2> QED
    BY <2>1, UnitsSeq
<1>2. data = Units(t.req, 0, last)
  OBVIOUS
<1> HIDE DEF data
<1>3. /\ DOMAIN u = StaticFields /\ u.written = data /\ u.memlen = n - last /\ u.count = t.count
      /\ u.dbgbuf = t.dbgbuf /\ u.memof = t.memof /\ u.dbgstate = t.dbgstate
      /\ SameRequest(t, u) /\ SameCommand(t, u) /\ SameStage(t, u) /\ SameConsole(t, u)
  BY <1>1 DEF Device, StaticFields, SameRequest, SameCommand, SameStage, SameConsole
<1>4. WriteMemory(t, n, data) = IF u.memlen > 0 THEN MoreData(u, "WRITE_MEM") ELSE Respond(v)
  BY DEF WriteMemory
<1> HIDE DEF u
<1>5. n - last \in Nat
  OBVIOUS
<1>6. Device(u) /\ Rings(u)
  BY <1>1, <1>3, <1>5 DEF Device, Rings, SameRequest, SameCommand, SameStage, SameConsole
<1>7. c \in Asked /\ c.of = t.req /\ c.kind = "write" /\ c.units = n
  BY <1>1 DEF Asked, CommandKinds
<1> HIDE DEF c
<1>8. CASE u.memlen > 0
  <2> DEFINE x == MoreData(u, "WRITE_MEM")
  <2>1. /\ Device(x) /\ Rings(x) /\ SameWorker(u, x) /\ SameAnswer(u, x) /\ SameLeft(u, x)
        /\ x.configuration = u.configuration /\ x.dbgstate = "WRITE_MEM"
        /\ x.in = u.in /\ x.out /\ x.rxcallback = "data"
    BY <1>6, MoreDataEffect
  <2> HIDE DEF x
  <2>2. After(t, x, c, last)
    BY <1>2, <1>3, <1>7, <2>1 DEF After, SameWorker, SameRequest, SameCommand, SameAnswer, SameLeft, SameStage
  <2> QED
    BY <1>2, <1>4, <1>8, <2>2 DEF x, c
<1>9. CASE ~(u.memlen > 0)
  <2>1. n = last
    BY <1>3, <1>9
  <2>2. Answer("ok", 0) = [of |-> t.req, status |-> "ok", bytes |-> 0] /\ Answer("ok", 0) \in Headers
    BY <1>1 DEF Answer, Headers, Statuses
  <2>3. /\ DOMAIN v = StaticFields /\ v.dbgbuf = Answer("ok", 0) /\ v.written = u.written /\ v.memof = u.memof
        /\ SameRequest(u, v) /\ SameCommand(u, v) /\ SameStage(u, v) /\ SameConsole(u, v) /\ SameLeft(u, v)
    BY <1>3 DEF StaticFields, SameRequest, SameCommand, SameStage, SameConsole, SameLeft
  <2> HIDE DEF v
  <2>4. Device(v) /\ Rings(v)
    BY <1>6, <2>2, <2>3 DEF Device, Rings, SameRequest, SameCommand, SameStage, SameConsole, SameLeft
  <2>5. GoodHeader(c, v.dbgbuf) /\ AllWritten(v, c)
    BY <1>2, <1>3, <1>7, <2>1, <2>2, <2>3 DEF GoodHeader, AllWritten
  <2>6. /\ v.req = t.req /\ v.late = t.late /\ v.configuration = t.configuration /\ v.dbgbusy = t.dbgbusy
        /\ ~v.out
    BY <1>3, <2>3 DEF SameRequest, SameCommand, SameStage
  <2>7. After(t, Respond(v), c, last)
    BY <1>7, <2>4, <2>5, <2>6, RespondAfter
  <2> QED
    BY <1>2, <1>4, <1>9, <2>7 DEF c
<1> QED
  BY <1>8, <1>9

\* The first packet of what the host types.
LEMMA WriteConsoleEffect ==
    ASSUME NEW t, Device(t), Rings(t), ~t.out, t.in = NoPacket, s.req = t.req, NEW n \in Nat, NEW last
    PROVE  After(t, WriteConsole(t, n), [of |-> t.req, kind |-> "con_write", units |-> n], last)
<1> DEFINE total == Lesser(RecvFree(t), n)
           now == Lesser(AnswerData, total)
           w == Typed(t, now)
           u == [w EXCEPT !.dbgbuf = Answer("ok", total)]
           y == [u EXCEPT !.memlen = total - now]
           c == [of |-> t.req, kind |-> "con_write", units |-> n]
<1>1. AnswerData \in Nat /\ t.req \in Nat
  BY UsbAssumption DEF Device, AnswerData
<1>2. RecvFree(t) \in Nat
  <2>1. t.recvread - t.recvwrite - 1 \in Int /\ RecvSize \in Nat \ {0}
    BY Sizes DEF Rings
  <2>2. (t.recvread - t.recvwrite - 1) % RecvSize \in 0 .. RecvSize - 1
    BY <2>1, Wraps
  <2> QED
    BY <2>2 DEF RecvFree
<1>3. total \in Nat /\ total <= n
  BY <1>2 DEF Lesser
<1>4. WriteConsole(t, n) = IF total > now THEN MoreData(y, "WRITE_CONSOLE") ELSE Respond(u)
  BY DEF WriteConsole
<1> HIDE DEF total
<1>5. now \in Nat /\ now <= total /\ total - now \in Nat
  BY <1>1, <1>3 DEF Lesser
<1> HIDE DEF now
<1>6. /\ Device(w) /\ Rings(w) /\ SameRequest(t, w) /\ SameCommand(t, w) /\ SameAnswer(t, w)
      /\ SameLeft(t, w) /\ SameStage(t, w)
  BY <1>5, TypedEffect
<1> HIDE DEF w
<1>7. Answer("ok", total) = [of |-> t.req, status |-> "ok", bytes |-> total] /\ Answer("ok", total) \in Headers
  BY <1>1, <1>3 DEF Answer, Headers, Statuses
<1>8. /\ DOMAIN u = StaticFields /\ u.dbgbuf = Answer("ok", total) /\ u.written = w.written /\ u.memof = w.memof
      /\ SameRequest(w, u) /\ SameCommand(w, u) /\ SameStage(w, u) /\ SameConsole(w, u) /\ SameLeft(w, u)
  BY <1>6 DEF Device, StaticFields, SameRequest, SameCommand, SameStage, SameConsole, SameLeft
<1> HIDE DEF u
<1>9. Device(u) /\ Rings(u)
  BY <1>6, <1>7, <1>8 DEF Device, Rings, SameRequest, SameCommand, SameStage, SameConsole, SameLeft
<1>10. c \in Asked /\ c.of = t.req /\ c.kind = "con_write" /\ c.units = n
  BY <1>1 DEF Asked, CommandKinds
<1> HIDE DEF c
<1>11. GoodHeader(c, u.dbgbuf) /\ AllWritten(u, c)
  BY <1>7, <1>8, <1>10 DEF GoodHeader, AllWritten
<1>12. CASE total > now
  <2>1. /\ DOMAIN y = StaticFields /\ y.memlen = total - now /\ y.count = u.count
        /\ SameRequest(u, y) /\ SameCommand(u, y) /\ SameStage(u, y) /\ SameConsole(u, y) /\ SameAnswer(u, y)
    BY <1>8 DEF StaticFields, SameRequest, SameCommand, SameStage, SameConsole, SameAnswer
  <2> HIDE DEF y
  <2>2. Device(y) /\ Rings(y)
    BY <1>5, <1>9, <2>1 DEF Device, Rings, SameRequest, SameCommand, SameStage, SameConsole, SameAnswer
  <2> DEFINE x == MoreData(y, "WRITE_CONSOLE")
  <2>3. /\ Device(x) /\ Rings(x) /\ SameWorker(y, x) /\ SameAnswer(y, x) /\ SameLeft(y, x)
        /\ x.configuration = y.configuration /\ x.dbgstate = "WRITE_CONSOLE"
        /\ x.in = y.in /\ x.out /\ x.rxcallback = "data"
    BY <2>2, MoreDataEffect
  <2> HIDE DEF x
  <2>4. x.req = t.req /\ x.late = t.late /\ x.configuration = t.configuration /\ x.dbgbusy = t.dbgbusy
    BY <1>6, <1>8, <2>1, <2>3 DEF SameWorker, SameRequest, SameCommand
  <2>5. x.in = NoPacket /\ x.dbgbuf = u.dbgbuf
    BY <1>6, <1>8, <2>1, <2>3 DEF SameStage, SameAnswer
  <2>6. After(t, x, c, last)
    BY <1>10, <1>11, <2>3, <2>4, <2>5 DEF After
  <2> QED
    BY <1>4, <1>5, <1>12, <2>6 DEF x, c
<1>13. CASE ~(total > now)
  <2>1. /\ u.req = t.req /\ u.late = t.late /\ u.configuration = t.configuration /\ u.dbgbusy = t.dbgbusy
        /\ ~u.out
    BY <1>6, <1>8 DEF SameRequest, SameCommand, SameStage
  <2>2. After(t, Respond(u), c, last)
    BY <1>9, <1>10, <1>11, <2>1, RespondAfter
  <2> QED
    BY <1>4, <1>13, <2>2 DEF c
<1> QED
  BY <1>12, <1>13

\* The other commands have no data, or leave them to dbgthread.
LEMMA OtherCommands ==
    ASSUME NEW t, Device(t), Rings(t), ~t.out, t.in = NoPacket, s.req = t.req,
           NEW kind \in CommandKinds \ {"write", "con_write"}, NEW n \in Nat, NEW data, NEW last
    PROVE  LET r == [kind |-> kind, units |-> n]
               c == [of |-> t.req, kind |-> kind, units |-> n]
           IN  After(t, Command(t, r, data), c, last)
<1> DEFINE r == [kind |-> kind, units |-> n]
           c == [of |-> t.req, kind |-> kind, units |-> n]
           u == Command(t, r, data)
<1>1. c \in Asked /\ c.of = t.req /\ c.kind = kind /\ c.units = n /\ r.kind = kind /\ r.units = n /\ t.req \in Nat
  BY DEF Asked, Device
<1>2. kind \in {"info", "bad", "read", "flush", "con_read"} \cup WorkerKinds
  BY DEF CommandKinds
<1>3. /\ Answer("ok", 0) = [of |-> t.req, status |-> "ok", bytes |-> 0] /\ Answer("ok", 0) \in Headers
      /\ Answer("unsupported", 0) = [of |-> t.req, status |-> "unsupported", bytes |-> 0]
      /\ Answer("unsupported", 0) \in Headers
  BY <1>1 DEF Answer, Headers, Statuses
<1>4. ASSUME NEW b \in Headers, NEW of \in Nat, NEW len \in Nat, NEW count \in Nat, NEW v,
             DOMAIN v = StaticFields, v.req = t.req, v.late = t.late, SameCommand(t, v), SameStage(t, v),
             SameConsole(t, v), v.written = t.written, v.dbgbuf = b, v.memof = of, v.memlen = len, v.count = count
      PROVE  Device(v) /\ Rings(v)
  BY <1>4 DEF Device, Rings, SameCommand, SameStage, SameConsole
<1> HIDE DEF c, r
<1>5. ASSUME NEW v, Device(v), Rings(v), v.req = t.req, v.late = t.late, SameCommand(t, v), SameStage(t, v),
             kind # "con_read",
             c.of \notin v.refused =>
                 /\ kind \in {"read", "i2c"} => v.memof = c.of /\ v.memlen = n
                 /\ kind # "flush" => GoodHeader(c, v.dbgbuf)
      PROVE  After(t, Respond(v), c, last)
  <2>1. AllWritten(v, c)
    BY <1>1 DEF AllWritten
  <2>2. v.configuration = t.configuration /\ v.dbgbusy = t.dbgbusy /\ ~v.out
    BY <1>5 DEF SameCommand, SameStage
  <2>3. After(t, Respond(v), c, last)
    BY <1>1, <1>5, <2>1, <2>2, RespondAfter
  <2> QED
    BY <2>3
<1>6. CASE kind = "flush"
  <2>1. u = Respond(t)
    BY <1>1, <1>6 DEF Command, WorkerKinds
  <2>2. SameCommand(t, t) /\ SameStage(t, t)
    BY DEF SameCommand, SameStage
  <2> QED
    BY <1>5, <1>6, <2>1, <2>2 DEF c, r
<1>7. CASE kind \in {"info", "bad", "read"}
  <2> DEFINE v == CASE kind = "info" -> [t EXCEPT !.dbgbuf = Answer("ok", 0)]
                    [] kind = "bad" -> [t EXCEPT !.dbgbuf = Answer("unsupported", 0)]
                    [] kind = "read" -> [t EXCEPT !.dbgbuf = Answer("ok", 0), !.memof = t.req, !.memlen = n]
  <2>1. u = Respond(v)
    BY <1>1, <1>7 DEF Command, WorkerKinds
  <2>2. /\ DOMAIN v = StaticFields /\ SameRequest(t, v) /\ SameCommand(t, v) /\ SameStage(t, v) /\ SameConsole(t, v)
        /\ v.written = t.written /\ v.count = t.count
        /\ v.dbgbuf = Answer(IF kind = "bad" THEN "unsupported" ELSE "ok", 0)
        /\ IF kind = "read" THEN v.memof = t.req /\ v.memlen = n ELSE v.memof = t.memof /\ v.memlen = t.memlen
    BY <1>7 DEF Device, StaticFields, SameRequest, SameCommand, SameStage, SameConsole
  <2> HIDE DEF v
  <2>3. v.dbgbuf \in Headers /\ v.memof \in Nat /\ v.memlen \in Nat /\ v.count \in Nat
    BY <1>1, <1>3, <2>2 DEF Device
  <2>4. Device(v) /\ Rings(v)
    BY <1>4, <2>2, <2>3 DEF SameRequest
  <2>5. GoodHeader(c, v.dbgbuf)
    BY <1>1, <1>3, <2>2 DEF GoodHeader
  <2>6. After(t, Respond(v), c, last)
    BY <1>1, <1>5, <1>7, <2>2, <2>4, <2>5 DEF SameRequest
  <2> QED
    BY <2>1, <2>6 DEF c, r
<1>8. CASE kind = "con_read"
  <2> DEFINE v == [t EXCEPT !.memof = t.req, !.count = n]
             x == Respond(v)
  <2>1. u = [x EXCEPT !.dbgstate = "READ_CONSOLE"]
    BY <1>1, <1>8 DEF Command, ReadConsole, WorkerKinds
  <2>2. /\ DOMAIN v = StaticFields /\ SameRequest(t, v) /\ SameCommand(t, v) /\ SameStage(t, v) /\ SameConsole(t, v)
        /\ v.written = t.written /\ v.count = n /\ v.dbgbuf = t.dbgbuf /\ v.memof = t.req /\ v.memlen = t.memlen
    BY DEF Device, StaticFields, SameRequest, SameCommand, SameStage, SameConsole
  <2> HIDE DEF v
  <2>3. Device(v) /\ Rings(v)
    BY <1>1, <2>2 DEF Device, Rings, SameRequest, SameCommand, SameStage, SameConsole
  <2>4. /\ Device(x) /\ Rings(x) /\ SameWorker(v, x) /\ SameAnswer(v, x) /\ SameLeft(v, x)
        /\ x.configuration = v.configuration /\ x.dbgstate = "RESPOND"
        /\ x.txcallback = "none" /\ x.out = v.out
    BY <2>3, RespondEffect
  <2> HIDE DEF x, u
  <2>5. /\ DOMAIN u = StaticFields /\ SameRequest(x, u) /\ SameConsole(x, u) /\ SameStage(x, u)
        /\ SameAnswer(x, u) /\ SameLeft(x, u) /\ u.dbgbusy = x.dbgbusy /\ u.configuration = x.configuration
        /\ u.dbgstate = "READ_CONSOLE"
    BY <2>1, <2>4 DEF Device, StaticFields, SameRequest, SameStage, SameConsole, SameAnswer, SameLeft
  <2>6. Device(u) /\ Rings(u)
    BY <2>4, <2>5 DEF Device, Rings, SameRequest, SameStage, SameConsole, SameAnswer, SameLeft
  <2>7. Ready(u, c)
    BY <1>1, <1>8, <2>2, <2>4, <2>5 DEF Ready, AllWritten, SameAnswer, SameLeft
  <2>8. u.req = t.req /\ u.late = t.late /\ u.configuration = t.configuration /\ u.dbgbusy = t.dbgbusy
    BY <2>2, <2>4, <2>5 DEF SameWorker, SameRequest, SameCommand
  <2>9. u.txcallback = "none" /\ ~u.out
    BY <2>2, <2>4, <2>5 DEF SameStage
  <2>10. After(t, u, c, last)
    BY <2>5, <2>6, <2>7, <2>8, <2>9 DEF After
  <2> QED
    BY <2>10 DEF c, r, u
<1>9. CASE kind \in WorkerKinds /\ t.dbgbusy
  <2> DEFINE v == [t EXCEPT !.refused = @ \cup {t.req}]
  <2>1. u = Respond(v)
    BY <1>1, <1>9 DEF Command, LeaveToWorker, WorkerKinds
  <2>2. /\ DOMAIN v = StaticFields /\ SameCommand(t, v) /\ SameStage(t, v) /\ SameConsole(t, v)
        /\ SameAnswer(t, v) /\ SameLeft(t, v) /\ v.req = t.req /\ v.late = t.late /\ t.req \in v.refused
    BY DEF Device, StaticFields, SameCommand, SameStage, SameConsole, SameAnswer, SameLeft
  <2> HIDE DEF v
  <2>3. Device(v) /\ Rings(v)
    BY <2>2 DEF Device, Rings, SameCommand, SameStage, SameConsole, SameAnswer, SameLeft
  <2>4. After(t, Respond(v), c, last)
    BY <1>1, <1>5, <1>9, <2>2, <2>3 DEF WorkerKinds
  <2> QED
    BY <2>1, <2>4 DEF c, r
<1>10. CASE kind \in WorkerKinds /\ ~t.dbgbusy
  <2>1. u = [t EXCEPT !.dbgbuf = Answer(kind, n), !.dbgstate = "ASYNC", !.dbgbusy = TRUE, !.signalled = TRUE]
    BY <1>1, <1>10 DEF Command, LeaveToWorker, WorkerKinds
  <2>2. Answer(kind, n) = [of |-> t.req, status |-> kind, bytes |-> n] /\ Answer(kind, n) \in Headers
    BY <1>1, <1>10 DEF Answer, Headers, Statuses
  <2> HIDE DEF u
  <2>3. /\ DOMAIN u = StaticFields /\ SameRequest(t, u) /\ SameStage(t, u) /\ SameConsole(t, u) /\ SameLeft(t, u)
        /\ u.written = t.written /\ u.memof = t.memof /\ u.dbgbuf = Answer(kind, n)
        /\ u.dbgstate = "ASYNC" /\ u.dbgbusy /\ u.configuration = t.configuration
    BY <2>1 DEF Device, StaticFields, SameRequest, SameStage, SameConsole, SameLeft
  <2>4. Device(u) /\ Rings(u)
    BY <2>2, <2>3 DEF Device, Rings, SameRequest, SameStage, SameConsole, SameLeft
  <2>5. After(t, u, c, last)
    BY <1>1, <1>10, <2>2, <2>3, <2>4 DEF After, SameRequest, SameStage
  <2> QED
    BY <2>5 DEF c, r, u
<1> QED
  BY <1>2, <1>6, <1>7, <1>8, <1>9, <1>10

\* All of a sequence.
LEMMA SubSeqAll == ASSUME NEW q \in Seq(Content), NEW n, n = Len(q) PROVE SubSeq(q, 1, n) = q
OBVIOUS

\* Another packet of a WRITE MEMORY.
LEMMA MoreMemoryEffect ==
    ASSUME NEW t, Device(t), Rings(t), ~t.out, t.in = NoPacket, s.req = t.req, NEW n \in Nat,
           NEW sent \in Nat, sent < n, t.dbgstate = "WRITE_MEM", t.memlen = n - sent,
           t.written = Units(t.req, 0, sent)
    PROVE  LET last == Lesser(n, sent + Packet)
           IN  After(t, WriteMemoryData(t, Units(t.req, sent, last)),
                     [of |-> t.req, kind |-> "write", units |-> n], last)
<1> DEFINE last == Lesser(n, sent + Packet)
           data == Units(t.req, sent, last)
           len == Lesser(Len(data), t.memlen)
           u == [t EXCEPT !.memlen = @ - len, !.written = @ \o SubSeq(data, 1, len)]
           v == [u EXCEPT !.dbgbuf = Answer("ok", 0)]
           c == [of |-> t.req, kind |-> "write", units |-> n]
           y == WriteMemoryData(t, data)
<1>1. /\ last \in Nat /\ sent <= last /\ last <= n /\ t.req \in Nat /\ Packet \in Nat
      /\ last - sent <= Packet /\ (last < n => last - sent = Packet)
  BY UsbAssumption DEF Device, Lesser
<1>2. last = Lesser(n, sent + Packet)
  OBVIOUS
<1> HIDE DEF last
<1>3. data \in Seq(Content) /\ Len(data) = last - sent
  BY <1>1, UnitsSeq
<1>4. data = Units(t.req, sent, last)
  OBVIOUS
<1> HIDE DEF data
<1>5. len = last - sent
  BY <1>1, <1>3 DEF Lesser
<1>6. y = IF u.memlen > 0 /\ Len(data) = Packet THEN MoreData(u, u.dbgstate) ELSE Respond(v)
  BY DEF WriteMemoryData
<1> HIDE DEF len, y
<1>7. SubSeq(data, 1, len) = data
  BY <1>3, <1>5, SubSeqAll
<1>8. t.written \o data = Units(t.req, 0, last) /\ Units(t.req, 0, last) \in Seq(Content)
  <2>1. 0 <= last
    BY <1>1
  <2>2. Units(t.req, 0, sent) \o Units(t.req, sent, last) = Units(t.req, 0, last)
    BY <1>1, UnitsAppend
  <2>3. Units(t.req, 0, last) \in Seq(Content)
    BY <1>1, <2>1, UnitsSeq
  <2> QED
    BY <1>4, <2>2, <2>3
<1>9. /\ DOMAIN u = StaticFields /\ u.written = t.written \o data /\ u.memlen = t.memlen - len /\ u.count = t.count
      /\ u.dbgbuf = t.dbgbuf /\ u.memof = t.memof
      /\ SameRequest(t, u) /\ SameCommand(t, u) /\ SameStage(t, u) /\ SameConsole(t, u)
  BY <1>7 DEF Device, StaticFields, SameRequest, SameCommand, SameStage, SameConsole
<1> HIDE DEF u
<1>10. u.memlen = n - last /\ n - last \in Nat
  BY <1>1, <1>5, <1>9
<1>11. Device(u) /\ Rings(u)
  BY <1>8, <1>9, <1>10 DEF Device, Rings, SameRequest, SameCommand, SameStage, SameConsole
<1>12. c \in Asked /\ c.of = t.req /\ c.kind = "write" /\ c.units = n
  BY <1>1 DEF Asked, CommandKinds
<1> HIDE DEF c
<1>13. CASE u.memlen > 0 /\ Len(data) = Packet
  <2> DEFINE x == MoreData(u, u.dbgstate)
  <2>1. /\ Device(x) /\ Rings(x) /\ SameWorker(u, x) /\ SameAnswer(u, x) /\ SameLeft(u, x)
        /\ x.configuration = u.configuration /\ x.dbgstate = u.dbgstate
        /\ x.in = u.in /\ x.out /\ x.rxcallback = "data"
    BY <1>11, MoreDataEffect
  <2> HIDE DEF x
  <2>2. x.written = Units(c.of, 0, last) /\ x.memlen = c.units - last
    BY <1>8, <1>9, <1>10, <1>12, <2>1 DEF SameAnswer, SameLeft
  <2>3. After(t, x, c, last)
    BY <1>9, <1>12, <2>1, <2>2 DEF After, SameWorker, SameRequest, SameCommand, SameStage
  <2> QED
    BY <1>2, <1>4, <1>6, <1>13, <2>3 DEF x, c, y
<1>14. CASE ~(u.memlen > 0 /\ Len(data) = Packet)
  <2>1. n = last
    BY <1>1, <1>3, <1>10, <1>14
  <2>2. Answer("ok", 0) = [of |-> t.req, status |-> "ok", bytes |-> 0] /\ Answer("ok", 0) \in Headers
    BY <1>1 DEF Answer, Headers, Statuses
  <2>3. /\ DOMAIN v = StaticFields /\ v.dbgbuf = Answer("ok", 0) /\ v.written = u.written /\ v.memof = u.memof
        /\ SameRequest(u, v) /\ SameCommand(u, v) /\ SameStage(u, v) /\ SameConsole(u, v) /\ SameLeft(u, v)
    BY <1>9 DEF StaticFields, SameRequest, SameCommand, SameStage, SameConsole, SameLeft
  <2> HIDE DEF v
  <2>4. Device(v) /\ Rings(v)
    BY <1>11, <2>2, <2>3 DEF Device, Rings, SameRequest, SameCommand, SameStage, SameConsole, SameLeft
  <2>5. GoodHeader(c, v.dbgbuf) /\ AllWritten(v, c)
    BY <1>8, <1>9, <1>12, <2>1, <2>2, <2>3 DEF GoodHeader, AllWritten
  <2>6. /\ v.req = t.req /\ v.late = t.late /\ v.configuration = t.configuration /\ v.dbgbusy = t.dbgbusy
        /\ ~v.out
    BY <1>9, <2>3 DEF SameRequest, SameCommand, SameStage
  <2>7. After(t, Respond(v), c, last)
    BY <1>12, <2>4, <2>5, <2>6, RespondAfter
  <2> QED
    BY <1>2, <1>4, <1>6, <1>14, <2>7 DEF c, y
<1> QED
  BY <1>13, <1>14

\* Another packet of what the host types.
LEMMA MoreTypedEffect ==
    ASSUME NEW t, Device(t), Rings(t), ~t.out, t.in = NoPacket, NEW n \in Nat,
           t.dbgstate = "WRITE_CONSOLE", GoodHeader([of |-> t.req, kind |-> "con_write", units |-> n], t.dbgbuf),
           NEW data \in Seq(Content), NEW last
    PROVE  After(t, WriteConsoleData(t, data), [of |-> t.req, kind |-> "con_write", units |-> n], last)
<1> DEFINE bytes == Lesser(Len(data), t.memlen)
           w == Typed(t, bytes)
           u == [w EXCEPT !.memlen = @ - bytes]
           c == [of |-> t.req, kind |-> "con_write", units |-> n]
           y == WriteConsoleData(t, data)
<1>1. bytes \in Nat /\ t.memlen - bytes \in Nat /\ t.req \in Nat
  BY DEF Device, Lesser
<1>2. y = IF bytes > 0 /\ u.memlen > 0 /\ Len(data) = Packet THEN MoreData(u, u.dbgstate) ELSE Respond(u)
  BY DEF WriteConsoleData
<1> HIDE DEF bytes, y
<1>3. /\ Device(w) /\ Rings(w) /\ SameRequest(t, w) /\ SameCommand(t, w) /\ SameAnswer(t, w)
      /\ SameLeft(t, w) /\ SameStage(t, w)
  BY <1>1, TypedEffect
<1> HIDE DEF w
<1>4. /\ DOMAIN u = StaticFields /\ u.memlen = w.memlen - bytes /\ u.count = w.count
      /\ SameRequest(w, u) /\ SameCommand(w, u) /\ SameStage(w, u) /\ SameConsole(w, u) /\ SameAnswer(w, u)
  BY <1>3 DEF Device, StaticFields, SameRequest, SameCommand, SameStage, SameConsole, SameAnswer
<1> HIDE DEF u
<1>5. u.memlen \in Nat
  BY <1>1, <1>3, <1>4 DEF SameLeft
<1>6. Device(u) /\ Rings(u)
  BY <1>3, <1>4, <1>5 DEF Device, Rings, SameRequest, SameCommand, SameStage, SameConsole, SameAnswer
<1>7. c \in Asked /\ c.of = t.req /\ c.kind = "con_write" /\ c.units = n
  BY <1>1 DEF Asked, CommandKinds
<1>8. GoodHeader(c, u.dbgbuf) /\ AllWritten(u, c)
  <2>1. u.dbgbuf = t.dbgbuf
    BY <1>3, <1>4 DEF SameAnswer
  <2> QED
    BY <1>7, <2>1 DEF AllWritten
<1> HIDE DEF c
<1>9. /\ u.req = t.req /\ u.late = t.late /\ u.configuration = t.configuration /\ u.dbgbusy = t.dbgbusy
      /\ ~u.out /\ u.in = NoPacket /\ u.dbgstate = "WRITE_CONSOLE"
  BY <1>3, <1>4 DEF SameRequest, SameCommand, SameStage
<1>10. CASE bytes > 0 /\ u.memlen > 0 /\ Len(data) = Packet
  <2> DEFINE x == MoreData(u, u.dbgstate)
  <2>1. /\ Device(x) /\ Rings(x) /\ SameWorker(u, x) /\ SameAnswer(u, x) /\ SameLeft(u, x)
        /\ x.configuration = u.configuration /\ x.dbgstate = u.dbgstate
        /\ x.in = u.in /\ x.out /\ x.rxcallback = "data"
    BY <1>6, MoreDataEffect
  <2> HIDE DEF x
  <2>2. After(t, x, c, last)
    BY <1>7, <1>8, <1>9, <2>1 DEF After, SameWorker, SameRequest, SameAnswer
  <2> QED
    BY <1>2, <1>10, <2>2 DEF x, c, y
<1>11. CASE ~(bytes > 0 /\ u.memlen > 0 /\ Len(data) = Packet)
  <2>1. After(t, Respond(u), c, last)
    BY <1>6, <1>7, <1>8, <1>9, RespondAfter
  <2> QED
    BY <1>2, <1>11, <2>1 DEF c, y
<1> QED
  BY <1>10, <1>11

\* What the interrupt does with a packet of a command's data.
LEMMA HandleData ==
    ASSUME NEW t, Device(t), Rings(t), ~t.out, t.in = NoPacket, s.req = t.req,
           NEW kind \in CommandKinds, NEW n \in Nat, NEW sent \in Nat, NEW last,
           LET payload == IF kind \in PayloadKinds THEN n ELSE 0
           IN  \/ t.dbgstate = "SETUP" /\ sent = 0 /\ last = Lesser(payload, AnswerData)
               \/ /\ sent < n /\ last = Lesser(n, sent + Packet)
                  /\ \/ t.dbgstate = "WRITE_MEM" /\ kind = "write" /\ t.memlen = n - sent
                        /\ t.written = Units(t.req, 0, sent)
                     \/ t.dbgstate = "WRITE_CONSOLE" /\ kind = "con_write"
                        /\ GoodHeader([of |-> t.req, kind |-> kind, units |-> n], t.dbgbuf)
    PROVE  LET r == [kind |-> kind, units |-> n]
               data == Units(t.req, sent, last)
               u == CASE t.dbgstate = "SETUP" -> Command(t, r, data)
                      [] t.dbgstate = "WRITE_MEM" -> WriteMemoryData(t, data)
                      [] t.dbgstate = "WRITE_CONSOLE" -> WriteConsoleData(t, data)
                      [] OTHER -> Respond(t)
           IN  After(t, u, [of |-> t.req, kind |-> kind, units |-> n], last)
<1> DEFINE r == [kind |-> kind, units |-> n]
           data == Units(t.req, sent, last)
           u == CASE t.dbgstate = "SETUP" -> Command(t, r, data)
                  [] t.dbgstate = "WRITE_MEM" -> WriteMemoryData(t, data)
                  [] t.dbgstate = "WRITE_CONSOLE" -> WriteConsoleData(t, data)
                  [] OTHER -> Respond(t)
           payload == IF kind \in PayloadKinds THEN n ELSE 0
<1>1. AnswerData \in Nat /\ t.req \in Nat /\ Packet \in Nat /\ 0 \in Nat
  BY UsbAssumption DEF AnswerData, Device
<1>2. CASE t.dbgstate = "SETUP" /\ sent = 0 /\ last = Lesser(payload, AnswerData)
  <2>1. u = Command(t, r, data)
    BY <1>2
  <2>2. last \in Nat /\ last <= payload
    BY <1>1, <1>2 DEF Lesser
  <2>3. CASE kind = "write"
    <3>1. u = WriteMemory(t, n, Units(t.req, 0, last))
      BY <1>2, <2>1, <2>3 DEF Command, WorkerKinds
    <3>2. last <= n
      BY <2>2, <2>3 DEF PayloadKinds
    <3> QED
      BY <2>2, <2>3, <3>1, <3>2, WriteMemoryEffect
  <2>4. CASE kind = "con_write"
    <3>1. u = WriteConsole(t, n)
      BY <2>1, <2>4 DEF Command, WorkerKinds
    <3> QED
      BY <2>4, <3>1, WriteConsoleEffect
  <2>5. CASE kind \notin {"write", "con_write"}
    BY <2>1, <2>5, OtherCommands
  <2> QED
    BY <2>3, <2>4, <2>5
<1>3. CASE /\ sent < n /\ last = Lesser(n, sent + Packet)
           /\ t.dbgstate = "WRITE_MEM" /\ kind = "write" /\ t.memlen = n - sent
           /\ t.written = Units(t.req, 0, sent)
  <2>1. u = WriteMemoryData(t, Units(t.req, sent, Lesser(n, sent + Packet)))
    BY <1>3
  <2> QED
    BY <1>3, <2>1, MoreMemoryEffect
<1>4. CASE /\ sent < n /\ last = Lesser(n, sent + Packet)
           /\ t.dbgstate = "WRITE_CONSOLE" /\ kind = "con_write"
           /\ GoodHeader([of |-> t.req, kind |-> kind, units |-> n], t.dbgbuf)
  <2>1. last \in Nat /\ sent <= last /\ last <= n
    BY <1>1, <1>4 DEF Lesser
  <2>2. data \in Seq(Content) /\ Len(data) = last - sent
    <3>1. t.req \in Nat /\ sent \in Nat /\ last \in Nat /\ sent <= last
      BY <1>1, <2>1
    <3>2. data = Units(t.req, sent, last)
      BY <1>4
    <3>3. Units(t.req, sent, last) \in Seq(Content) /\ Len(Units(t.req, sent, last)) = last - sent
      BY ONLY <3>1, UnitsSeq
    <3> QED
      BY <3>2, <3>3
  <2>3. u = WriteConsoleData(t, data)
    BY <1>4
  <2> HIDE DEF data, u
  <2>4. After(t, u, [of |-> t.req, kind |-> kind, units |-> n], last)
    BY <1>4, <2>2, <2>3, MoreTypedEffect
  <2> QED
    BY <1>4, <2>4 DEF data, u
<1> QED
  BY <1>2, <1>3, <1>4

\* The statics and the host of host_sends.
LEMMA SendsStep ==
    ASSUME UsbInvariant, host_sends
    PROVE  Good(s', host', worker) /\ s'.req = s.req /\ s'.late = s.late
<1> DEFINE payload == IF host.kind \in PayloadKinds THEN host.units ELSE 0
           last == Lesser(payload, host.sent + (IF host.begun THEN Packet ELSE AnswerData))
           r == [kind |-> host.kind, units |-> host.units]
           data == Units(s.req, host.sent, last)
           v == [s EXCEPT !.out = FALSE, !.rxcallback = "none"]
           t == usb_ep0_start_rx(v, FALSE, "none")
           c == [of |-> s.req, kind |-> host.kind, units |-> host.units]
           u == CASE t.dbgstate = "SETUP" -> Command(t, r, data)
                  [] t.dbgstate = "WRITE_MEM" -> WriteMemoryData(t, data)
                  [] t.dbgstate = "WRITE_CONSOLE" -> WriteConsoleData(t, data)
                  [] OTHER -> Respond(t)
           g == [host EXCEPT !.begun = TRUE, !.sent = last,
                             !.phase = IF last < payload THEN "out" ELSE "status_in"]
<1>1. /\ Device(s) /\ Rings(s) /\ Host(host) /\ Stages(s, host) /\ LeftToWorker(s, host, worker)
      /\ AskedReady(s, host) /\ CommandStage(s, host)
      /\ worker.pc \in {"wait", "check", "run", "writing", "finish"}
  BY DEF UsbInvariant, Transfer, ThreadTypes
<1>2. host.phase = "out" /\ s.out /\ s' = OutComplete(s, r, data) /\ host' = g
  BY DEF host_sends
<1>3. /\ s.in = NoPacket /\ s.rxcallback = "data" /\ host.kind \in CommandKinds /\ s.req > 0
      /\ \/ ~host.begun /\ host.sent = 0 /\ s.dbgstate = "SETUP" /\ s.memlen = 0
         \/ /\ host.begun /\ host.sent < host.units
            /\ \/ /\ s.dbgstate = "WRITE_MEM" /\ host.kind = "write"
                  /\ s.memlen = host.units - host.sent /\ s.written = Units(s.req, 0, host.sent)
               \/ /\ s.dbgstate = "WRITE_CONSOLE" /\ host.kind = "con_write"
                  /\ GoodHeader(This(s, host), s.dbgbuf)
  BY <1>1, <1>2 DEF CommandStage, Stages
<1>4. s' = usbdebug_handle_data(v, r, data)
  BY <1>2, <1>3 DEF OutComplete
<1>5. s' = u
  BY <1>4 DEF usbdebug_handle_data
<1>6. /\ DOMAIN t = StaticFields
      /\ SameRequest(s, t) /\ SameCommand(s, t) /\ SameAnswer(s, t) /\ SameLeft(s, t) /\ SameConsole(s, t)
      /\ t.in = s.in /\ t.txcallback = s.txcallback /\ t.tx = s.tx /\ ~t.out /\ t.rxcallback = "none"
  BY <1>1 DEF Device, StaticFields, usb_ep0_start_rx, SameRequest, SameCommand, SameAnswer, SameLeft, SameConsole
<1> HIDE DEF t
<1>7. Device(t) /\ Rings(t)
  BY <1>1, <1>6 DEF Device, Rings, SameRequest, SameCommand, SameAnswer, SameLeft, SameConsole
<1>8. /\ host.units \in Nat /\ host.sent \in Nat /\ Packet \in Nat /\ AnswerData \in Nat /\ s.req \in Nat
      /\ host.asked \in Asked
  BY <1>1, UsbAssumption DEF Host, AnswerData, Device
<1>9. payload \in Nat /\ last \in Nat
  BY <1>8 DEF Lesser
<1>10. t.req = s.req /\ t.dbgstate = s.dbgstate /\ t.memlen = s.memlen /\ t.written = s.written /\ t.dbgbuf = s.dbgbuf
  BY <1>6 DEF SameRequest, SameCommand, SameLeft, SameAnswer
<1>11. \/ t.dbgstate = "SETUP" /\ host.sent = 0 /\ last = Lesser(payload, AnswerData)
       \/ /\ host.sent < host.units /\ last = Lesser(host.units, host.sent + Packet)
          /\ \/ t.dbgstate = "WRITE_MEM" /\ host.kind = "write" /\ t.memlen = host.units - host.sent
                /\ t.written = Units(t.req, 0, host.sent)
             \/ t.dbgstate = "WRITE_CONSOLE" /\ host.kind = "con_write"
                /\ GoodHeader([of |-> t.req, kind |-> host.kind, units |-> host.units], t.dbgbuf)
  <2>1. CASE ~host.begun /\ host.sent = 0 /\ s.dbgstate = "SETUP"
    <3>1. host.sent + AnswerData = AnswerData
      BY <1>8, <2>1
    <3> QED
      BY <1>10, <2>1, <3>1
  <2>2. CASE host.begun /\ host.sent < host.units /\ host.kind \in {"write", "con_write"}
    <3>1. payload = host.units
      BY <2>2 DEF PayloadKinds
    <3> QED
      BY <1>3, <1>10, <2>2, <3>1 DEF This
  <2> QED
    BY <1>3, <2>1, <2>2
<1>12. last < payload => host.units = payload
  BY <1>8, <1>9
<1> HIDE DEF payload, last
<1>13. After(t, u, c, last)
  <2>1. u = CASE t.dbgstate = "SETUP" -> Command(t, r, Units(t.req, host.sent, last))
              [] t.dbgstate = "WRITE_MEM" -> WriteMemoryData(t, Units(t.req, host.sent, last))
              [] t.dbgstate = "WRITE_CONSOLE" -> WriteConsoleData(t, Units(t.req, host.sent, last))
              [] OTHER -> Respond(t)
    BY <1>10
  <2> HIDE DEF u
  <2>2. After(t, u, [of |-> t.req, kind |-> host.kind, units |-> host.units], last)
    BY <1>3, <1>6, <1>7, <1>8, <1>10, <1>11, <2>1, HandleData DEF payload
  <2> QED
    BY <1>10, <2>2
<1> HIDE DEF u
<1>14. /\ Device(u) /\ Rings(u) /\ u.req = s.req /\ u.late = s.late /\ u.configuration = s.configuration
       /\ s.dbgbusy => u.dbgbusy
       /\ u.in # NoPacket => Ready(u, c) /\ u.txcallback = "none"
       /\ u.dbgstate = "ASYNC" =>
            ~s.dbgbusy /\ u.dbgbusy /\ u.dbgbuf = [of |-> s.req, status |-> host.kind, bytes |-> host.units]
       /\ u.out => /\ u.in = NoPacket /\ u.rxcallback = "data"
                   /\ \/ /\ u.dbgstate = "WRITE_MEM" /\ host.kind = "write"
                         /\ u.memlen = host.units - last /\ u.written = Units(s.req, 0, last)
                      \/ u.dbgstate = "WRITE_CONSOLE" /\ host.kind = "con_write" /\ GoodHeader(c, u.dbgbuf)
  BY <1>6, <1>10, <1>13 DEF After, SameRequest, SameCommand
<1>15. /\ DOMAIN g = DOMAIN host /\ g.phase = IF last < payload THEN "out" ELSE "status_in"
       /\ g.kind = host.kind /\ g.units = host.units /\ g.begun /\ g.sent = last
       /\ g.got = host.got /\ g.asked = host.asked
  BY <1>1 DEF Host
<1> HIDE DEF g
<1>16. Host(g)
  BY <1>1, <1>9, <1>15 DEF Host
<1>17. This(u, g) = c
  BY <1>14, <1>15 DEF This
<1>18. host.kind \notin {"descriptor", "status", "answer", "none"} /\ host.asked = NoCommand
  <2>1. host.kind \notin {"descriptor", "status", "answer", "none"}
    BY <1>3 DEF CommandKinds, WorkerKinds
  <2> QED
    BY <1>1, <1>2, <1>3, <2>1 DEF AskedReady
<1>19. Stages(u, g)
  <2>1. s.configuration # 0
    BY <1>1, <1>3 DEF Stages
  <2> QED
    BY <1>3, <1>14, <1>15, <1>18, <2>1 DEF Stages
<1>20. LeftToWorker(u, g, worker)
  <2>1. worker.pc \in {"run", "writing", "finish"} => s.dbgbusy
    BY <1>1 DEF LeftToWorker
  <2>2. ASSUME u.dbgstate = "ASYNC" PROVE Given(u, worker) = c /\ u.dbgbusy
    <3>1. worker.pc \in {"wait", "check"}
      BY <1>1, <1>14, <2>1, <2>2
    <3> QED
      BY <1>14, <2>2, <3>1 DEF Given
  <2>3. c.of \in 1 .. u.req
    BY <1>3, <1>8, <1>14
  <2> QED
    BY <1>3, <1>14, <1>15, <1>17, <2>1, <2>2, <2>3 DEF LeftToWorker
<1>21. AskedReady(u, g)
  BY <1>15, <1>18 DEF AskedReady
<1>22. CommandStage(u, g)
  BY <1>9, <1>12, <1>14, <1>15, <1>17 DEF CommandStage
<1>23. DataStage(u, g) /\ Delivered(u, g)
  BY <1>15 DEF DataStage, Delivered
<1> QED
  BY <1>2, <1>5, <1>14, <1>16, <1>19, <1>20, <1>21, <1>22, <1>23 DEF Good, Transfer

-----------------------------------------------------------------------------
(* Data for the host.                                                      *)

\* What the host has with the packet that is on its way.
Received(t, h) ==
    [header |-> IF t.in.header = NoHeader THEN h.got.header ELSE t.in.header,
     body |-> h.got.body \o t.in.body]

\* It is of the right types.
LEMMA ReceivedTypes ==
    ASSUME NEW t, Device(t), NEW h, Host(h)
    PROVE  /\ Received(t, h) \in [header : Headers, body : Seq(Content)]
           /\ Len(Received(t, h).body) = Len(h.got.body) + Len(t.in.body)
           /\ Len(h.got.body) \in Nat /\ Len(t.in.body) \in Nat
<1>1. /\ h.got.header \in Headers /\ t.in.header \in Headers
      /\ h.got.body \in Seq(Content) /\ t.in.body \in Seq(Content)
  BY DEF Device, Host, Packets
<1>2. /\ h.got.body \o t.in.body \in Seq(Content)
      /\ Len(h.got.body \o t.in.body) = Len(h.got.body) + Len(t.in.body)
  BY <1>1, ConcatProperties, Zenon
<1> QED
  BY <1>1, <1>2 DEF Received

\* What a packet adds to the answer.
LEMMA ReceivedFlow ==
    ASSUME NEW t, Device(t), NEW h, Host(h), h.kind = "answer" => h.asked.of > 0,
           NEW k \in Nat, NEW j \in Nat, Carries(t, h, k, j), Total(h) \in Nat
    PROVE  LET got == Received(t, h) IN
           /\ Len(got.body) = k + j /\ k + j <= Total(h)
           /\ ~OfConsole(h) => got.body = Units(Source(t, h), 0, k + j)
           /\ IF h.kind = "answer" THEN GoodHeader(h.asked, got.header) /\ got.header # NoHeader
              ELSE got.header = NoHeader
<1> DEFINE got == Received(t, h)
<1>1. /\ k = Len(h.got.body) /\ j = Len(t.in.body) /\ k + j <= Total(h)
      /\ ~OfConsole(h) => /\ h.got.body = Units(Source(t, h), 0, k)
                          /\ t.in.body = Units(Source(t, h), k, k + j)
      /\ IF h.kind = "answer"
         THEN \/ h.got = NoAnswer /\ GoodHeader(h.asked, t.in.header)
              \/ GoodHeader(h.asked, h.got.header) /\ t.in.header = NoHeader
         ELSE h.got.header = NoHeader /\ t.in.header = NoHeader
  BY DEF Carries
<1>2. Len(got.body) = k + j
  BY <1>1, ReceivedTypes
<1>3. got.body = h.got.body \o t.in.body
      /\ got.header = IF t.in.header = NoHeader THEN h.got.header ELSE t.in.header
  BY DEF Received
<1> HIDE DEF got
<1>4. IF h.kind = "answer" THEN GoodHeader(h.asked, got.header) /\ got.header # NoHeader
      ELSE got.header = NoHeader
  BY <1>1, <1>3 DEF GoodHeader, NoHeader
<1>5. ASSUME ~OfConsole(h) PROVE got.body = Units(Source(t, h), 0, k + j)
  <2>1. Source(t, h) \in Nat
    BY DEF Source, Device, Host, Asked
  <2>2. k + j \in Nat /\ k <= k + j
    OBVIOUS
  <2>3. Units(Source(t, h), 0, k) \o Units(Source(t, h), k, k + j) = Units(Source(t, h), 0, k + j)
    BY <2>1, <2>2, UnitsAppend
  <2> QED
    BY <1>1, <1>3, <1>5, <2>3
<1> QED
  BY <1>1, <1>2, <1>4, <1>5 DEF got

\* The next packet goes on from there.
LEMMA NextFlow ==
    ASSUME NEW t, Device(t), Rings(t), NEW h, Host(h), NEW k \in Nat, NEW j \in Nat,
           h.kind = "answer" => h.asked.of > 0,
           Carries(t, h, k, j), Continues(t, h, k + j), Total(h) \in Nat, ~(Size(t.in) < Packet),
           NEW g, g.kind = h.kind, g.units = h.units, g.asked = h.asked, g.got = Received(t, h)
    PROVE  Flow(InComplete(t), g)
<1> DEFINE u == InComplete(t)
           left == IF t.txcallback = "tx" THEN t.tx.left ELSE t.count
           len == Lesser(Packet, left)
           sent == k + j
           total == Total(h)
<1>1. /\ Device(u) /\ Rings(u) /\ SameRequest(t, u) /\ SameAnswer(t, u)
      /\ t.txcallback \in {"tx", "read_console"} =>
           /\ u.in.header = NoHeader
           /\ u.txcallback = IF len < Packet THEN "short" ELSE t.txcallback
           /\ t.txcallback = "tx" =>
                /\ u.in.body = Units(t.tx.of, t.tx.sent, t.tx.sent + len)
                /\ left > 0 => /\ u.tx.left = left - len /\ u.tx.of = t.tx.of
                               /\ u.tx.sent = t.tx.sent + len
           /\ t.txcallback = "read_console" =>
                /\ u.count = left - len
                /\ t.memlen <= t.count => Len(u.in.body) = len /\ u.memlen <= u.count
  BY InEffect
<1> HIDE DEF u
<1>2. \/ /\ t.txcallback = "tx" /\ t.tx.left = total - sent
         /\ t.tx.left > 0 => t.tx.of = Source(t, h) /\ t.tx.sent = sent /\ ~OfConsole(h)
      \/ t.txcallback = "read_console" /\ OfConsole(h) /\ t.count = total - sent /\ t.memlen <= t.count
  BY DEF Continues
<1>3. left = total - sent /\ left \in Nat /\ t.txcallback \in {"tx", "read_console"}
  BY <1>2 DEF Device
<1>4. sent \in Nat /\ total \in Nat /\ sent <= total /\ Packet \in Nat /\ Packet > 1
  BY <1>3, UsbAssumption
<1>5. /\ Len(g.got.body) = sent
      /\ ~OfConsole(h) => g.got.body = Units(Source(t, h), 0, sent)
      /\ IF h.kind = "answer" THEN GoodHeader(h.asked, g.got.header) ELSE g.got.header = NoHeader
  BY ReceivedFlow
<1>6. /\ Total(g) = total /\ OfConsole(g) = OfConsole(h) /\ Source(u, g) = Source(t, h)
      /\ (h.kind = "answer" => g.units = total /\ AllWritten(u, g.asked))
  <2>1. u.req = t.req /\ u.written = t.written
    BY <1>1 DEF SameRequest, SameAnswer
  <2> QED
    BY <2>1 DEF Total, OfConsole, Source, Carries, AllWritten
<1>7. t.tx.of \in Nat /\ t.tx.sent \in Nat /\ Source(t, h) \in Nat
  BY DEF Device, Source, Host, Asked
<1> HIDE DEF left, sent, total
<1>8. len \in Nat /\ len <= left /\ len <= Packet /\ (len < Packet => len = left) /\ (left > 0 => len > 0)
  BY <1>3, <1>4 DEF Lesser
<1> HIDE DEF len
<1>9. sent + len \in Nat /\ sent + len <= total /\ (len = left => sent + len = total)
      /\ left - len = total - (sent + len)
  BY <1>3, <1>4, <1>8
<1>10. u.in.header = NoHeader /\ u.txcallback = IF len < Packet THEN "short" ELSE t.txcallback
  BY <1>1, <1>3
<1>11. CASE t.txcallback = "tx" /\ left > 0
  <2>1. /\ u.in.body = Units(Source(t, h), sent, sent + len) /\ ~OfConsole(h)
        /\ u.tx.left = left - len /\ u.tx.of = Source(t, h) /\ u.tx.sent = sent + len
    BY <1>1, <1>2, <1>11 DEF left
  <2>2. Len(u.in.body) = len
    <3>1. sent <= sent + len /\ (sent + len) - sent = len
      BY <1>4, <1>8
    <3>2. Len(Units(Source(t, h), sent, sent + len)) = (sent + len) - sent
      <4>1. Source(t, h) \in Nat /\ sent \in Nat /\ sent + len \in Nat /\ sent <= sent + len
        BY <1>4, <1>7, <1>9, <3>1
      <4> QED
        BY ONLY <4>1, UnitsSeq
    <3> QED
      BY <2>1, <3>1, <3>2
  <2>3. Size(u.in) = len
    BY <1>8, <1>10, <2>2 DEF Size
  <2>4. Carries(u, g, sent, len)
    BY <1>5, <1>6, <1>9, <1>10, <2>1, <2>2 DEF Carries
  <2>5. Continues(u, g, sent + len)
    BY <1>6, <1>8, <1>9, <1>10, <1>11, <2>1, <2>3 DEF Continues
  <2> QED
    BY <1>4, <1>6, <1>8, <1>9, <2>3, <2>4, <2>5 DEF Flow, u
<1>12. CASE t.txcallback = "tx" /\ left = 0
  <2>1. len = 0 /\ sent = total
    BY <1>3, <1>4, <1>8, <1>12
  <2>2. u.in.body = << >>
    <3>1. t.tx.sent + len = t.tx.sent
      BY <1>7, <2>1
    <3> QED
      BY <1>1, <1>7, <1>12, <3>1, UnitsNone
  <2>3. Len(u.in.body) = 0 /\ Size(u.in) = 0
    BY <1>10, <2>2 DEF Size
  <2>4. Units(Source(t, h), sent, sent) = << >> /\ sent + 0 = sent
    BY <1>4, UnitsNone
  <2>5. Carries(u, g, sent, 0)
    BY <1>4, <1>5, <1>6, <1>10, <2>1, <2>2, <2>3, <2>4 DEF Carries
  <2>6. Continues(u, g, sent + 0)
    BY <1>4, <1>10, <2>1, <2>3 DEF Continues
  <2> QED
    BY <1>4, <1>6, <2>1, <2>3, <2>4, <2>5, <2>6 DEF Flow, u
<1>13. CASE t.txcallback = "read_console"
  <2>1. OfConsole(h) /\ Len(u.in.body) = len /\ u.count = left - len /\ u.memlen <= u.count
    BY <1>1, <1>2, <1>13
  <2>2. Size(u.in) = len
    BY <1>8, <1>10, <2>1 DEF Size
  <2>3. Carries(u, g, sent, len)
    BY <1>5, <1>6, <1>9, <1>10, <2>1 DEF Carries
  <2>4. Continues(u, g, sent + len)
    BY <1>4, <1>6, <1>8, <1>9, <1>10, <1>13, <2>1, <2>2 DEF Continues
  <2> QED
    BY <1>4, <1>6, <1>8, <1>9, <2>2, <2>3, <2>4 DEF Flow, u
<1>14. left = 0 \/ left > 0
  BY <1>3
<1> QED
  BY <1>3, <1>11, <1>12, <1>13, <1>14 DEF u

\* There is an end to the data of a control read.
LEMMA TotalNat ==
    ASSUME NEW h, Host(h), h.kind \in {"descriptor", "status", "answer"}
    PROVE  Total(h) \in Nat
BY UsbAssumption DEF Total, Host, Asked, Lesser

\* dbgthread's command stays its command.
LEMMA LeftStays ==
    ASSUME NEW t, NEW u, NEW h, NEW g, NEW w, LeftToWorker(t, h, w), u.req = t.req, u.dbgbuf = t.dbgbuf,
           u.dbgbusy = t.dbgbusy, u.dbgstate = t.dbgstate,
           g.phase # "idle" => h.phase # "idle" /\ g.kind = h.kind /\ g.units = h.units
    PROVE  LeftToWorker(u, g, w)
BY DEF LeftToWorker, Given, This

\* The statics and the host of host_receives.
LEMMA ReceivesStep ==
    ASSUME UsbInvariant, host_receives
    PROVE  Good(s', host', worker)
<1> DEFINE u == InComplete(s)
           got == Received(s, host)
           done == Size(s.in) < Packet \/ Size(got) >= Wanted
           text == IF host.kind = "answer" /\ host.asked.kind = "con_read" THEN s.in.body ELSE << >>
           g == [host EXCEPT !.got = got, !.seen = FoldLeft(See, @, text),
                             !.phase = IF done THEN "status_out" ELSE "in"]
<1>1. /\ Device(s) /\ Rings(s) /\ Host(host) /\ Stages(s, host) /\ LeftToWorker(s, host, worker)
      /\ AskedReady(s, host) /\ DataStage(s, host)
  BY DEF UsbInvariant, Transfer
<1>2. host.phase = "in" /\ "in" \notin s.stalled /\ s.in # NoPacket /\ s' = u /\ host' = g
  BY DEF host_receives, Received
<1>3. /\ host.kind \in {"descriptor", "status", "answer"} /\ (s.out => s.rxcallback = "ack") /\ s.req > 0
      /\ (s.txcallback = "read_console" => host.kind = "answer")
  BY <1>1, <1>2 DEF Stages
<1>4. /\ Device(u) /\ Rings(u) /\ SameRequest(s, u) /\ SameCommand(s, u) /\ SameAnswer(s, u)
      /\ s.txcallback # "read_console" =>
           SameLeft(s, u) /\ (u.in # NoPacket => u.txcallback # "read_console")
      /\ u.out => u.rxcallback = "ack" \/ (s.out /\ u.rxcallback = s.rxcallback)
  BY <1>1, InEffect
<1> HIDE DEF u
<1>5. got \in [header : Headers, body : Seq(Content)]
  BY <1>1, ReceivedTypes
<1>6. /\ DOMAIN g = DOMAIN host /\ g.phase = IF done THEN "status_out" ELSE "in"
      /\ g.kind = host.kind /\ g.units = host.units /\ g.begun = host.begun /\ g.sent = host.sent
      /\ g.got = got /\ g.asked = host.asked
  BY <1>1 DEF Host
<1> HIDE DEF g, got, done
<1>7. Host(g)
  BY <1>1, <1>5, <1>6 DEF Host
<1>8. Stages(u, g)
  <2>1. u.req = s.req /\ u.dbgstate = s.dbgstate /\ u.configuration = s.configuration
    BY <1>4 DEF SameRequest, SameCommand
  <2> QED
    BY <1>1, <1>2, <1>3, <1>4, <1>6, <2>1 DEF Stages
<1>9. LeftToWorker(u, g, worker)
  <2>1. u.req = s.req /\ u.dbgbuf = s.dbgbuf /\ u.dbgbusy = s.dbgbusy /\ u.dbgstate = s.dbgstate
    BY <1>4 DEF SameRequest, SameCommand, SameAnswer
  <2> QED
    BY <1>1, <1>2, <1>6, <2>1, LeftStays
<1>10. AskedReady(u, g)
  <2> SUFFICES ASSUME g.asked # NoCommand
               PROVE  /\ g.asked.kind \in CommandKinds /\ g.asked.of \in 1 .. u.req
                      /\ g.phase # "idle" => g.kind \notin CommandKinds
                      /\ g.kind # "answer" => u.dbgstate = "IDLE" \/ Ready(u, g.asked)
    BY DEF AskedReady
  <2>1. /\ g.asked.kind \in CommandKinds /\ g.asked.of \in 1 .. s.req /\ host.kind \notin CommandKinds
        /\ host.kind # "answer" => s.dbgstate = "IDLE" \/ Ready(s, g.asked)
    BY <1>1, <1>2, <1>6 DEF AskedReady
  <2>2. u.req = s.req /\ u.dbgstate = s.dbgstate /\ u.refused = s.refused
    BY <1>4 DEF SameRequest, SameCommand
  <2>3. ASSUME host.kind # "answer" PROVE u.dbgstate = "IDLE" \/ Ready(u, g.asked)
    BY <1>3, <1>4, <2>1, <2>2, <2>3, ReadyStays
  <2> QED
    BY <1>6, <2>1, <2>2, <2>3
<1>11. CommandStage(u, g)
  BY <1>6 DEF CommandStage
<1>12. DataStage(u, g) /\ Delivered(u, g)
  <2>1. Exceptional(u, g) = Exceptional(s, host)
    BY <1>4, <1>6 DEF Exceptional, SameRequest
  <2>2. SUFFICES ASSUME ~Exceptional(s, host)
                 PROVE  DataStage(u, g) /\ Delivered(u, g)
    BY <2>1 DEF DataStage, Delivered
  <2>3. Flow(s, host)
    BY <1>1, <1>2, <2>2 DEF DataStage
  <2>4. PICK k \in Nat, j \in Nat :
             /\ Carries(s, host, k, j) /\ Continues(s, host, k + j)
             /\ Size(s.in) <= Packet
             /\ Size(s.in) < Packet => k + j = Total(host)
    BY <2>3 DEF Flow
  <2>5. host.kind = "answer" => host.asked.of > 0
    <3>1. host.kind = "answer" => host.asked.of \in 1 .. s.req
      BY <1>1 DEF Stages, AskedReady
    <3> QED
      BY <3>1
  <2>6. Total(host) \in Nat
    BY <1>1, <1>3, TotalNat
  <2>7. /\ Len(got.body) = k + j /\ k + j <= Total(host)
        /\ ~OfConsole(host) => got.body = Units(Source(s, host), 0, k + j)
        /\ IF host.kind = "answer" THEN GoodHeader(host.asked, got.header) /\ got.header # NoHeader
           ELSE got.header = NoHeader
    BY <1>1, <2>4, <2>5, <2>6, ReceivedFlow DEF got
  <2>8. CASE done
    <3>1. k + j = Total(host)
      <4>1. CASE Size(s.in) < Packet
        BY <2>4, <4>1
      <4>2. CASE Size(got) >= Wanted /\ host.kind = "answer"
        <5>1. Size(got) = k + j + 1 /\ Wanted = host.units + 1 /\ host.units = Total(host)
          BY <2>4, <2>7, <4>2 DEF Size, Wanted, Carries
        <5> QED
          BY <2>6, <2>7, <4>2, <5>1
      <4>3. CASE Size(got) >= Wanted /\ host.kind = "descriptor"
        <5>1. Size(got) = k + j /\ Wanted = host.units
          BY <1>1, <2>7, <4>3 DEF Size, Wanted, Host
        <5>2. Total(host) <= host.units
          BY <1>1, <4>3, UsbAssumption DEF Total, Lesser, Host
        <5> QED
          BY <1>1, <2>6, <2>7, <4>3, <5>1, <5>2 DEF Host
      <4>4. CASE host.kind = "status"
        <5>1. Total(host) = 1
          BY <4>4 DEF Total
        <5>2. Size(s.in) = j
          <6>1. j = Len(s.in.body) /\ s.in.header = NoHeader
            BY <2>4, <4>4 DEF Carries
          <6> QED
            BY <6>1 DEF Size
        <5>3. Size(s.in) < Packet
          BY <2>7, <5>1, <5>2, UsbAssumption
        <5> QED
          BY <2>4, <5>3
      <4> QED
        BY <1>3, <2>8, <4>1, <4>2, <4>3, <4>4 DEF done
    <3>2. /\ Total(g) = Total(host) /\ OfConsole(g) = OfConsole(host) /\ Source(u, g) = Source(s, host)
          /\ (host.kind = "answer" => AllWritten(u, g.asked))
      <4>1. u.req = s.req /\ u.written = s.written
        BY <1>4 DEF SameRequest, SameAnswer
      <4> QED
        BY <1>6, <2>4, <4>1 DEF Total, OfConsole, Source, Carries, AllWritten
    <3>3. g.phase = "status_out"
      BY <1>6, <2>8
    <3> QED
      BY <1>6, <2>7, <3>1, <3>2, <3>3 DEF DataStage, Delivered
  <2>9. CASE ~done
    <3>1. ~(Size(s.in) < Packet)
      BY <2>9 DEF done
    <3>2. Flow(u, g)
      BY <1>1, <1>6, <2>4, <2>5, <2>6, <3>1, NextFlow DEF u, got
    <3> QED
      BY <1>6, <2>9, <3>2 DEF DataStage, Delivered
  <2> QED
    BY <2>8, <2>9
<1> QED
  BY <1>2, <1>4, <1>7, <1>8, <1>9, <1>10, <1>11, <1>12 DEF Good, Transfer

-----------------------------------------------------------------------------
(* A request ends.                                                         *)

Between(h) == h.phase = "idle" /\ h.kind = "none" /\ h.got = NoAnswer /\ ~h.begun /\ h.sent = 0

\* Between requests little has to hold.
LEMMA ToIdle ==
    ASSUME NEW u, NEW g, NEW w, Device(u), Rings(u), Host(g), Between(g), LeftToWorker(u, g, w),
           u.configuration = 0 => u.dbgstate = "IDLE",
           g.asked # NoCommand =>
               /\ g.asked.kind \in CommandKinds /\ g.asked.of \in 1 .. u.req
               /\ u.dbgstate = "IDLE" \/ Ready(u, g.asked)
    PROVE  Good(u, g, w)
<1>1. Stages(u, g)
  BY DEF Stages, Between
<1>2. AskedReady(u, g)
  BY DEF AskedReady, Between
<1>3. CommandStage(u, g) /\ DataStage(u, g) /\ Delivered(u, g)
  BY DEF CommandStage, DataStage, Delivered, Between
<1> QED
  BY <1>1, <1>2, <1>3 DEF Good, Transfer

\* The host after a request that has ended, or that it gave up.
LEMMA IdleHost ==
    ASSUME Host(host), s.req \in Nat
    PROVE  /\ Host(Ended(host)) /\ Between(Ended(host))
           /\ host.kind \in CommandKinds => Ended(host).asked = This(s, host)
           /\ host.kind \notin CommandKinds /\ host.kind # "answer" => Ended(host).asked = host.asked
           /\ host.kind \notin CommandKinds /\ host.kind = "answer" => Ended(host).asked = NoCommand
           /\ Host(Dropped(host)) /\ Between(Dropped(host))
           /\ Dropped(host).asked = IF host.kind = "answer" THEN NoCommand ELSE host.asked
<1> DEFINE asked == IF host.kind \in CommandKinds THEN This(s, host)
                    ELSE IF host.kind = "answer" THEN NoCommand ELSE host.asked
           dropped == IF host.kind = "answer" THEN NoCommand ELSE host.asked
           e == Ended(host)
           d == Dropped(host)
<1>1. asked \in Asked /\ dropped \in Asked
  BY DEF Host, Asked, This, NoCommand
<1>2. NoAnswer \in [header : Headers, body : Seq(Content)]
  <2>1. << >> \in Seq(Content) /\ NoHeader \in Headers
    BY DEF NoHeader, Headers, Statuses
  <2> QED
    BY <2>1 DEF NoAnswer
<1>3. /\ DOMAIN e = DOMAIN host /\ e.phase = "idle" /\ e.kind = "none" /\ e.units = 0 /\ e.begun = FALSE
      /\ e.sent = 0 /\ e.got = NoAnswer /\ e.asked = asked
  BY DEF Host, Ended, Idle, This
<1>4. /\ DOMAIN d = DOMAIN host /\ d.phase = "idle" /\ d.kind = "none" /\ d.units = 0 /\ d.begun = FALSE
      /\ d.sent = 0 /\ d.got = NoAnswer /\ d.asked = dropped
  BY DEF Host, Dropped, Idle
<1> HIDE DEF e, d, asked, dropped
<1>5. Host(e) /\ Between(e)
  <2>1. /\ e.kind = "none" /\ e.units \in Nat /\ e.sent \in Nat
        /\ e.got \in [header : Headers, body : Seq(Content)] /\ e.asked \in Asked
    BY <1>1, <1>2, <1>3
  <2>2. DOMAIN e = {"phase", "kind", "units", "begun", "sent", "got", "asked", "seen"}
    BY <1>3 DEF Host
  <2>3. e.begun \in BOOLEAN /\ ~e.begun
    BY <1>3, Zenon
  <2>4. Host(e)
    BY <2>1, <2>2, <2>3 DEF Host
  <2> QED
    BY <1>3, <2>1, <2>3, <2>4 DEF Between
<1>6. Host(d) /\ Between(d)
  <2>1. /\ d.kind = "none" /\ d.units \in Nat /\ d.sent \in Nat
        /\ d.got \in [header : Headers, body : Seq(Content)] /\ d.asked \in Asked
    BY <1>1, <1>2, <1>4
  <2>2. DOMAIN d = {"phase", "kind", "units", "begun", "sent", "got", "asked", "seen"}
    BY <1>4 DEF Host
  <2>3. d.begun \in BOOLEAN /\ ~d.begun
    BY <1>4, Zenon
  <2>4. Host(d)
    BY <2>1, <2>2, <2>3 DEF Host
  <2> QED
    BY <1>4, <2>1, <2>3, <2>4 DEF Between
<1> QED
  BY <1>3, <1>4, <1>5, <1>6 DEF e, d, asked, dropped

\* The statics and the host of host_acknowledges.
LEMMA AcknowledgesStep ==
    ASSUME UsbInvariant, host_acknowledges
    PROVE  Good(s', host', worker)
<1> DEFINE u == OutComplete(s, NoCommand, << >>)
           g == Ended(host)
<1>1. /\ Device(s) /\ Rings(s) /\ Host(host) /\ Stages(s, host) /\ LeftToWorker(s, host, worker)
      /\ AskedReady(s, host) /\ s.req \in Nat
  BY DEF UsbInvariant, Transfer, Device
<1>2. host.phase = "status_out" /\ s.out /\ s' = u /\ host' = g
  BY DEF host_acknowledges
<1>3. host.kind \in {"descriptor", "status", "answer"} /\ s.rxcallback = "ack"
  BY <1>1, <1>2 DEF Stages
<1>4. host.kind \notin CommandKinds
  BY <1>3 DEF CommandKinds, WorkerKinds
<1>5. /\ Device(u) /\ Rings(u) /\ SameRequest(s, u) /\ SameCommand(s, u) /\ SameAnswer(s, u) /\ SameLeft(s, u)
  BY <1>1, <1>3, OutEffect
<1>6. /\ Host(g) /\ Between(g)
      /\ g.asked = IF host.kind = "answer" THEN NoCommand ELSE host.asked
  BY <1>1, <1>4, IdleHost
<1> HIDE DEF u, g
<1>7. LeftToWorker(u, g, worker)
  BY <1>1, <1>5, <1>6, LeftStays DEF SameRequest, SameCommand, SameAnswer, Between
<1>8. u.configuration = 0 => u.dbgstate = "IDLE"
  BY <1>1, <1>5 DEF Stages, SameCommand
<1>9. ASSUME g.asked # NoCommand
      PROVE  /\ g.asked.kind \in CommandKinds /\ g.asked.of \in 1 .. u.req
             /\ u.dbgstate = "IDLE" \/ Ready(u, g.asked)
  <2>1. /\ g.asked = host.asked /\ g.asked.kind \in CommandKinds /\ g.asked.of \in 1 .. s.req
        /\ s.dbgstate = "IDLE" \/ Ready(s, g.asked)
    BY <1>1, <1>6, <1>9 DEF AskedReady
  <2>2. u.req = s.req /\ u.dbgstate = s.dbgstate /\ u.refused = s.refused
    BY <1>5 DEF SameRequest, SameCommand
  <2> QED
    BY <1>5, <2>1, <2>2, ReadyStays
<1> QED
  BY <1>2, <1>5, <1>6, <1>7, <1>8, <1>9, ToIdle

\* The statics and the host of host_is_acknowledged.
LEMMA IsAcknowledgedStep ==
    ASSUME UsbInvariant, host_is_acknowledged
    PROVE  Good(s', host', worker)
<1> DEFINE u == InComplete(s)
           g == Ended(host)
<1>1. /\ Device(s) /\ Rings(s) /\ Host(host) /\ Stages(s, host) /\ LeftToWorker(s, host, worker)
      /\ AskedReady(s, host) /\ CommandStage(s, host) /\ s.req \in Nat
  BY DEF UsbInvariant, Transfer, Device
<1>2. host.phase = "status_in" /\ s.in # NoPacket /\ s' = u /\ host' = g
  BY DEF host_is_acknowledged
<1>3. s.txcallback # "read_console" \/ host.kind = "answer"
  BY <1>1, <1>2 DEF Stages
<1>4. host.kind # "answer" /\ s.req > 0
  BY <1>1, <1>2 DEF Stages
<1>5. /\ Device(u) /\ Rings(u) /\ SameRequest(s, u) /\ SameCommand(s, u) /\ SameAnswer(s, u) /\ SameLeft(s, u)
  BY <1>1, <1>3, <1>4, InEffect
<1>6. /\ Host(g) /\ Between(g)
      /\ g.asked = IF host.kind \in CommandKinds THEN This(s, host) ELSE host.asked
  BY <1>1, <1>4, IdleHost
<1> HIDE DEF u, g
<1>7. LeftToWorker(u, g, worker)
  BY <1>1, <1>5, <1>6, LeftStays DEF SameRequest, SameCommand, SameAnswer, Between
<1>8. u.configuration = 0 => u.dbgstate = "IDLE"
  BY <1>1, <1>5 DEF Stages, SameCommand
<1>9. ASSUME g.asked # NoCommand
      PROVE  /\ g.asked.kind \in CommandKinds /\ g.asked.of \in 1 .. u.req
             /\ u.dbgstate = "IDLE" \/ Ready(u, g.asked)
  <2>1. u.req = s.req /\ u.dbgstate = s.dbgstate /\ u.refused = s.refused
    BY <1>5 DEF SameRequest, SameCommand
  <2>2. CASE host.kind \in CommandKinds
    <3>1. Ready(s, g.asked)
      BY <1>1, <1>2, <1>6, <2>2 DEF CommandStage
    <3>2. g.asked.kind = host.kind /\ g.asked.of = s.req
      BY <1>6, <2>2 DEF This
    <3> QED
      BY <1>1, <1>4, <1>5, <2>1, <2>2, <3>1, <3>2, ReadyStays
  <2>3. CASE host.kind \notin CommandKinds
    <3>1. /\ g.asked.kind \in CommandKinds /\ g.asked.of \in 1 .. s.req
          /\ s.dbgstate = "IDLE" \/ Ready(s, g.asked)
      BY <1>1, <1>4, <1>6, <1>9, <2>3 DEF AskedReady
    <3> QED
      BY <1>5, <2>1, <3>1, ReadyStays
  <2> QED
    BY <2>2, <2>3
<1> QED
  BY <1>2, <1>5, <1>6, <1>7, <1>8, <1>9, ToIdle

\* The host of host_is_refused and of host_gives_up.
LEMMA DroppedStep ==
    ASSUME UsbInvariant
    PROVE  Good(s, Dropped(host), worker)
<1> DEFINE g == Dropped(host)
<1>1. /\ Device(s) /\ Rings(s) /\ Host(host) /\ Stages(s, host) /\ LeftToWorker(s, host, worker)
      /\ AskedReady(s, host) /\ s.req \in Nat
  BY DEF UsbInvariant, Transfer, Device
<1>2. /\ Host(g) /\ Between(g)
      /\ g.asked = IF host.kind = "answer" THEN NoCommand ELSE host.asked
  BY <1>1, IdleHost
<1> HIDE DEF g
<1>3. LeftToWorker(s, g, worker)
  BY <1>1, <1>2, LeftStays DEF Between
<1>4. s.configuration = 0 => s.dbgstate = "IDLE"
  BY <1>1 DEF Stages
<1>5. g.asked # NoCommand =>
        /\ g.asked.kind \in CommandKinds /\ g.asked.of \in 1 .. s.req
        /\ s.dbgstate = "IDLE" \/ Ready(s, g.asked)
  BY <1>1, <1>2 DEF AskedReady
<1>6. Good(s, g, worker)
  BY <1>1, <1>2, <1>3, <1>4, <1>5, ToIdle
<1> QED
  BY <1>6 DEF g

\* The statics and the host of host_resets.
LEMMA ResetsStep ==
    ASSUME UsbInvariant, host_resets
    PROVE  Good(s', host', worker)
<1> DEFINE v == [s EXCEPT !.address = FALSE, !.in = NoPacket, !.stalled = {}]
           w == usb_unconfigure(v)
           u == usb_ep0_start_rx(w, FALSE, "none")
           g == IF host.phase = "idle" THEN host ELSE Dropped(host)
<1>1. /\ Device(s) /\ Rings(s) /\ Host(host) /\ Stages(s, host) /\ LeftToWorker(s, host, worker)
      /\ AskedReady(s, host) /\ s.req \in Nat
  BY DEF UsbInvariant, Transfer, Device
<1>2. s' = u /\ host' = g
  BY DEF host_resets, usb_handle_bus_reset
<1>3. NoPacket \in Packets
  BY DEF NoPacket, Packets, NoHeader, Headers, Statuses
<1>4. /\ DOMAIN v = StaticFields /\ v.in = NoPacket /\ SameRequest(s, v) /\ SameAnswer(s, v) /\ SameLeft(s, v)
      /\ SameCommand(s, v) /\ SameConsole(s, v)
      /\ v.tx = s.tx /\ v.txcallback = s.txcallback /\ v.rxcallback = s.rxcallback
  BY <1>1 DEF Device, StaticFields, SameRequest, SameCommand, SameAnswer, SameLeft, SameConsole
<1> HIDE DEF v
<1>5. Device(v) /\ Rings(v)
  BY <1>1, <1>3, <1>4 DEF Device, Rings, SameRequest, SameAnswer, SameLeft, SameConsole
<1>6. /\ Device(w) /\ Rings(w) /\ SameWorker(v, w) /\ SameAnswer(v, w) /\ SameLeft(v, w) /\ w.in = v.in
  BY <1>5, ConfigureEffect
<1>7. w.dbgstate = "IDLE"
  BY <1>1, <1>4, <1>5 DEF usb_unconfigure, EnableMonitor, Stages, SameCommand, Device, StaticFields
<1> HIDE DEF w
<1>8. /\ DOMAIN u = StaticFields /\ SameWorker(w, u) /\ SameAnswer(w, u) /\ SameLeft(w, u) /\ SameConsole(w, u)
      /\ u.in = w.in /\ u.tx = w.tx /\ u.txcallback = w.txcallback /\ u.rxcallback = "none"
      /\ u.dbgstate = "IDLE"
  BY <1>6, <1>7 DEF Device, StaticFields, usb_ep0_start_rx, SameWorker, SameRequest, SameAnswer, SameLeft, SameConsole
<1> HIDE DEF u
<1>9. Device(u) /\ Rings(u)
  BY <1>6, <1>8 DEF Device, Rings, SameWorker, SameRequest, SameAnswer, SameLeft, SameConsole
<1>10. u.req = s.req /\ u.dbgbusy = s.dbgbusy
  BY <1>4, <1>6, <1>8 DEF SameWorker, SameRequest, SameCommand
<1>11. Host(g) /\ Between(g) /\ (g.asked = host.asked \/ g.asked = NoCommand)
  <2>1. host.phase = "idle" => Between(host)
    BY <1>1 DEF Stages, Between
  <2>2. Host(Dropped(host)) /\ Between(Dropped(host))
        /\ Dropped(host).asked = IF host.kind = "answer" THEN NoCommand ELSE host.asked
    BY <1>1, IdleHost
  <2> QED
    BY <1>1, <2>1, <2>2
<1> HIDE DEF g
<1>12. LeftToWorker(u, g, worker)
  BY <1>1, <1>8, <1>10 DEF LeftToWorker
<1>13. g.asked # NoCommand => g.asked.kind \in CommandKinds /\ g.asked.of \in 1 .. u.req
  BY <1>1, <1>10, <1>11 DEF AskedReady
<1> QED
  BY <1>2, <1>8, <1>9, <1>11, <1>12, <1>13, ToIdle

-----------------------------------------------------------------------------
(* The threads and the console.                                            *)

\* A step that has nothing to do with a request.
Alike(t, u) ==
    /\ DOMAIN u = StaticFields
    /\ SameRequest(t, u) /\ SameAnswer(t, u) /\ SameLeft(t, u) /\ SameStage(t, u)
    /\ u.dbgstate = t.dbgstate /\ u.configuration = t.configuration /\ u.stalled = t.stalled

Quiet(t, u) == Alike(t, u) /\ u.dbgbusy = t.dbgbusy

\* It leaves the transfer as it is, but for what dbgthread does with its command.
LEMMA AlikeTransfer ==
    ASSUME NEW t, NEW u, NEW h, NEW w, NEW x, Device(t), Alike(t, u), Rings(u), Transfer(t, h, w), Host(h),
           LeftToWorker(u, h, x)
    PROVE  Good(u, h, x)
<1>1. /\ u.req = t.req /\ u.refused = t.refused /\ u.late = t.late
      /\ u.dbgstate = t.dbgstate /\ u.configuration = t.configuration
      /\ u.dbgbuf = t.dbgbuf /\ u.memof = t.memof /\ u.written = t.written
      /\ u.memlen = t.memlen /\ u.count = t.count
      /\ u.in = t.in /\ u.out = t.out /\ u.tx = t.tx
      /\ u.rxcallback = t.rxcallback /\ u.txcallback = t.txcallback /\ u.stalled = t.stalled
  BY DEF Alike, SameRequest, SameAnswer, SameLeft, SameStage
<1>2. Device(u)
  BY <1>1 DEF Alike, Device
<1>3. ASSUME NEW c PROVE Ready(u, c) = Ready(t, c)
  BY <1>1 DEF Ready, AllWritten
<1>4. Stages(u, h)
  BY <1>1 DEF Transfer, Stages
<1>6. AskedReady(u, h)
  BY <1>1, <1>3 DEF Transfer, AskedReady
<1>7. CommandStage(u, h)
  <2>1. This(u, h) = This(t, h)
    BY <1>1 DEF This
  <2> QED
    BY <1>1, <1>3, <2>1 DEF Transfer, CommandStage
<1>8. Exceptional(u, h) = Exceptional(t, h)
  BY <1>1 DEF Exceptional
<1>9. DataStage(u, h)
  <2>1. Source(u, h) = Source(t, h)
    BY <1>1 DEF Source
  <2>2. ASSUME NEW k, NEW j, Carries(t, h, k, j) PROVE Carries(u, h, k, j)
    BY <1>1, <2>1, <2>2 DEF Carries, AllWritten
  <2>3. ASSUME NEW k, Continues(t, h, k) PROVE Continues(u, h, k)
    BY <1>1, <2>1, <2>3 DEF Continues
  <2>4. Flow(t, h) => Flow(u, h)
    BY <1>1, <2>2, <2>3 DEF Flow
  <2> QED
    BY <1>1, <1>8, <2>4 DEF Transfer, DataStage
<1>10. Delivered(u, h)
  BY <1>1, <1>8 DEF Transfer, Delivered, Source, AllWritten
<1> QED
  BY <1>2, <1>4, <1>6, <1>7, <1>9, <1>10 DEF Good, Transfer

\* It leaves it as it is.
LEMMA QuietTransfer ==
    ASSUME NEW t, NEW u, NEW h, NEW w, Good(t, h, w), Quiet(t, u), Rings(u)
    PROVE  Good(u, h, w)
<1>1. LeftToWorker(u, h, w)
  BY LeftStays DEF Good, Transfer, Quiet, Alike, SameRequest, SameAnswer
<1> QED
  BY <1>1, AlikeTransfer DEF Good, Quiet

\* dbgthread rests, or goes on with its command.
LEMMA WorkerMoves ==
    ASSUME NEW t, NEW h, NEW w, NEW x, Good(t, h, w),
           \/ w.pc \in {"wait", "check"} /\ x.pc \in {"wait", "check"}
           \/ Given(t, x) = Given(t, w) /\ t.dbgbusy
    PROVE  Good(t, h, x)
<1>1. LeftToWorker(t, h, x)
  <2>1. CASE w.pc \in {"wait", "check"} /\ x.pc \in {"wait", "check"}
    <3>1. Given(t, x) = Given(t, w)
      BY <2>1 DEF Given
    <3> QED
      BY <2>1, <3>1 DEF Good, Transfer, LeftToWorker
  <2>2. CASE Given(t, x) = Given(t, w) /\ t.dbgbusy
    BY <2>2 DEF Good, Transfer, LeftToWorker
  <2> QED
    BY <2>1, <2>2
<1> QED
  BY <1>1 DEF Good, Transfer

\* The worker is free again, and there was nothing for it to do.
LEMMA WorkerFree ==
    ASSUME NEW t, NEW h, NEW w, NEW x, NEW u, Good(t, h, w), t.dbgstate # "ASYNC", x.pc = "wait",
           u = [t EXCEPT !.dbgbusy = FALSE]
    PROVE  Good(u, h, x)
<1>1. Device(t) /\ Rings(t) /\ Host(h) /\ Transfer(t, h, w)
  BY DEF Good
<1>2. Alike(t, u) /\ SameConsole(t, u)
  BY <1>1 DEF Alike, Device, StaticFields, SameRequest, SameAnswer, SameLeft, SameStage, SameConsole
<1>3. Rings(u)
  BY <1>1, <1>2 DEF Rings, SameConsole
<1>4. LeftToWorker(u, h, x)
  BY <1>2 DEF LeftToWorker, Alike
<1> QED
  BY <1>1, <1>2, <1>3, <1>4, AlikeTransfer

\* dbgthread acknowledges its command: the host waits for that, or the request is excepted.
LEMMA FinishAsync ==
    ASSUME UsbInvariant, worker.pc = "finish", s.dbgstate = "ASYNC"
    PROVE  Good([Finish(s) EXCEPT !.dbgbusy = FALSE], host, Resting)
<1> DEFINE of == worker.of
           len == IF worker.kind = "i2c" THEN worker.units ELSE 0
           b == [of |-> of, status |-> "ok", bytes |-> 0]
           late == IF s.req = of THEN s.late ELSE s.late \cup {s.req}
           u == [Finish(s) EXCEPT !.dbgbusy = FALSE]
<1>1. /\ Device(s) /\ Rings(s) /\ Host(host) /\ Transfer(s, host, worker) /\ s.req \in Nat
      /\ worker \in [pc : {"wait", "check", "run", "writing", "finish"}, of : Nat, kind : Statuses, units : Nat]
  BY DEF UsbInvariant, Device, ThreadTypes
<1>2. Given(s, worker) = [of |-> of, kind |-> worker.kind, units |-> worker.units]
  BY DEF Given
<1>3. /\ of \in 1 .. s.req
      /\ host.phase # "idle" => IF host.kind \in CommandKinds
                                THEN [of |-> of, kind |-> worker.kind, units |-> worker.units] = This(s, host)
                                ELSE of < s.req
  BY <1>1, <1>2 DEF Transfer, LeftToWorker
<1>4. Zero(of) \in Packets /\ b \in Headers /\ len \in Nat /\ of \in Nat
  BY <1>1, ZeroPacket DEF Headers, Statuses
<1>5. /\ DOMAIN u = StaticFields
      /\ u.req = s.req /\ u.refused = s.refused /\ u.late = late
      /\ u.dbgstate = "RESPOND" /\ u.configuration = s.configuration
      /\ u.dbgbuf = b /\ u.memof = of /\ u.memlen = len /\ u.written = s.written /\ u.count = s.count
      /\ u.in = Zero(of) /\ u.txcallback = "none" /\ u.out = s.out /\ u.rxcallback = s.rxcallback
      /\ u.tx = s.tx /\ SameConsole(s, u)
  BY <1>1 DEF Device, StaticFields, Finish, usb_ep0_start_tx, SameConsole
<1> HIDE DEF u
<1>6. late \subseteq 0 .. s.req
  BY <1>1 DEF Device
<1>7. Device(u) /\ Rings(u)
  BY <1>1, <1>4, <1>5, <1>6 DEF Device, Rings, SameConsole
<1>8. s.configuration # 0
  BY <1>1 DEF Transfer, Stages
<1>9. Stages(u, host)
  BY <1>1, <1>5, <1>8 DEF Transfer, Stages
<1>10. LeftToWorker(u, host, Resting)
  BY <1>5 DEF LeftToWorker, Resting
<1>11. AskedReady(u, host)
  <2>1. ASSUME NEW c, Ready(s, c) PROVE FALSE
    BY <2>1 DEF Ready
  <2>2. host.asked # NoCommand => host.kind = "answer"
    BY <1>1, <2>1 DEF Transfer, AskedReady
  <2> QED
    BY <1>1, <1>5, <2>2 DEF Transfer, AskedReady
<1>12. CommandStage(u, host)
  <2>1. ~(host.phase = "out" /\ s.out)
    BY <1>1 DEF Transfer, CommandStage
  <2>2. ASSUME host.phase \in {"out", "status_in"}, host.kind \in CommandKinds
        PROVE  Ready(u, This(u, host))
    <3> DEFINE c == This(u, host)
    <3>1. [of |-> of, kind |-> worker.kind, units |-> worker.units] = This(s, host)
      BY <1>3, <2>2
    <3>2. of = s.req /\ worker.kind = host.kind /\ worker.units = host.units
      BY <3>1 DEF This
    <3>3. c.of = of /\ c.kind = worker.kind /\ c.units = worker.units
      BY <1>5, <3>2 DEF This
    <3>4. worker.kind \in WorkerKinds
      BY <1>1, <2>2, <3>2 DEF Statuses, CommandKinds
    <3> HIDE DEF c
    <3>5. Ready(u, c)
      BY <1>5, <3>3, <3>4 DEF Ready, WorkerKinds, GoodHeader, AllWritten
    <3> QED
      BY <3>5 DEF c
  <2> QED
    BY <1>5, <2>1, <2>2 DEF CommandStage
<1>13. DataStage(u, host)
  <2>1. ASSUME host.phase = "in" PROVE u.req \in u.late
    <3>1. host.kind \notin CommandKinds
      BY <1>1, <2>1 DEF Transfer, Stages, CommandKinds, WorkerKinds
    <3>2. of # s.req
      BY <1>1, <1>3, <2>1, <3>1
    <3> QED
      BY <1>5, <3>2
  <2> QED
    BY <2>1 DEF DataStage, Exceptional
<1>14. Delivered(u, host)
  <2>1. Exceptional(s, host) => Exceptional(u, host)
    BY <1>5 DEF Exceptional
  <2> QED
    BY <1>1, <1>5, <2>1 DEF Transfer, Delivered, Source, AllWritten
<1>15. Good(u, host, Resting)
  BY <1>1, <1>7, <1>9, <1>10, <1>11, <1>12, <1>13, <1>14 DEF Good, Transfer
<1> QED
  BY <1>15 DEF u

\* The steps of dbgthread, and a stack overflow.
LEMMA WorkerSteps ==
    ASSUME UsbInvariant, stack_overflows \/ WorkerStep
    PROVE  Good(s', host', worker')
<1>1. /\ Good(s, host, worker)
      /\ worker \in [pc : {"wait", "check", "run", "writing", "finish"}, of : Nat, kind : Statuses, units : Nat]
  BY DEF UsbInvariant, Good, ThreadTypes
<1>2. ASSUME NEW b, s' = [s EXCEPT !.signalled = b] PROVE Good(s', host, worker)
  <2>1. Quiet(s, s') /\ SameConsole(s, s')
    BY <1>1, <1>2 DEF Good, Device, StaticFields, Quiet, Alike, SameRequest, SameAnswer, SameLeft, SameStage,
       SameConsole
  <2>2. Rings(s')
    BY <1>1, <2>1 DEF Good, Rings, SameConsole
  <2> QED
    BY <1>1, <2>1, <2>2, QuietTransfer
<1>3. CASE stack_overflows
  BY <1>2, <1>3 DEF stack_overflows
<1>4. CASE worker_wakes
  <2>1. Good(s', host, worker)
    BY <1>2, <1>4 DEF worker_wakes
  <2>2. worker.pc = "wait" /\ worker'.pc = "check" /\ host' = host
    BY <1>1, <1>4 DEF worker_wakes
  <2> QED
    BY <2>1, <2>2, WorkerMoves
<1>5. CASE worker_checks
  <2>1. CASE s.dbgstate = "ASYNC"
    <3>1. /\ worker' = [pc |-> "run", of |-> s.dbgbuf.of, kind |-> s.dbgbuf.status, units |-> s.dbgbuf.bytes]
          /\ s' = s /\ host' = host /\ worker.pc = "check"
      BY <1>5, <2>1 DEF worker_checks
    <3>2. Given(s, worker') = Given(s, worker)
      BY <3>1 DEF Given
    <3>3. s.dbgbusy
      BY <1>1, <2>1 DEF Good, Transfer, LeftToWorker
    <3> QED
      BY <1>1, <3>1, <3>2, <3>3, WorkerMoves
  <2>2. CASE s.dbgstate # "ASYNC"
    <3>1. worker'.pc = "wait" /\ s' = [s EXCEPT !.dbgbusy = FALSE] /\ host' = host
      BY <1>1, <1>5, <2>2 DEF worker_checks
    <3> QED
      BY <1>1, <2>2, <3>1, WorkerFree
  <2> QED
    BY <2>1, <2>2
<1>6. CASE worker_runs \/ worker_has_written
  <2>1. /\ worker.pc \in {"run", "writing"} /\ s' = s /\ host' = host
        /\ worker'.pc \in {"writing", "finish"} /\ worker'.of = worker.of /\ worker'.kind = worker.kind
        /\ worker'.units = worker.units
    BY <1>1, <1>6 DEF worker_runs, worker_has_written
  <2>2. Given(s, worker') = Given(s, worker)
    BY <2>1 DEF Given
  <2>3. s.dbgbusy
    BY <1>1, <2>1 DEF Good, Transfer, LeftToWorker
  <2> QED
    BY <1>1, <2>1, <2>2, <2>3, WorkerMoves
<1>7. CASE worker_finishes
  <2>1. worker.pc = "finish" /\ s' = [Finish(s) EXCEPT !.dbgbusy = FALSE] /\ worker' = Resting /\ host' = host
    BY <1>7 DEF worker_finishes
  <2>2. CASE s.dbgstate = "ASYNC"
    BY <2>1, <2>2, FinishAsync
  <2>3. CASE s.dbgstate # "ASYNC"
    <3>1. s' = [s EXCEPT !.dbgbusy = FALSE] /\ Resting.pc = "wait"
      BY <2>1, <2>3 DEF Finish, Resting
    <3> QED
      BY <1>1, <2>1, <2>3, <3>1, WorkerFree
  <2> QED
    BY <2>2, <2>3
<1> QED
  BY <1>3, <1>4, <1>5, <1>6, <1>7 DEF WorkerStep

\* The ring is written, its oldest bytes are dropped, its write index goes on.
LEMMA RingEffects ==
    ASSUME NEW t, Device(t), Rings(t), NEW n \in Int
    PROVE  /\ LET u == PutText(t, n) IN Device(u) /\ Quiet(t, u) /\ Rings(u)
           /\ LET u == AdvanceWrite(t, n) IN Device(u) /\ Quiet(t, u) /\ Rings(u)
           /\ LET u == DropOldest(t, n) IN Device(u) /\ Quiet(t, u) /\ Rings(u)
           /\ LET u == Hear(t, n) IN Device(u) /\ Quiet(t, u) /\ Rings(u)
<1>1. /\ (t.sendwrite + n) % SendSize \in 0 .. SendSize - 1
      /\ (t.sendread + n) % SendSize \in 0 .. SendSize - 1
      /\ (t.recvread + n) % RecvSize \in 0 .. RecvSize - 1
  <2>1. t.sendwrite + n \in Int /\ t.sendread + n \in Int /\ t.recvread + n \in Int
    BY DEF Rings
  <2> QED
    BY <2>1, Sizes, Wraps
<1>2. t.sendbuf \in [0 .. SendSize - 1 -> Int] /\ t.text \in Int /\ t.sendwrite \in Int /\ t.text + n \in Int
  BY DEF Rings
<1>3. ASSUME NEW u, Quiet(t, u), Rings(u) PROVE Device(u) /\ Quiet(t, u) /\ Rings(u)
  BY <1>3 DEF Quiet, Alike, Device, SameRequest, SameAnswer, SameLeft, SameStage
<1>4. LET u == PutText(t, n) IN Quiet(t, u) /\ Rings(u)
  <2> DEFINE u == PutText(t, n)
             put == [i \in 0 .. SendSize - 1 |->
                        LET k == (i - t.sendwrite) % SendSize
                        IN  IF k < n THEN t.text + k + 1 ELSE t.sendbuf[i]]
  <2>1. put \in [0 .. SendSize - 1 -> Int]
    <3>1. ASSUME NEW i \in 0 .. SendSize - 1
          PROVE  t.text + ((i - t.sendwrite) % SendSize) + 1 \in Int /\ t.sendbuf[i] \in Int
      <4> DEFINE k == (i - t.sendwrite) % SendSize
      <4>1. k \in 0 .. SendSize - 1
        <5>1. i - t.sendwrite \in Int
          BY <1>2
        <5> QED
          BY <5>1, Sizes, Wraps
      <4> HIDE DEF k
      <4>2. k \in Int
        BY <4>1
      <4>3. t.text + k + 1 \in Int
        BY <1>2, <4>2
      <4>4. t.sendbuf[i] \in Int
        BY <1>2
      <4> QED
        BY <4>3, <4>4 DEF k
    <3> QED
      BY <3>1
  <2>2. /\ DOMAIN u = StaticFields /\ u.sendbuf = put /\ u.text = t.text + n
        /\ u.sendread = t.sendread /\ u.sendwrite = t.sendwrite
        /\ u.recvread = t.recvread /\ u.recvwrite = t.recvwrite /\ Quiet(t, u)
    BY DEF PutText, Device, StaticFields, Quiet, Alike, SameRequest, SameAnswer, SameLeft, SameStage
  <2> HIDE DEF u, put
  <2>3. Quiet(t, u) /\ Rings(u)
    BY <1>2, <2>1, <2>2 DEF Rings
  <2> QED
    BY <2>3 DEF u
<1>5. LET u == AdvanceWrite(t, n) IN Quiet(t, u) /\ Rings(u)
  <2> DEFINE u == AdvanceWrite(t, n)
  <2>1. /\ DOMAIN u = StaticFields /\ u.sendbuf = t.sendbuf /\ u.text = t.text
        /\ u.sendread = t.sendread /\ u.sendwrite = (t.sendwrite + n) % SendSize
        /\ u.recvread = t.recvread /\ u.recvwrite = t.recvwrite /\ Quiet(t, u)
    BY DEF AdvanceWrite, Device, StaticFields, Quiet, Alike, SameRequest, SameAnswer, SameLeft, SameStage
  <2> HIDE DEF u
  <2>2. Quiet(t, u) /\ Rings(u)
    BY <1>1, <2>1 DEF Rings
  <2> QED
    BY <2>2 DEF u
<1>6. LET u == DropOldest(t, n) IN Quiet(t, u) /\ Rings(u)
  <2> DEFINE u == DropOldest(t, n)
             r == (t.sendread + n) % SendSize
             marked == [i \in 0 .. SendSize - 1 |->
                           IF (i - r) % SendSize < MarkSize THEN MarkByte ELSE t.sendbuf[i]]
  <2>1. marked \in [0 .. SendSize - 1 -> Int]
    <3>1. MarkByte \in Int
      BY DEF MarkByte
    <3> HIDE DEF r
    <3> QED
      BY <1>2, <3>1
  <2>2. /\ DOMAIN u = StaticFields /\ u.sendbuf = marked /\ u.text = t.text
        /\ u.sendread = r /\ u.sendwrite = t.sendwrite
        /\ u.recvread = t.recvread /\ u.recvwrite = t.recvwrite /\ Quiet(t, u)
    BY DEF DropOldest, Device, StaticFields, Quiet, Alike, SameRequest, SameAnswer, SameLeft, SameStage
  <2> HIDE DEF u, marked
  <2>3. Quiet(t, u) /\ Rings(u)
    BY <1>1, <2>1, <2>2 DEF Rings
  <2> QED
    BY <2>3 DEF u
<1>7. LET u == Hear(t, n) IN Quiet(t, u) /\ Rings(u)
  <2> DEFINE u == Hear(t, n)
  <2>1. /\ DOMAIN u = StaticFields /\ u.sendbuf = t.sendbuf /\ u.text = t.text
        /\ u.sendread = t.sendread /\ u.sendwrite = t.sendwrite
        /\ u.recvread = (t.recvread + n) % RecvSize /\ u.recvwrite = t.recvwrite /\ Quiet(t, u)
    BY DEF Hear, Device, StaticFields, Quiet, Alike, SameRequest, SameAnswer, SameLeft, SameStage
  <2> HIDE DEF u
  <2>2. Quiet(t, u) /\ Rings(u)
    BY <1>1, <2>1 DEF Rings
  <2> QED
    BY <2>2 DEF u
<1> QED
  BY <1>3, <1>4, <1>5, <1>6, <1>7

\* Two such steps are one.
LEMMA QuietTwice ==
    ASSUME NEW t, NEW u, NEW v, Quiet(t, u), Quiet(u, v)
    PROVE  Quiet(t, v)
BY DEF Quiet, Alike, SameRequest, SameAnswer, SameLeft, SameStage

\* A flag of the console.
LEMMA FlagEffect ==
    ASSUME NEW t, Device(t), Rings(t), NEW b, NEW u, u = [t EXCEPT !.void = b] \/ u = [t EXCEPT !.attached = b]
    PROVE  Device(u) /\ Quiet(t, u) /\ Rings(u)
<1>1. Quiet(t, u) /\ SameConsole(t, u)
  BY DEF Device, StaticFields, Quiet, Alike, SameRequest, SameAnswer, SameLeft, SameStage, SameConsole
<1> QED
  BY <1>1 DEF Device, Rings, SameConsole, Quiet, Alike, SameRequest, SameAnswer, SameLeft, SameStage

\* The write of a panic.
LEMMA PanicEffect ==
    ASSUME NEW t, Device(t), Rings(t), NEW length \in Int
    PROVE  LET u == dbgconsole_swrite(t, length) IN Device(u) /\ Quiet(t, u) /\ Rings(u)
<1> DEFINE now == Fewer(length, dbgconsole_getfree(t))
           v == AdvanceWrite(PutText(t, now), now)
           rest == length - now
           w == DropOldest(v, rest)
           x == AdvanceWrite(PutText(w, rest), rest)
<1>1. now \in Int /\ rest \in Int
  <2>1. t.sendread - t.sendwrite - 1 \in Int
    BY DEF Rings
  <2>2. (t.sendread - t.sendwrite - 1) % SendSize \in 0 .. SendSize - 1
    BY <2>1, Sizes, Wraps
  <2> QED
    BY <2>2 DEF Fewer, dbgconsole_getfree
<1>2. dbgconsole_swrite(t, length) = IF now = length THEN v ELSE x
  BY DEF dbgconsole_swrite
<1> HIDE DEF now, rest
<1>3. Device(v) /\ Quiet(t, v) /\ Rings(v)
  <2>1. Device(PutText(t, now)) /\ Quiet(t, PutText(t, now)) /\ Rings(PutText(t, now))
    BY <1>1, RingEffects
  <2>2. Device(v) /\ Quiet(PutText(t, now), v) /\ Rings(v)
    BY <1>1, <2>1, RingEffects
  <2> QED
    BY <2>1, <2>2, QuietTwice
<1> HIDE DEF v
<1>4. Device(w) /\ Quiet(t, w) /\ Rings(w)
  <2>1. Device(w) /\ Quiet(v, w) /\ Rings(w)
    BY <1>1, <1>3, RingEffects
  <2> QED
    BY <1>3, <2>1, QuietTwice
<1> HIDE DEF w
<1>5. Device(x) /\ Quiet(t, x) /\ Rings(x)
  <2>1. Device(PutText(w, rest)) /\ Quiet(w, PutText(w, rest)) /\ Rings(PutText(w, rest))
    BY <1>1, <1>4, RingEffects
  <2>2. Device(x) /\ Quiet(PutText(w, rest), x) /\ Rings(x)
    BY <1>1, <2>1, RingEffects
  <2>3. Quiet(t, PutText(w, rest))
    BY <1>4, <2>1, QuietTwice
  <2> QED
    BY <2>2, <2>3, QuietTwice
<1> QED
  BY <1>2, <1>3, <1>5

\* A step of a thread that uses the console.
ConsoleStep ==
    \/ \E w \in Writers : WriterStep(w)
    \/ \E length \in work.writes : thread_writes(length)
    \/ \E length \in work.panics : panic_writes(length)
    \/ \E length \in {1, RecvSize} : thread_reads(length)

\* It is none of the host's business, nor of dbgthread's.
QuietStep == Quiet(s, s') /\ Rings(s') /\ host' = host /\ worker' = worker

LEMMA ConsoleQuiet ==
    ASSUME UsbInvariant, ConsoleStep
    PROVE  QuietStep
<1>1. /\ Device(s) /\ Rings(s)
      /\ \A w \in Writers : writer[w].left \in Int /\ writer[w].n \in Int
      /\ work.panics \subseteq Int
  BY DEF UsbInvariant, ThreadTypes
<1>2. ASSUME s' = s, host' = host, worker' = worker PROVE QuietStep
  BY <1>1, <1>2 DEF QuietStep, Quiet, Alike, SameRequest, SameAnswer, SameLeft, SameStage, Device
<1>3. ASSUME Quiet(s, s'), Rings(s'), host' = host, worker' = worker PROVE QuietStep
  BY <1>3 DEF QuietStep
<1>4. \A length : thread_writes(length) => s' = s /\ host' = host /\ worker' = worker
  BY DEF thread_writes
<1>5. ASSUME NEW w \in Writers, WriterStep(w)
      PROVE  QuietStep
  <2>1. writer[w].left \in Int /\ writer[w].n \in Int
    BY <1>1
  <2>2. Piece(w) \in Int
    BY <1>1, <2>1, Sizes DEF Piece, Fewer, Rings
  <2>3. Droppable(writer[w].left) \in Int
    BY <2>1, Sizes DEF Droppable, Fewer
  <2>4. CASE console_locks(w) \/ makespace_waited(w)
    BY <1>2, <2>4 DEF console_locks, makespace_waited
  <2>5. CASE makespace_looks(w)
    <3>1. (s' = s \/ s' = [s EXCEPT !.attached = FALSE]) /\ host' = host /\ worker' = worker
      BY <2>5 DEF makespace_looks
    <3> QED
      BY <1>1, <1>2, <1>3, <3>1, FlagEffect
  <2>6. CASE makespace_drops(w)
    <3> DEFINE n == Droppable(writer[w].left)
               v == DropOldest(s, n)
               b == v.void \/ Available(s) < n + MarkSize
    <3>1. s' = [v EXCEPT !.void = b] /\ host' = host /\ worker' = worker
      BY <2>6 DEF makespace_drops
    <3>2. Device(v) /\ Quiet(s, v) /\ Rings(v)
      BY <1>1, <2>3, RingEffects
    <3> HIDE DEF v, b
    <3>3. Quiet(v, s') /\ Rings(s')
      BY <3>1, <3>2, FlagEffect
    <3> QED
      BY <1>3, <3>1, <3>2, <3>3, QuietTwice
  <2>7. CASE write_copies(w)
    <3>1. s' = PutText(s, Piece(w)) /\ host' = host /\ worker' = worker
      BY <2>7 DEF write_copies
    <3> QED
      BY <1>1, <1>3, <2>2, <3>1, RingEffects
  <2>8. CASE write_advances(w)
    <3>1. s' = AdvanceWrite(s, Piece(w)) /\ host' = host /\ worker' = worker
      BY <2>8 DEF write_advances
    <3> QED
      BY <1>1, <1>3, <2>2, <3>1, RingEffects
  <2> QED
    BY <1>5, <2>4, <2>5, <2>6, <2>7, <2>8 DEF WriterStep
<1>6. ASSUME NEW length \in work.panics, panic_writes(length)
      PROVE  QuietStep
  <2> DEFINE v == dbgconsole_swrite(s, length)
             b == v.void \/ \E w \in Writers : PastTheCheck(w)
  <2>1. s' = [v EXCEPT !.void = b] /\ host' = host /\ worker' = worker
    BY <1>6 DEF panic_writes
  <2>2. length \in Int
    BY <1>1
  <2>3. Device(v) /\ Quiet(s, v) /\ Rings(v)
    BY <1>1, <2>2, PanicEffect
  <2> HIDE DEF v, b
  <2>4. Quiet(v, s') /\ Rings(s')
    BY <2>1, <2>3, FlagEffect
  <2> QED
    BY <1>3, <2>1, <2>3, <2>4, QuietTwice
<1>7. ASSUME NEW length \in {1, RecvSize}, thread_reads(length)
      PROVE  QuietStep
  <2> DEFINE n == Fewer(dbgconsole_getavailable(s), length)
  <2>1. s' = Hear(s, n) /\ host' = host /\ worker' = worker
    BY <1>7 DEF thread_reads
  <2>2. n \in Int
    <3>1. s.recvwrite - s.recvread \in Int /\ length \in Int
      BY <1>1, Sizes DEF Rings
    <3>2. (s.recvwrite - s.recvread) % RecvSize \in 0 .. RecvSize - 1
      BY <3>1, Sizes, Wraps
    <3> QED
      BY <3>1, <3>2 DEF Fewer, dbgconsole_getavailable
  <2> HIDE DEF n
  <2>3. Quiet(s, s') /\ Rings(s')
    BY <1>1, <2>1, <2>2, RingEffects
  <2> QED
    BY <1>3, <2>1, <2>3
<1> QED
  BY <1>2, <1>4, <1>5, <1>6, <1>7 DEF ConsoleStep

\* The steps of the threads that use the console.
LEMMA ConsoleSteps ==
    ASSUME UsbInvariant, ConsoleStep
    PROVE  Good(s', host', worker')
<1>1. Good(s, host, worker) /\ QuietStep
  BY ConsoleQuiet DEF UsbInvariant, Good
<1> QED
  BY <1>1, QuietTransfer DEF QuietStep

\* The threads and the workload keep to their types.
LEMMA ThreadTypesKept ==
    ASSUME UsbInvariant, Next
    PROVE  ThreadTypes'
<1> DEFINE Worker == [pc : {"wait", "check", "run", "writing", "finish"}, of : Nat, kind : Statuses, units : Nat]
           One == [pc : {"idle", "lock", "space", "wait", "full", "copy", "advance"}, left : Int, n : Int]
           Work == [requests : Nat, resets : Int, text : Nat, overflows : BOOLEAN, kinds : SUBSET Requests,
                    writes : SUBSET (Nat \ {0}), panics : SUBSET (1 .. SendSize - MarkSize - 1)]
<1>1. worker \in Worker /\ writer \in [Writers -> One] /\ work \in Work /\ s.dbgbuf \in Headers /\ Rings(s)
  BY DEF UsbInvariant, ThreadTypes, Device
<1>2. SUFFICES worker' \in Worker /\ writer' \in [Writers -> One] /\ work' \in Work
  BY DEF ThreadTypes
<1>3. work' = work \/ (work' = [work EXCEPT !.resets = @ - 1])
  BY DEF Next, HostStep, WorkerStep, WriterStep, host_setup, host_sends, host_receives, host_acknowledges,
     host_is_acknowledged, host_is_refused, host_gives_up, host_resets, stack_overflows, worker_wakes,
     worker_checks, worker_runs, worker_has_written, worker_finishes, thread_writes, console_locks,
     makespace_looks, makespace_waited, makespace_drops, write_copies, write_advances, panic_writes, thread_reads
<1>4. work' \in Work
  BY <1>1, <1>3
<1>5. worker' = worker \/ WorkerStep
  BY DEF Next, HostStep, WriterStep, host_setup, host_sends, host_receives, host_acknowledges,
     host_is_acknowledged, host_is_refused, host_gives_up, host_resets, stack_overflows,
     thread_writes, console_locks,
     makespace_looks, makespace_waited, makespace_drops, write_copies, write_advances, panic_writes, thread_reads
<1>6. worker' \in Worker
  <2>1. Resting \in Worker
    BY DEF Resting, Statuses
  <2>2. ASSUME worker' = [pc |-> "run", of |-> s.dbgbuf.of, kind |-> s.dbgbuf.status, units |-> s.dbgbuf.bytes]
        PROVE  worker' \in Worker
    BY <1>1, <2>2 DEF Headers
  <2> QED
    BY <1>1, <1>5, <2>1, <2>2 DEF WorkerStep, worker_wakes, worker_checks, worker_runs, worker_has_written,
       worker_finishes
<1>7. \/ writer' = writer
      \/ worker_runs /\ writer' = [writer EXCEPT !["worker"] = [pc |-> "lock", left |-> worker.units, n |-> 0]]
      \/ \E w \in Writers : WriterStep(w)
      \/ \E length \in work.writes : thread_writes(length)
  BY DEF Next, HostStep, WorkerStep, host_setup, host_sends, host_receives, host_acknowledges,
     host_is_acknowledged, host_is_refused, host_gives_up, host_resets, stack_overflows, worker_wakes,
     worker_checks, worker_runs, worker_has_written, worker_finishes, panic_writes, thread_reads
<1>8. writer' \in [Writers -> One]
  <2>1. CASE worker_runs /\ writer' = [writer EXCEPT !["worker"] = [pc |-> "lock", left |-> worker.units, n |-> 0]]
    BY <1>1, <2>1 DEF Writers
  <2>2. ASSUME NEW length \in work.writes, thread_writes(length) PROVE writer' \in [Writers -> One]
    <3>1. length \in Int
      BY <1>1
    <3> QED
      BY <1>1, <2>2, <3>1 DEF thread_writes, Writers
  <2>3. ASSUME NEW w \in Writers, WriterStep(w) PROVE writer' \in [Writers -> One]
    <3>1. writer[w] \in One
      BY <1>1
    <3>2. CASE console_locks(w) \/ makespace_waited(w)
      <4>1. writer' = [writer EXCEPT ![w].pc = "space"]
        BY <3>2, Zenon DEF console_locks, makespace_waited
      <4> QED
        BY <1>1, <3>1, <4>1
    <3>3. CASE makespace_looks(w)
      <4>1. dbgconsole_getfree(s) \in Int
        <5>1. s.sendread - s.sendwrite - 1 \in Int
          BY <1>1 DEF Rings
        <5>2. (s.sendread - s.sendwrite - 1) % SendSize \in 0 .. SendSize - 1
          BY <5>1, Sizes, Wraps
        <5> QED
          BY <5>2 DEF dbgconsole_getfree
      <4>2. Fewer(dbgconsole_getfree(s), writer[w].left) \in Int
        BY <3>1, <4>1 DEF Fewer
      <4> QED
        BY <1>1, <3>3, <4>2 DEF makespace_looks
    <3>4. CASE makespace_drops(w)
      <4>1. Droppable(writer[w].left) \in Int
        BY <3>1, Sizes DEF Droppable, Fewer
      <4> QED
        <5> DEFINE n == Droppable(writer[w].left)
        <5>1. writer' = [writer EXCEPT ![w].pc = "copy", ![w].n = n]
          BY <3>4, Zenon DEF makespace_drops
        <5>2. n \in Int
          BY <4>1
        <5> HIDE DEF n
        <5> QED
          BY <1>1, <3>1, <5>1, <5>2
    <3>5. CASE write_copies(w)
      BY <1>1, <3>5 DEF write_copies
    <3>6. CASE write_advances(w)
      <4>1. Piece(w) \in Int
        BY <1>1, <3>1, Sizes DEF Piece, Fewer, Rings
      <4>2. writer[w].left - Piece(w) \in Int /\ writer[w].n - Piece(w) \in Int
        BY <3>1, <4>1
      <4> QED
        <5> DEFINE left == writer[w].left - Piece(w)
                   n == writer[w].n - Piece(w)
                   p == IF n > 0 THEN "copy" ELSE IF left > 0 THEN "space" ELSE "idle"
        <5>1. writer' = [writer EXCEPT ![w] = [pc |-> p, left |-> left, n |-> n]]
          BY <3>6, Zenon DEF write_advances
        <5>2. left \in Int /\ n \in Int /\ p \in {"idle", "space", "copy"}
          BY <4>2
        <5> HIDE DEF left, n, p
        <5> QED
          BY <1>1, <5>1, <5>2
    <3> QED
      BY <2>3, <3>2, <3>3, <3>4, <3>5, <3>6 DEF WriterStep
  <2> QED
    BY <1>1, <1>7, <2>1, <2>2, <2>3
<1> QED
  BY <1>4, <1>6, <1>8

-----------------------------------------------------------------------------
(* The theorem.                                                            *)

\* The invariant holds when the monitor is enabled.
LEMMA UsbInit == Init => UsbInvariant
<1> SUFFICES ASSUME Init PROVE UsbInvariant
  OBVIOUS
<1> USE DEF Init
<1>1. /\ NoHeader \in Headers /\ << >> \in Seq(Content) /\ NoPacket \in Packets
      /\ NoAnswer \in [header : Headers, body : Seq(Content)]
      /\ NoCommand \in Asked /\ Resting \in [pc : {"wait"}, of : Nat, kind : Statuses, units : Nat]
  <2>1. NoHeader \in Headers /\ << >> \in Seq(Content)
    BY DEF NoHeader, Headers, Statuses
  <2> QED
    BY <2>1 DEF NoPacket, Packets, NoAnswer, NoCommand, Asked, Resting, Statuses
<1>2. Device(s)
  BY <1>1 DEF Statics, Device, StaticFields
<1>3. Rings(s)
  <2>1. 0 \in 0 .. SendSize - 1 /\ 0 \in 0 .. RecvSize - 1
    BY Sizes
  <2>2. EmptyRing(SendSize) \in [0 .. SendSize - 1 -> Int]
    BY DEF EmptyRing
  <2> QED
    BY <2>1, <2>2 DEF Statics, Rings
<1>4. Host(host) /\ Between(host) /\ host.asked = NoCommand
  <2>1. /\ DOMAIN host = {"phase", "kind", "units", "begun", "sent", "got", "asked", "seen"}
        /\ host.phase = "idle" /\ host.kind = "none" /\ host.units = 0 /\ host.sent = 0 /\ host.begun = FALSE
        /\ host.got = NoAnswer /\ host.asked = NoCommand
    OBVIOUS
  <2>2. host.begun \in BOOLEAN /\ ~host.begun
    BY <2>1, Zenon
  <2> QED
    BY <1>1, <2>1, <2>2 DEF Host, Between
<1>5. ThreadTypes
  <2>1. worker \in [pc : {"wait", "check", "run", "writing", "finish"}, of : Nat, kind : Statuses, units : Nat]
    BY <1>1
  <2>2. writer \in [Writers -> [pc : {"idle", "lock", "space", "wait", "full", "copy", "advance"},
                                left : Int, n : Int]]
    OBVIOUS
  <2>3. work \in [requests : Nat, resets : Int, text : Nat, overflows : BOOLEAN, kinds : SUBSET Requests,
                  writes : SUBSET (Nat \ {0}), panics : SUBSET (1 .. SendSize - MarkSize - 1)]
    BY MonitorAssumption
  <2> QED
    BY <2>1, <2>2, <2>3 DEF ThreadTypes
<1>6. s.dbgstate = "IDLE" /\ worker.pc = "wait"
  BY DEF Statics, Resting
<1>7. LeftToWorker(s, host, worker)
  BY <1>6 DEF LeftToWorker
<1>8. Good(s, host, worker)
  BY <1>2, <1>3, <1>4, <1>6, <1>7, ToIdle
<1> QED
  BY <1>2, <1>3, <1>4, <1>5, <1>8 DEF UsbInvariant, Good

\* Every step keeps the invariant.
LEMMA UsbStep == UsbInvariant /\ [Next]_vars => UsbInvariant'
<1> SUFFICES ASSUME UsbInvariant, [Next]_vars PROVE UsbInvariant'
  OBVIOUS
<1>1. CASE UNCHANGED vars
  <2>1. /\ s' = s /\ host' = host /\ worker' = worker /\ writer' = writer /\ work' = work
    BY <1>1 DEF vars
  <2>2. Good(s', host', worker')
    BY <2>1 DEF UsbInvariant, Good
  <2>3. ThreadTypes'
    BY <2>1 DEF UsbInvariant, ThreadTypes
  <2> QED
    BY <2>2, <2>3 DEF UsbInvariant, Good
<1>2. CASE Next
  <2>1. ThreadTypes'
    BY <1>2, ThreadTypesKept
  <2>2. Good(s', host', worker')
    <3>1. ASSUME NEW r \in work.kinds, host_setup(r) PROVE Good(s', host', worker')
      <4>1. r \in Requests
        BY DEF UsbInvariant, ThreadTypes
      <4>2. worker' = worker
        BY <3>1 DEF host_setup
      <4> QED
        BY <3>1, <4>1, <4>2, SetupStep
    <3>2. CASE host_sends
      BY <3>2, SendsStep DEF host_sends
    <3>3. CASE host_receives
      BY <3>3, ReceivesStep DEF host_receives
    <3>4. CASE host_acknowledges
      BY <3>4, AcknowledgesStep DEF host_acknowledges
    <3>5. CASE host_is_acknowledged
      BY <3>5, IsAcknowledgedStep DEF host_is_acknowledged
    <3>6. CASE host_is_refused \/ host_gives_up
      BY <3>6, DroppedStep DEF host_is_refused, host_gives_up
    <3>7. CASE host_resets
      BY <3>7, ResetsStep DEF host_resets
    <3>8. CASE stack_overflows \/ WorkerStep
      BY <3>8, WorkerSteps
    <3>9. CASE ConsoleStep
      BY <3>9, ConsoleSteps
    <3> QED
      BY <1>2, <3>1, <3>2, <3>3, <3>4, <3>5, <3>6, <3>7, <3>8, <3>9 DEF Next, HostStep, ConsoleStep
  <2> QED
    BY <2>1, <2>2 DEF UsbInvariant, Good
<1> QED
  BY <1>1, <1>2

\* The invariant is about the state of usbdebug.c and the host; it says that the answers match.
LEMMA UsbMatches == UsbInvariant => AnswersMatch
<1> SUFFICES ASSUME UsbInvariant, host.phase = "status_out", ~Excepted
             PROVE  /\ host.kind = "answer" =>
                          /\ host.got.header.of = host.asked.of
                          /\ host.got.header.status = IF host.asked.kind = "bad" THEN "unsupported" ELSE "ok"
                    /\ IF host.kind = "answer" /\ host.asked.kind = "con_read"
                       THEN Len(host.got.body) = host.asked.units
                       ELSE host.got.body = Expected
                    /\ host.kind = "answer" /\ host.asked.kind = "write" =>
                          s.written = Units(host.asked.of, 0, host.asked.units)
  BY DEF AnswersMatch
<1>1. ~Exceptional(s, host)
  BY DEF Exceptional, Excepted
<1>2. /\ Len(host.got.body) = Total(host)
      /\ ~OfConsole(host) => host.got.body = Units(Source(s, host), 0, Total(host))
      /\ host.kind = "answer" => GoodHeader(host.asked, host.got.header) /\ AllWritten(s, host.asked)
  BY <1>1 DEF UsbInvariant, Transfer, Delivered
<1>3. host.kind \in {"descriptor", "status", "answer"} /\ host.asked.of \in Nat /\ host.asked.units \in Nat
  BY DEF UsbInvariant, Transfer, Stages, Host, Asked
<1>4. CASE host.kind = "answer"
  <2>1. GoodHeader(host.asked, host.got.header) /\ AllWritten(s, host.asked)
    BY <1>2, <1>4
  <2>2. CASE host.asked.kind = "con_read"
    BY <1>2, <1>4, <2>1, <2>2 DEF GoodHeader, AllWritten, Total, DataKinds
  <2>3. CASE host.asked.kind \in {"read", "i2c"}
    <3>1. host.got.body = Units(host.asked.of, 0, host.asked.units)
      BY <1>2, <1>4, <2>3 DEF OfConsole, Source, Total, DataKinds
    <3>2. Expected = Units(host.asked.of, 0, host.asked.units)
      BY <1>4, <2>3 DEF Expected
    <3> QED
      BY <1>4, <2>1, <2>3, <3>1, <3>2 DEF GoodHeader, AllWritten
  <2>4. CASE host.asked.kind \notin {"con_read", "read", "i2c"}
    <3>1. host.got.body = Units(host.asked.of, 0, 0)
      BY <1>2, <1>4, <2>4 DEF OfConsole, Source, Total, DataKinds
    <3>2. host.got.body = << >>
      BY <3>1, UnitsNone
    <3>3. Expected = << >>
      BY <1>4, <2>4 DEF Expected
    <3> QED
      BY <1>4, <2>1, <2>4, <3>2, <3>3 DEF GoodHeader, AllWritten
  <2> QED
    BY <2>2, <2>3, <2>4
<1>5. CASE host.kind \in {"descriptor", "status"}
  BY <1>2, <1>5 DEF Expected, OfConsole, Source, Total
<1> QED
  BY <1>3, <1>4, <1>5

\* The state of the device, the answer it prepares and the command that dbgthread runs are
\* those of the host's request at every stage of it.
THEOREM UsbInvariantHolds == Spec => []UsbInvariant
<1> QED
  BY UsbInit, UsbStep, PTL DEF Spec

\* usbdebug.c answers every command with its own answer, whole and in order, but for the
\* requests it is known to answer with something else.
THEOREM AnswersAreRight == Spec => []AnswersMatch
<1> QED
  BY UsbInvariantHolds, UsbMatches, PTL
====
