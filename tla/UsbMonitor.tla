------------------------------ MODULE UsbMonitor -----------------------------
(***************************************************************************)
(* The USB monitor (emcore/usb/usbdebug.c) on the device core of UsbCore,  *)
(* with the console of Console, between a host and the threads.            *)
(*                                                                         *)
(* A command is a control write, its answer a control read that the host   *)
(* asks for next.  Most commands run in the interrupt that receives them;  *)
(* the others are left to a worker thread, and are acknowledged when it is *)
(* done.  The interrupt is one step with the packet that caused it; the    *)
(* threads run between any two packets.                                    *)
(***************************************************************************)
EXTENDS UsbCore, Console

CONSTANTS Workloads   \* [requests, kinds, resets, overflows, writes, panics, text]: how many
                      \* requests the host makes and of which kinds, how often it resets the
                      \* bus, whether stacks overflow, how long the texts are that threads and
                      \* panics write, and when no more is written

AnswerData == Packet - 1   \* units behind the header in the first packet, 48 bytes

StandardKinds ==
    {"address", "configure", "unconfigure", "descriptor", "status", "interface", "unknown"}
WorkerKinds == {"async", "i2c", "cwrite"}
CommandKinds == {"info", "bad", "read", "write", "flush", "con_read", "con_write"} \cup WorkerKinds
DataKinds == {"read", "i2c", "con_read"}       \* whose answers carry data
PayloadKinds == {"write", "con_write", "cwrite"}

Requests == [kind : StandardKinds \cup CommandKinds \cup {"answer"}, units : Nat]

ASSUME MonitorAssumption ==
    Workloads \subseteq
        [requests : Nat, resets : Nat, text : Nat, overflows : BOOLEAN, kinds : SUBSET Requests,
         writes : SUBSET (Nat \ {0}), panics : SUBSET (1 .. SendSize - MarkSize - 1)]

VARIABLES s,        \* the statics of usb.c and usbdebug.c
          worker,   \* dbgthread: [pc, of, kind, units]
          writer,   \* who writes the console under console_mutex: [pc, left, n]
          reader,   \* who reads the console: the last byte read, and whether none was missed
          host,
          work      \* the workload

vars == <<s, worker, writer, reader, host, work>>

Writers == {"thread", "worker"}

NoCommand == [of |-> 0, kind |-> "none", units |-> 0]
Resting == [pc |-> "wait", of |-> 0, kind |-> "none", units |-> 0]   \* dbgthread
NoAnswer == [header |-> NoHeader, body |-> << >>]

Statics ==
    [configuration |-> 1, address |-> TRUE, req |-> 0, in |-> NoPacket, out |-> FALSE,
     stalled |-> {}, rxcallback |-> "none", txcallback |-> "none",
     tx |-> [of |-> 0, sent |-> 0, left |-> 0, ptr |-> FALSE],
     dbgstate |-> "IDLE", dbgbusy |-> FALSE, dbgbuf |-> NoHeader, signalled |-> FALSE,
     memof |-> 0, memlen |-> 0, count |-> 0, written |-> << >>,
     refused |-> {}, late |-> {}, void |-> FALSE,
     sendbuf |-> EmptyRing(SendSize), sendread |-> 0, sendwrite |-> 0, attached |-> FALSE, text |-> 0,
     recvbuf |-> EmptyRing(RecvSize), recvread |-> 0, recvwrite |-> 0, typed |-> 0]

Init ==
    /\ work \in Workloads
    /\ s = Statics
    /\ worker = Resting
    /\ writer = [w \in Writers |-> [pc |-> "idle", left |-> 0, n |-> 0]]
    /\ reader = [last |-> 0, ok |-> TRUE]
    /\ host = [phase |-> "idle", kind |-> "none", units |-> 0, begun |-> FALSE, sent |-> 0,
               got |-> NoAnswer, asked |-> NoCommand,
               seen |-> [last |-> 0, marks |-> 0, ok |-> TRUE]]

-----------------------------------------------------------------------------
(* Commands, in the interrupt of a data packet.                            *)

\* The command was done: the host's IN packet acknowledges it.
Respond(t) ==
    usb_ep0_start_tx(usb_set_stall([t EXCEPT !.dbgstate = "RESPOND"], {"out"}), Zero(t.req), "none")

Answer(status, bytes) == [of |-> s.req, status |-> status, bytes |-> bytes]   \* dbgbuf

MoreData(t, state) == usb_ep0_start_rx([t EXCEPT !.dbgstate = state], TRUE, "data")

WriteMemory(t, units, data) ==
    LET u == [t EXCEPT !.written = data, !.memlen = units - Len(data)]
    IN  IF u.memlen > 0 THEN MoreData(u, "WRITE_MEM")
        ELSE Respond([u EXCEPT !.dbgbuf = Answer("ok", 0)])

WriteConsole(t, units) ==
    LET total == Lesser(RecvFree(t), units)
        now == Lesser(AnswerData, total)
        u == [Typed(t, now) EXCEPT !.dbgbuf = Answer("ok", total)]
    IN  IF total > now THEN MoreData([u EXCEPT !.memlen = total - now], "WRITE_CONSOLE")
        ELSE Respond(u)

ReadConsole(t, count) ==
    [Respond([t EXCEPT !.memof = t.req, !.count = count]) EXCEPT !.dbgstate = "READ_CONSOLE"]

\* Variant: the worker is given a command while it runs another one.
LeaveToWorker_always(t, r) ==
    [t EXCEPT !.dbgbuf = Answer(r.kind, r.units), !.dbgstate = "ASYNC",
              !.dbgbusy = TRUE, !.signalled = TRUE]

\* When the worker is busy the answer is marked as refused in the packet that was received,
\* not in the buffer that will be sent.
LeaveToWorker(t, r) ==
    IF t.dbgbusy THEN Respond([t EXCEPT !.refused = @ \cup {t.req}])
    ELSE [t EXCEPT !.dbgbuf = Answer(r.kind, r.units), !.dbgstate = "ASYNC",
                   !.dbgbusy = TRUE, !.signalled = TRUE]

\* FLUSH CACHE marks its success in the packet that was received.
Command(t, r, data) ==
    CASE r.kind = "info" -> Respond([t EXCEPT !.dbgbuf = Answer("ok", 0)])
      [] r.kind = "bad" -> Respond([t EXCEPT !.dbgbuf = Answer("unsupported", 0)])
      [] r.kind = "read" -> Respond([t EXCEPT !.dbgbuf = Answer("ok", 0),
                                              !.memof = t.req, !.memlen = r.units])
      [] r.kind = "write" -> WriteMemory(t, r.units, data)
      [] r.kind = "flush" -> Respond(t)
      [] r.kind = "con_read" -> ReadConsole(t, r.units)
      [] r.kind = "con_write" -> WriteConsole(t, r.units)
      [] r.kind \in WorkerKinds -> LeaveToWorker(t, r)

\* A packet of the data that follows the first packet.
WriteMemoryData(t, data) ==
    LET len == Lesser(Len(data), t.memlen)
        u == [t EXCEPT !.memlen = @ - len, !.written = @ \o SubSeq(data, 1, len)]
    IN  IF u.memlen > 0 /\ Len(data) = Packet THEN MoreData(u, u.dbgstate)
        ELSE Respond([u EXCEPT !.dbgbuf = Answer("ok", 0)])

WriteConsoleData(t, data) ==
    LET bytes == Lesser(Len(data), t.memlen)
        u == [Typed(t, bytes) EXCEPT !.memlen = @ - bytes]
    IN  IF bytes > 0 /\ u.memlen > 0 /\ Len(data) = Packet THEN MoreData(u, u.dbgstate) ELSE Respond(u)

usbdebug_handle_data(v, r, data) ==
    LET t == usb_ep0_start_rx(v, FALSE, "none")
    IN  CASE t.dbgstate = "SETUP" -> Command(t, r, data)
          [] t.dbgstate = "WRITE_MEM" -> WriteMemoryData(t, data)
          [] t.dbgstate = "WRITE_CONSOLE" -> WriteConsoleData(t, data)
          [] OTHER -> Respond(t)

-----------------------------------------------------------------------------
(* Answers.                                                                *)

\* The next piece of console text, of at most size units; what follows the bytes that were
\* found is padding.
ConsolePiece(t, size) ==
    Taken(t, Lesser(size, t.memlen)) \o [i \in 1 .. Lesser(size, t.count) - Lesser(size, t.memlen) |-> PadByte]

TakePiece(t, size) ==
    LET n == Lesser(size, t.memlen)
    IN  [Take(t, n) EXCEPT !.memlen = @ - n, !.count = @ - Lesser(size, @), !.attached = TRUE,
                           !.void = @ \/ Available(t) < n]

read_console_callback(t) ==
    IF t.count = 0 THEN LastSent(t)
    ELSE usb_ep0_start_tx(TakePiece(t, Packet), [Zero(t.req) EXCEPT !.body = ConsolePiece(t, Packet)],
                          IF t.count < Packet THEN "short" ELSE "read_console")

\* The first packet of an answer, with the header that dbgbuf holds.  If more follows, callback
\* sends it, and the state is left as it is.
FirstPacket(t, body, rest, callback) ==
    LET packet == [of |-> t.req, header |-> t.dbgbuf, body |-> body]
        full == Size(packet) = Packet
        u == IF rest > 0 THEN t ELSE [t EXCEPT !.dbgstate = "IDLE"]
    IN  usb_ep0_start_tx(
            usb_ep0_start_rx([u EXCEPT !.tx = [of |-> t.memof, sent |-> Len(body), left |-> @.left, ptr |-> TRUE]],
                             FALSE, "none"),
            packet, IF ~ full THEN "short" ELSE IF rest > 0 THEN callback ELSE "tx")

AnswerCommand(t, want) ==
    LET memlen == Lesser(t.memlen, want)
        len == Lesser(AnswerData, memlen)
        u == [t EXCEPT !.memlen = memlen - len, !.tx.left = memlen - len]
    IN  FirstPacket(u, Units(t.memof, 0, len), memlen - len, "tx")

AnswerConsole(t, want) ==
    LET count == Lesser(t.count, want)
        found == Found(t, count)
        u == [t EXCEPT !.count = count, !.memlen = found,
                       !.dbgbuf = [of |-> t.memof, status |-> "ok", bytes |-> found]]
        v == [TakePiece(u, AnswerData) EXCEPT !.tx.left = 0]
    IN  FirstPacket(v, ConsolePiece(u, AnswerData), v.count, "read_console")

usbdebug_handle_setup(t, r) ==
    IF r.kind # "answer"
    THEN usb_ep0_start_rx([t EXCEPT !.dbgstate = "SETUP", !.memlen = 0], TRUE, "data")
    ELSE CASE t.dbgstate = "RESPOND" -> AnswerCommand(t, r.units)
           [] t.dbgstate = "READ_CONSOLE" -> AnswerConsole(t, r.units)
           [] OTHER -> Refuse(t)

\* The monitor's requests are for its interface, which there is in a configuration.
usb_handle_ep0_setup(t, r) ==
    IF r.kind \in StandardKinds THEN StandardSetup(t, r)
    ELSE IF t.configuration = 0 THEN Refuse(t) ELSE usbdebug_handle_setup(t, r)

\* usb_handle_xfer_complete of endpoint 0.
InComplete(v) ==
    LET t == [v EXCEPT !.in = NoPacket, !.txcallback = "none"]
    IN  CASE v.txcallback = "none" -> t
          [] v.txcallback = "ack" -> usb_ep0_ack_callback(t, "in")
          [] v.txcallback = "short" -> usb_ep0_short_tx_callback(t)
          [] v.txcallback = "tx" -> usb_ep0_tx_callback(t)
          [] v.txcallback = "read_console" -> read_console_callback(t)

OutComplete(v, r, data) ==
    LET t == [v EXCEPT !.out = FALSE, !.rxcallback = "none"]
    IN  CASE v.rxcallback = "none" -> t
          [] v.rxcallback = "ack" -> usb_ep0_ack_callback(t, "out")
          [] v.rxcallback = "data" -> usbdebug_handle_data(t, r, data)

-----------------------------------------------------------------------------
(* The host: the stages of a control transfer.                             *)

\* How much data the host wants or has, and the answer's header or the command counts as one.
Stage(r) == IF r.kind \in CommandKinds THEN "out"
            ELSE IF r.kind \in {"descriptor", "status", "answer"} THEN "in" ELSE "status_in"

\* The answer follows its command, and is asked for with the size of the command's data.
MayAsk(r) ==
    r.kind = "answer" =>
        /\ host.asked # NoCommand
        /\ r.units = IF host.asked.kind \in DataKinds THEN host.asked.units ELSE 0

host_setup(r) ==
    /\ host.phase = "idle" /\ s.req < work.requests /\ MayAsk(r)
    /\ s' = usb_handle_ep0_setup(SetupReceived(s), r)
    /\ host' = [host EXCEPT !.phase = Stage(r), !.kind = r.kind, !.units = r.units,
                            !.asked = IF r.kind \in CommandKinds THEN NoCommand ELSE @]
    /\ UNCHANGED <<worker, writer, reader, work>>

\* Between requests.
Idle(h) == [h EXCEPT !.phase = "idle", !.kind = "none", !.units = 0, !.begun = FALSE, !.sent = 0,
                     !.got = NoAnswer]

\* A command has been acknowledged, or what was asked for has come.
Ended(h) ==
    [Idle(h) EXCEPT !.asked = IF h.kind \in CommandKinds THEN [of |-> s.req, kind |-> h.kind, units |-> h.units]
                        ELSE IF h.kind = "answer" THEN NoCommand ELSE @]

\* A request that came to nothing.  Console text that was taken for it is lost.
Dropped(h) ==
    [Idle(h) EXCEPT
              !.asked = IF h.kind = "answer" THEN NoCommand ELSE @,
              !.seen.marks = IF h.kind = "answer" /\ h.asked.kind = "con_read" THEN MarkSize ELSE @]

host_sends ==
    LET payload == IF host.kind \in PayloadKinds THEN host.units ELSE 0
        last == Lesser(payload, host.sent + (IF host.begun THEN Packet ELSE AnswerData))
    IN  /\ host.phase = "out" /\ s.out
        /\ s' = OutComplete(s, [kind |-> host.kind, units |-> host.units], Units(s.req, host.sent, last))
        /\ host' = [host EXCEPT !.begun = TRUE, !.sent = last,
                                !.phase = IF last < payload THEN "out" ELSE "status_in"]
        /\ UNCHANGED <<worker, writer, reader, work>>

\* Text of the console that the host gets: nothing is missing, unless the message says so.
See(seen, byte) ==
    IF byte = PadByte THEN seen
    ELSE IF byte = MarkByte THEN [seen EXCEPT !.marks = Lesser(@ + 1, MarkSize)]
    ELSE [last |-> byte, marks |-> 0,
          ok |-> seen.ok /\ (byte = seen.last + 1 \/ (byte > seen.last /\ seen.marks = MarkSize))]

Wanted == host.units + (IF host.kind = "answer" THEN 1 ELSE 0)

host_receives ==
    LET got == [header |-> IF s.in.header = NoHeader THEN host.got.header ELSE s.in.header,
                body |-> host.got.body \o s.in.body]
        text == IF host.kind = "answer" /\ host.asked.kind = "con_read" THEN s.in.body ELSE << >>
    IN  /\ host.phase = "in" /\ "in" \notin s.stalled /\ s.in # NoPacket
        /\ s' = InComplete(s)
        /\ host' = [host EXCEPT !.got = got,
                                !.seen = FoldLeft(See, @, text),
                                !.phase = IF Size(s.in) < Packet \/ Size(got) >= Wanted THEN "status_out" ELSE "in"]
        /\ UNCHANGED <<worker, writer, reader, work>>

host_acknowledges ==
    /\ host.phase = "status_out" /\ s.out
    /\ s' = OutComplete(s, NoCommand, << >>)
    /\ host' = Ended(host)
    /\ UNCHANGED <<worker, writer, reader, work>>

host_is_acknowledged ==
    /\ host.phase = "status_in" /\ "in" \notin s.stalled /\ s.in # NoPacket
    /\ s' = InComplete(s)
    /\ host' = Ended(host)
    /\ UNCHANGED <<worker, writer, reader, work>>

host_is_refused ==
    /\ \/ host.phase \in {"in", "status_in"} /\ "in" \in s.stalled
       \/ host.phase \in {"out", "status_out"} /\ "out" \in s.stalled /\ ~ s.out
    /\ host' = Dropped(host)
    /\ UNCHANGED <<s, worker, writer, reader, work>>

\* A timeout of the host's.
host_gives_up ==
    /\ host.phase # "idle"
    /\ host' = Dropped(host)
    /\ UNCHANGED <<s, worker, writer, reader, work>>

host_resets ==
    /\ work.resets > 0
    /\ work' = [work EXCEPT !.resets = @ - 1]
    /\ s' = usb_handle_bus_reset(s)
    /\ host' = IF host.phase = "idle" THEN host ELSE Dropped(host)
    /\ UNCHANGED <<worker, writer, reader>>

-----------------------------------------------------------------------------
(* dbgthread.                                                              *)

\* The scheduler wakes it too, for a thread whose stack has overflowed.
stack_overflows ==
    /\ ~ s.signalled /\ work.overflows
    /\ s' = [s EXCEPT !.signalled = TRUE]
    /\ UNCHANGED <<worker, writer, reader, host, work>>

worker_wakes ==
    /\ worker.pc = "wait" /\ s.signalled
    /\ s' = [s EXCEPT !.signalled = FALSE]
    /\ worker' = [worker EXCEPT !.pc = "check"]
    /\ UNCHANGED <<writer, reader, host, work>>

worker_checks ==
    /\ worker.pc = "check"
    /\ IF s.dbgstate = "ASYNC"
       THEN /\ worker' = [pc |-> "run", of |-> s.dbgbuf.of, kind |-> s.dbgbuf.status, units |-> s.dbgbuf.bytes]
            /\ s' = s
       ELSE /\ worker' = [worker EXCEPT !.pc = "wait"]
            /\ s' = [s EXCEPT !.dbgbusy = FALSE]
    /\ UNCHANGED <<writer, reader, host, work>>

\* Of the commands it runs, CWRITE writes the console, and waits there.
worker_runs ==
    /\ worker.pc = "run"
    /\ IF worker.kind = "cwrite"
       THEN /\ worker' = [worker EXCEPT !.pc = "writing"]
            /\ writer' = [writer EXCEPT !["worker"] = [pc |-> "lock", left |-> worker.units, n |-> 0]]
       ELSE /\ worker' = [worker EXCEPT !.pc = "finish"]
            /\ UNCHANGED writer
    /\ UNCHANGED <<s, reader, host, work>>

worker_has_written ==
    /\ worker.pc = "writing" /\ writer["worker"].pc = "idle"
    /\ worker' = [worker EXCEPT !.pc = "finish"]
    /\ UNCHANGED <<s, writer, reader, host, work>>

\* What the host waits for, unless a command came in between.  A request that is none of the
\* monitor's does not count as one: it is acknowledged in the place of the command.
Finish(v) ==
    IF v.dbgstate # "ASYNC" THEN v
    ELSE [usb_ep0_start_tx(v, Zero(worker.of), "none") EXCEPT
             !.dbgstate = "RESPOND", !.memof = worker.of,
             !.memlen = IF worker.kind = "i2c" THEN worker.units ELSE 0,
             !.dbgbuf = [of |-> worker.of, status |-> "ok", bytes |-> 0],
             !.late = IF v.req = worker.of THEN @ ELSE @ \cup {v.req}]

worker_finishes ==
    /\ worker.pc = "finish"
    /\ s' = [Finish(s) EXCEPT !.dbgbusy = FALSE]
    /\ worker' = Resting
    /\ UNCHANGED <<writer, reader, host, work>>

-----------------------------------------------------------------------------
(* Threads that use the console.                                           *)

Started(w) == writer[w].pc \notin {"idle", "lock"}
PastTheCheck(w) == writer[w].pc \in {"full", "copy", "advance"}

\* cwrite, cputs or cprintf of length bytes.
thread_writes(length) ==
    /\ writer["thread"].pc = "idle" /\ s.text < work.text
    /\ writer' = [writer EXCEPT !["thread"] = [pc |-> "lock", left |-> length, n |-> 0]]
    /\ UNCHANGED <<s, worker, reader, host, work>>

console_locks(w) ==
    /\ writer[w].pc = "lock" /\ \A v \in Writers : ~ Started(v)
    /\ writer' = [writer EXCEPT ![w].pc = "space"]
    /\ UNCHANGED <<s, worker, reader, host, work>>

\* Of a full ring the writer waits for a host that is attached, and for no other.
makespace_looks(w) ==
    LET free == dbgconsole_getfree(s) IN
    /\ writer[w].pc = "space"
    /\ \/ /\ free > 0
          /\ writer' = [writer EXCEPT ![w].pc = "copy", ![w].n = Fewer(free, writer[w].left)]
          /\ s' = s
       \/ /\ free = 0 /\ s.attached
          /\ writer' = [writer EXCEPT ![w].pc = "wait"]
          /\ s' = [s EXCEPT !.attached = FALSE]
       \/ /\ free = 0 /\ ~ s.attached
          /\ writer' = [writer EXCEPT ![w].pc = "full"]
          /\ s' = s
    /\ UNCHANGED <<worker, reader, host, work>>

\* The wait ends when the monitor has read, or after two seconds.
makespace_waited(w) ==
    /\ writer[w].pc = "wait"
    /\ writer' = [writer EXCEPT ![w].pc = "space"]
    /\ UNCHANGED <<s, worker, reader, host, work>>

\* The ring is not looked at again: it may have been read in the meantime.
makespace_drops(w) ==
    LET n == Droppable(writer[w].left) IN
    /\ writer[w].pc = "full"
    /\ s' = [DropOldest(s, n) EXCEPT !.void = @ \/ Available(s) < n + MarkSize]
    /\ writer' = [writer EXCEPT ![w].pc = "copy", ![w].n = n]
    /\ UNCHANGED <<worker, reader, host, work>>

\* A write goes to the end of the buffer at most, and then on from its start.
Piece(w) == Fewer(writer[w].n, SendSize - s.sendwrite)

write_copies(w) ==
    /\ writer[w].pc = "copy"
    /\ s' = PutText(s, Piece(w))
    /\ writer' = [writer EXCEPT ![w].pc = "advance"]
    /\ UNCHANGED <<worker, reader, host, work>>

write_advances(w) ==
    LET left == writer[w].left - Piece(w)
        n == writer[w].n - Piece(w)
    IN  /\ writer[w].pc = "advance"
        /\ s' = AdvanceWrite(s, Piece(w))
        /\ writer' = [writer EXCEPT
                         ![w] = [pc |-> IF n > 0 THEN "copy" ELSE IF left > 0 THEN "space" ELSE "idle",
                                 left |-> left, n |-> n]]
        /\ UNCHANGED <<worker, reader, host, work>>

\* A panic writes without the mutex, possibly in the middle of a write.
panic_writes(length) ==
    /\ s.text < work.text
    /\ s' = [dbgconsole_swrite(s, length) EXCEPT !.void = @ \/ \E w \in Writers : PastTheCheck(w)]
    /\ UNCHANGED <<worker, writer, reader, host, work>>

\* dbgconsole_getc, or dbgconsole_read of at most length bytes; that they wait for the first
\* byte is not shown.
Listen(r, byte) == [last |-> byte, ok |-> r.ok /\ byte = r.last + 1]

thread_reads(length) ==
    LET n == Fewer(dbgconsole_getavailable(s), length) IN
    /\ n > 0
    /\ s' = Hear(s, n)
    /\ reader' = FoldLeft(Listen, reader, Heard(s, n))
    /\ UNCHANGED <<worker, writer, host, work>>

-----------------------------------------------------------------------------
WriterStep(w) ==
    \/ console_locks(w) \/ makespace_looks(w) \/ makespace_waited(w) \/ makespace_drops(w)
    \/ write_copies(w) \/ write_advances(w)

WorkerStep == worker_wakes \/ worker_checks \/ worker_runs \/ worker_has_written \/ worker_finishes

\* What a host does that neither starts nor abandons a request.
HostStep ==
    host_sends \/ host_receives \/ host_acknowledges \/ host_is_acknowledged \/ host_is_refused

Next ==
    \/ \E r \in work.kinds : host_setup(r)
    \/ HostStep
    \/ host_gives_up
    \/ host_resets
    \/ stack_overflows
    \/ WorkerStep
    \/ \E w \in Writers : WriterStep(w)
    \/ \E length \in work.writes : thread_writes(length)
    \/ \E length \in work.panics : panic_writes(length)
    \/ \E length \in {1, RecvSize} : thread_reads(length)

Spec == Init /\ [][Next]_vars

\* The host goes on with a request it made, and every thread gets to run.
FairSpec ==
    /\ Spec
    /\ WF_vars(HostStep) /\ WF_vars(WorkerStep)
    /\ \A w \in Writers : WF_vars(WriterStep(w))

-----------------------------------------------------------------------------
(* A control read that ends has brought what it was for: the answer's      *)
(* header was made for the command that the host sent last, its data and   *)
(* no more follow, and a WRITE MEMORY has written all that was sent.       *)
(* Excepted are the requests that usbdebug.c is known to answer with       *)
(* something else: FLUSH CACHE, a command refused because the worker was   *)
(* busy, and a request in whose place the worker acknowledged its command. *)
Expected ==
    LET cmd == host.asked IN
    CASE host.kind = "descriptor" -> Units(s.req, 0, Lesser(DescriptorSize, host.units))
      [] host.kind = "status" -> Units(s.req, 0, 1)
      [] host.kind = "answer" -> IF cmd.kind \in {"read", "i2c"} THEN Units(cmd.of, 0, cmd.units) ELSE << >>

Excepted ==
    \/ s.req \in s.late
    \/ host.kind = "answer" /\ (host.asked.kind = "flush" \/ host.asked.of \in s.refused)

AnswersMatch ==
    host.phase = "status_out" /\ ~ Excepted =>
        /\ host.kind = "answer" =>
              /\ host.got.header.of = host.asked.of
              /\ host.got.header.status = IF host.asked.kind = "bad" THEN "unsupported" ELSE "ok"
        /\ IF host.kind = "answer" /\ host.asked.kind = "con_read"
           THEN Len(host.got.body) = host.asked.units
           ELSE host.got.body = Expected
        /\ host.kind = "answer" /\ host.asked.kind = "write" =>
              s.written = Units(host.asked.of, 0, host.asked.units)

(* The console loses nothing silently and repeats nothing: the host gets   *)
(* the text in the order it was written, with the whole overflow message   *)
(* wherever some is missing, and a thread reads all that the host typed.   *)
(* This holds until one of three things happens that usbdebug.c does not   *)
(* guard against (s.void): the monitor reads beyond the write index, the   *)
(* ring is read between the check and the dropping, a panic interrupts a   *)
(* write.                                                                  *)
ConsoleInOrder == s.void \/ (host.seen.ok /\ reader.ok)

(* Every request that the host does not abandon comes to an end, whatever  *)
(* the worker, the writers and a second request do meanwhile; except the   *)
(* one in whose place the worker acknowledged its own command.             *)
EveryRequestEnds ==
    (host.phase # "idle") ~> (host.phase = "idle" \/ s.req \in s.late)
=============================================================================
