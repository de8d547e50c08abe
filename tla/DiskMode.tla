------------------------------- MODULE DiskMode -------------------------------
(***************************************************************************)
(* The disk mode application (apps/diskmode/ums.c, usb.c): the device as a  *)
(* USB mass storage disk.                                                  *)
(*                                                                         *)
(* Two actors share the static variables without a lock.  The USB          *)
(* interrupt runs ums_xfer_complete when a transfer has ended; the main    *)
(* thread waits for mainloop_wakeup and runs ums_handle_async, which talks *)
(* to the storage.  The interrupt is one step; the thread can be           *)
(* interrupted between any two of its steps.  Two read buffers are a       *)
(* read-ahead cache, two write buffers let the host send one block while   *)
(* the other is being stored.                                              *)
(*                                                                         *)
(* The statics and the state of the two bulk endpoints are one record u,   *)
(* and the C functions are operators that map it to its next value.  The   *)
(* host is a correct one: one command at a time, the direction and length  *)
(* the command asks for, no transfer on a stalled endpoint before it has   *)
(* cleared the halt, no reset and no unplugging.  A sector's content is a  *)
(* pair <<sector, write>>; write 0 is what was there at first.             *)
(***************************************************************************)
EXTENDS Integers, FiniteSets

CONSTANTS NumSectors,       \* storage_info.num_sectors
          BufSectors,       \* UMS_BUFSIZE / storage_info.sector_size
          MaxWork,          \* how many READs and WRITEs the host sends; any other
                            \* command counts twice, and so does one the storage fails
          Kinds             \* the kinds of command the host sends

\* readbuf_count is an int8_t: a device with 512 byte sectors would need 128.
ASSUME DiskAssumption ==
    /\ NumSectors \in Nat \ {0}
    /\ BufSectors \in 1..127
    /\ MaxWork \in Nat
    /\ Kinds \subseteq {"read", "write", "result", "residue", "nodata", "eject", "badout",
                        "badcbw", "silent", "sat_reset", "sat_none", "sat_in", "sat_out"}

VARIABLES u,        \* the statics of ums.c, the endpoints and mainloop_wakeup
          rbuf,     \* umsbuf[0]: the two read buffers
          wbuf,     \* umsbuf[1]: the two write buffers
          storage,  \* the sectors on the medium
          worker,   \* the main thread
          host,     \* what the host is doing
          ghost     \* history, for the properties

vars == <<u, rbuf, wbuf, storage, worker, host, ghost>>

Sectors == 0..NumSectors - 1
Buf == {0, 1}
tb == 2                         \* the buffer of small results
Slots == 0..BufSectors - 1
Foreign == <<NumSectors, 0>>    \* what is no sector's content
Cells == Sectors \X (0..MaxWork) \cup {Foreign}
Lesser(a, b) == IF a < b THEN a ELSE b
Greater(a, b) == IF a > b THEN a ELSE b

None == [to |-> "none", buf |-> 0, off |-> 0, size |-> 0]
Transfer(to, buf, off, size) == [to |-> to, buf |-> buf, off |-> off, size |-> size]
Passed == Transfer("csw", 0, 0, 0)
Failed == Transfer("csw", 0, 0, 1)
-----------------------------------------------------------------------------
(* Sending and receiving.                                                  *)

\* usb_receive of the next command.
ums_listen(w) == [w EXCEPT !.state = "WAITING_FOR_COMMAND", !.out = Transfer("cmd", 0, 0, 0)]

enqueue_async(w) == [w EXCEPT !.signalled = TRUE]

\* An error the application takes for impossible: it ejects the disk.
fail(w) == [w EXCEPT !.error = TRUE, !.ejected = TRUE, !.signalled = TRUE]

\* The command's data direction, and the stall if data is missing.
send_csw(w, csw) ==
    [w EXCEPT !.stalled = IF w.pending > 0 THEN @ \cup {w.direction} ELSE @,
              !.state = "WAITING_FOR_CSW_COMPLETION",
              !.in = csw]

Block(w) == Lesser(BufSectors, w.count)

\* Variant: into the buffer that is being stored.
receive_same_buffer(w) ==
    [w EXCEPT !.pending = @ - Block(w),
              !.length = Block(w),
              !.out = Transfer("block", w.writebuf_current, 0, Block(w)),
              !.state = "RECEIVING_BLOCKS"]

receive_block_data(w) ==
    IF w.direction = "in" \/ Block(w) > w.pending THEN fail(w)
    ELSE [w EXCEPT !.pending = @ - Block(w),
                   !.length = Block(w),
                   !.out = Transfer("block", 1 - w.writebuf_current, 0, Block(w)),
                   !.state = "RECEIVING_BLOCKS"]

receive_sat_write(w) ==
    [w EXCEPT !.pending = 0,
              !.out = Transfer("sat", 1 - w.readbuf_current, 0, 1),
              !.state = "RECEIVING_SAT_WRITE"]

send_block_data(w, i, off, size) ==
    IF w.direction = "out" \/ size > w.pending THEN fail(w)
    ELSE [w EXCEPT !.pending = @ - size,
                   !.in = Transfer("block", i, off, size),
                   !.state = "SENDING_BLOCKS"]

\* Variant: the state is not set.
send_result_stateless(w, i) == [w EXCEPT !.pending = @ - 1, !.in = Transfer("result", i, 0, 1)]

send_command_result(w, i) ==
    [w EXCEPT !.pending = @ - 1, !.in = Transfer("result", i, 0, 1), !.state = "SENDING_RESULT"]
-----------------------------------------------------------------------------
(* The read-ahead cache.                                                   *)

\* readbuf_sector + readbuf_count, in the unsigned arithmetic of the code: after a
\* read error of sector 0 the count is -1, and the end of the buffer is 2^32 - 1.
Wraps(w, i) == w.readbuf_sector[i] + w.readbuf_count[i] < 0
End(w, i) == IF Wraps(w, i) THEN NumSectors * 2 ELSE w.readbuf_sector[i] + w.readbuf_count[i]

InWindow(w, i) == w.sector \in w.readbuf_sector[i]..w.readbuf_sector[i] + BufSectors - 1

\* Variant: without waking the thread.
AwaitSilently(w, i) == [w EXCEPT !.readbuf_current = i, !.read_blocked = TRUE]

\* readbuf_current becomes i, which has nothing to send yet.
Await(w, i) == enqueue_async([w EXCEPT !.readbuf_current = i, !.read_blocked = TRUE])

\* Buffer i is to be filled with what follows.
Ahead(w, i, next) ==
    enqueue_async([w EXCEPT !.readbuf_current = i,
                            !.readbuf_sector = [@ EXCEPT ![i] = next],
                            !.readbuf_count = [@ EXCEPT ![i] = 0]])

\* Variant: the answer is taken from the start of the buffer.
SendFromStart(w, i, overlap) ==
    LET v == IF i = w.readbuf_current /\ End(w, i) < NumSectors
             THEN Ahead(w, 1 - i, Greater(End(w, i), w.sector + overlap))
             ELSE w
    IN [send_block_data(v, i, 0, overlap)
          EXCEPT !.sector = @ + overlap, !.count = @ - overlap]

\* What of the answer is in buffer i is sent; if it is the newest buffer, the other
\* one reads ahead.
SendFrom(w, i, overlap) ==
    LET v == IF i = w.readbuf_current /\ End(w, i) < NumSectors
             THEN Ahead(w, 1 - i, Greater(End(w, i), w.sector + overlap))
             ELSE w
    IN [send_block_data(v, i, w.sector - w.readbuf_sector[i], overlap)
          EXCEPT !.sector = @ + overlap, !.count = @ - overlap]

\* Variant: all that is in the buffer.
UseWholeBuffer(w, i) == IF End(w, i) <= w.sector THEN Await(w, i)
                                                 ELSE SendFrom(w, i, End(w, i) - w.sector)

UseBuffer(w, i) == IF End(w, i) <= w.sector
                   THEN Await(w, i)
                   ELSE SendFrom(w, i, Lesser(End(w, i) - w.sector, w.count))

send_and_read_next(w) ==
    IF InWindow(w, 0) THEN UseBuffer(w, 0)
    ELSE IF InWindow(w, 1) THEN UseBuffer(w, 1)
    ELSE LET i == 1 - w.readbuf_current IN
         Await([w EXCEPT !.readbuf_sector = [@ EXCEPT ![i] = w.sector],
                         !.readbuf_count = [@ EXCEPT ![i] = 0]], i)

\* Whether a block that was received is copied to read buffer i, and to which of
\* its slots.  The test misses a block that covers the buffer at both ends, and the
\* data copied is that of writebuf_current, which is still the block before.
Updates(w, i) ==
    LET last == w.sector + w.length IN
    \/ w.readbuf_sector[i] <= w.sector /\ End(w, i) > w.sector
    \/ w.readbuf_sector[i] <= last /\ End(w, i) > last

Updated(w, i) ==
    {k \in Slots : LET s == w.readbuf_sector[i] + k IN
                   /\ k < w.readbuf_count[i]
                   /\ s \in w.sector..w.sector + w.length - 1}

update_readcache(w, read, written) ==
    [i \in Buf |->
       IF ~Updates(w, i) THEN read[i]
       ELSE [k \in Slots |->
               IF k \in Updated(w, i)
               THEN written[w.writebuf_current][w.readbuf_sector[i] + k - w.sector]
               ELSE read[i][k]]]

\* With a wrapped end the length of that copy is negative.
WildCopy(w) == \E i \in Buf : Wraps(w, i) /\ Updates(w, i)
-----------------------------------------------------------------------------
(* The write buffers.                                                      *)

\* The status is sent before the last block is stored; write_rc is that of the
\* blocks before, and it is only reset by a command that passes.
WriteStatus(w) == IF w.write_rc THEN send_csw(w, Failed)
                  ELSE [send_csw(w, Passed) EXCEPT !.write_rc = FALSE]

writebuf_push(w) ==
    LET v == [w EXCEPT !.writebuf_current = 1 - @,
                       !.writebuf_sector = w.sector,
                       !.writebuf_count = w.length,
                       !.writebuf_busy = TRUE,
                       !.sector = @ + w.length,
                       !.count = @ - w.length]
    IN IF v.count = 0 THEN WriteStatus(v) ELSE receive_block_data(v)
-----------------------------------------------------------------------------
(* Commands.                                                               *)

Direction(c) == IF c.kind \in {"write", "badout", "sat_out"} THEN "out" ELSE "in"

\* data_transfer_length, in sectors or in pieces of a result.
Expected(c) == CASE c.kind \in {"read", "write"} -> c.count
                 [] c.kind = "residue" -> 2
                 [] c.kind \in {"result", "badout", "badcbw", "sat_in", "sat_out"} -> 1
                 [] OTHER -> 0

\* A SAT command takes the read buffer that is not the newest one.
TakeBuffer(w) == [w EXCEPT !.readbuf_count = [@ EXCEPT ![1 - w.readbuf_current] = 0]]

sat_command(w, pending) == enqueue_async([w EXCEPT !.sat_pending = pending])

ReadWrite(w, c) ==
    IF c.sector + c.count > NumSectors THEN send_csw(w, Failed)
    ELSE IF c.count = 0 THEN send_csw(w, Passed)
    ELSE IF c.kind = "read" THEN send_and_read_next(w)
    ELSE receive_block_data(w)

Execute(w, c) ==
    CASE c.kind \in {"read", "write"} /\ w.ejected -> send_csw(w, Failed)
      [] c.kind \in {"read", "write"} /\ ~w.ejected ->
            ReadWrite([w EXCEPT !.sector = c.sector, !.count = c.count], c)
      [] c.kind \in {"result", "residue"} -> send_command_result(w, tb)
      [] c.kind = "nodata" -> send_csw(w, IF w.ejected THEN Failed ELSE Passed)
      [] c.kind = "eject" -> send_csw([w EXCEPT !.ejected = TRUE], Passed)
      [] c.kind = "badout" -> send_csw(w, Failed)
      [] c.kind = "silent" -> w
      [] c.kind = "sat_reset" -> sat_command(w, "SAT_PENDING_HRST")
      [] c.kind \in {"sat_none", "sat_in"} -> sat_command(TakeBuffer(w), "SAT_PENDING_CMD")
      [] c.kind = "sat_out" -> receive_sat_write(TakeBuffer(w))

handle_scsi(w, c) ==
    IF c.kind = "badcbw" THEN [w EXCEPT !.stalled = @ \cup {"in", "out"}]
    ELSE Execute([w EXCEPT !.pending = Expected(c), !.direction = Direction(c)], c)
-----------------------------------------------------------------------------
(* ums_xfer_complete.                                                      *)

InComplete(w) ==
    CASE w.state = "WAITING_FOR_CSW_COMPLETION" -> ums_listen(w)
      [] w.state = "SENDING_RESULT" -> send_csw(w, Passed)
      [] w.state = "SENDING_BLOCKS" /\ w.count = 0 -> send_csw(w, Passed)
      [] w.state = "SENDING_BLOCKS" /\ w.count # 0 -> send_and_read_next(w)
      [] OTHER -> fail(w)

\* Variant: the busy buffer is not looked at.
BlockCompleteAlways(w) == enqueue_async(writebuf_push(w))

\* A block: stored now, or when the block before has been.
BlockComplete(w) == enqueue_async(IF w.writebuf_busy THEN [w EXCEPT !.writebuf_overrun = TRUE]
                                                     ELSE writebuf_push(w))

OutComplete(w, c) ==
    CASE w.state = "RECEIVING_BLOCKS" -> BlockComplete(w)
      [] w.state = "WAITING_FOR_COMMAND" -> handle_scsi([w EXCEPT !.state = "PROCESSING"], c)
      [] w.state = "RECEIVING_SAT_WRITE" ->
            sat_command([w EXCEPT !.state = "PROCESSING"], "SAT_PENDING_CMD")
      [] OTHER -> fail(w)
-----------------------------------------------------------------------------
(* The host, and with it the interrupt.                                    *)

Idle == [kind |-> "none", sector |-> 0, count |-> 0]

\* Commands the host can send: a READ or WRITE, also beyond the end; other kinds
\* have no parameters here.
Commands ==
    [kind : Kinds \cap {"read", "write"}, sector : Sectors, count : 0..NumSectors]
        \cup [kind : Kinds \ {"read", "write"}, sector : {0}, count : {0}]

\* What follows a copy of negative length, data from a buffer whose end has wrapped,
\* or a completion that overtook the thread, is not followed any further.
Astray == ghost.wild \/ ghost.wrapped \/ ghost.overtaken
Runs == worker.pc # "exit" /\ ~Astray

Odd(c) == IF c.kind \in {"read", "write"} THEN 0 ELSE 1
Work == host.sent + ghost.odd

\* A slot of the read cache that the host has written to since it was filled, or
\* while it was being filled.
Filling(i) == worker.pc \in {"read", "reading", "filled"} /\ u.readbuf_current = i
Hits == {x \in Buf \X Sectors :
           /\ u.readbuf_count[x[1]] # 0 \/ Filling(x[1])
           /\ x[2] \in u.readbuf_sector[x[1]]..u.readbuf_sector[x[1]] + BufSectors - 1
           /\ x[2] \in u.sector..u.sector + u.length - 1}

\* A buffer that is pointed at other sectors has no history.
StillHit == {x \in ghost.hit : u'.readbuf_sector[x[1]] = u.readbuf_sector[x[1]]}

host_command ==
    /\ Runs
    /\ host.phase = "idle"
    /\ u.out.to = "cmd" /\ "out" \notin u.stalled
    /\ \E c \in Commands :
        /\ c.kind = "write" => c.sector + c.count <= NumSectors
        /\ Work + Odd(c) < MaxWork
        /\ u' = OutComplete([u EXCEPT !.out = None], c)
        /\ host' = [phase |-> IF Expected(c) > 0 THEN Direction(c) ELSE "csw",
                    sent |-> host.sent + 1, cmd |-> c, got |-> 0]
        /\ ghost' = [ghost EXCEPT !.hit = StillHit,
                                  !.odd = @ + Odd(c)]
    /\ UNCHANGED <<rbuf, wbuf, storage, worker>>

\* The host sends a block of a WRITE.
host_sends_block ==
    /\ Runs
    /\ host.phase = "out" /\ u.out.to = "block" /\ "out" \notin u.stalled
    /\ wbuf' = [wbuf EXCEPT ![u.out.buf] =
                  [k \in Slots |-> IF k < u.out.size
                                   THEN <<host.cmd.sector + host.got + k, host.sent>>
                                   ELSE @[k]]]
    /\ u' = OutComplete([u EXCEPT !.out = None], host.cmd)
    /\ rbuf' = update_readcache(u, rbuf, wbuf')
    /\ host' = [host EXCEPT !.got = @ + u.out.size,
                            !.phase = IF host.got + u.out.size = Expected(host.cmd)
                                      THEN "csw" ELSE "out"]
    /\ ghost' = [ghost EXCEPT
                   !.wild = WildCopy(u),
                   !.unreported = @ /\ u'.in # Failed,
                   !.hit = StillHit \cup Hits,
                   !.acked = [s \in Sectors |->
                                IF s \in u.sector..u.sector + u.length - 1
                                THEN @[s] \cup {<<s, host.sent>>} ELSE @[s]]]
    /\ UNCHANGED <<storage, worker>>

\* The host sends the data of a SAT command.
host_sends_sat ==
    /\ Runs
    /\ host.phase = "out" /\ u.out.to = "sat" /\ "out" \notin u.stalled
    /\ rbuf' = [rbuf EXCEPT ![u.out.buf] = [@ EXCEPT ![0] = Foreign]]
    /\ u' = OutComplete([u EXCEPT !.out = None], host.cmd)
    /\ host' = [host EXCEPT !.phase = "csw"]
    /\ UNCHANGED <<wbuf, storage, worker, ghost>>

\* The thread had not yet done its bookkeeping when its transfer was over.
Overtakes == worker.pc \in {"sent", "counted"}

\* The sectors of a block that the host must not believe.
Wrong == {s \in Sectors :
            LET k == s - (host.cmd.sector + host.got) IN
            /\ k \in 0..u.in.size - 1
            /\ <<u.in.buf, s>> \notin ghost.hit
            /\ u.in.off + k \in Slots => rbuf[u.in.buf][u.in.off + k] \notin ghost.acked[s]}

\* The host takes data.
host_takes_data ==
    /\ Runs
    /\ host.phase = "in" /\ u.in.to \in {"block", "result"} /\ "in" \notin u.stalled
    /\ u' = InComplete([u EXCEPT !.in = None])
    /\ host' = [host EXCEPT !.got = @ + u.in.size,
                            !.phase = IF host.got + u.in.size >= Expected(host.cmd)
                                      THEN "csw" ELSE "in"]
    /\ ghost' = [ghost EXCEPT
                   !.overtaken = @ \/ Overtakes,
                   !.hit = StillHit,
                   !.wrapped = @ \/ (u.in.to = "block" /\ Wraps(u, u.in.buf)),
                   !.wrong = IF u.in.to = "block" THEN @ \cup Wrong ELSE @]
    /\ UNCHANGED <<rbuf, wbuf, storage, worker>>

\* The host takes the status: the command is over.
host_takes_csw ==
    /\ Runs
    /\ host.phase = "csw" /\ u.in.to = "csw" /\ "in" \notin u.stalled
    /\ u' = InComplete([u EXCEPT !.in = None])
    /\ host' = [host EXCEPT !.phase = "idle", !.cmd = Idle, !.got = 0]
    /\ ghost' = [ghost EXCEPT
                   !.overtaken = @ \/ Overtakes,
                   !.acked = [s \in Sectors |->
                                IF /\ host.cmd.kind = "write" /\ u.in = Passed
                                   /\ s \in host.cmd.sector..host.cmd.sector + host.cmd.count - 1
                                THEN {<<s, host.sent>>}
                                     \cup (IF s \in ghost.lost THEN @[s] ELSE {})
                                ELSE @[s]]]
    /\ UNCHANGED <<rbuf, wbuf, storage, worker>>

\* CLEAR_FEATURE(ENDPOINT_HALT).  Of the OUT endpoint: handle_ep_ctrl_request
\* listens for a command before the device core clears the halt.
host_clears_in ==
    /\ Runs
    /\ host.phase = "in" /\ "in" \in u.stalled
    /\ u' = [u EXCEPT !.stalled = @ \ {"in"}]
    /\ host' = [host EXCEPT !.phase = IF u.in.to = "csw" THEN "csw" ELSE "idle"]
    /\ UNCHANGED <<rbuf, wbuf, storage, worker, ghost>>

host_clears_out ==
    /\ Runs
    /\ host.phase \in {"out", "idle"} /\ "out" \in u.stalled /\ "in" \notin u.stalled
    /\ u' = [ums_listen(u) EXCEPT !.stalled = @ \ {"out"}]
    /\ host' = [host EXCEPT !.phase = IF @ = "out" THEN "csw" ELSE "idle"]
    /\ ghost' = [ghost EXCEPT !.relistened = @ \/ u.state # "PROCESSING"]
    /\ UNCHANGED <<rbuf, wbuf, storage, worker>>
-----------------------------------------------------------------------------
(* The main thread: usb_connect's loop and ums_handle_async.               *)

Goto(pc) == worker' = [worker EXCEPT !.pc = pc]

worker_checks ==
    /\ worker.pc = "check"
    /\ Goto(IF u.ejected THEN "exit" ELSE "wait")
    /\ UNCHANGED <<u, rbuf, wbuf, storage, host, ghost>>

worker_wakes ==
    /\ worker.pc = "wait"
    /\ u.signalled
    /\ u' = [u EXCEPT !.signalled = FALSE]
    /\ Goto("push")
    /\ UNCHANGED <<rbuf, wbuf, storage, host, ghost>>

\* The wait ends after 200 ms; the loop then looks at ums_ejected.
worker_times_out ==
    /\ worker.pc = "wait"
    /\ ~u.signalled /\ u.ejected
    /\ Goto("exit")
    /\ UNCHANGED <<u, rbuf, wbuf, storage, host, ghost>>

\* A block that waits is pushed before the busy buffer has been stored: if two
\* blocks arrived before the thread came here, the first of them is dropped.
worker_pushes ==
    /\ worker.pc = "push"
    /\ u' = IF u.writebuf_overrun THEN writebuf_push([u EXCEPT !.writebuf_overrun = FALSE])
                                  ELSE u
    /\ ghost' = [ghost EXCEPT !.unreported = @ /\ u'.in # Failed,
                               !.dropped = @ \/ (u.writebuf_overrun /\ u.writebuf_busy)]
    /\ Goto("store")
    /\ UNCHANGED <<rbuf, wbuf, storage, host>>

Storing == u.writebuf_sector..u.writebuf_sector + u.writebuf_count - 1

\* Variant: write_rc = instead of |=.
StoreAssigns(ok) == [u EXCEPT !.write_rc = ~ok]

StoreResult(ok) == [u EXCEPT !.write_rc = @ \/ ~ok]

\* The write buffer's cells, or after an error either of the two contents.
worker_stores ==
    /\ worker.pc = "store" /\ u.writebuf_busy
    /\ \E ok \in BOOLEAN :
        LET stored == [s \in Sectors |->
                         IF s \in Storing
                         THEN wbuf[u.writebuf_current][s - u.writebuf_sector]
                         ELSE storage[s]]
        IN /\ u' = StoreResult(ok)
           /\ \/ /\ ok
                 /\ storage' = stored
                 /\ ghost' = [ghost EXCEPT !.lost = @ \ Storing]
              \/ /\ ~ok /\ Work < MaxWork
                 /\ storage' \in {storage, stored}
                 /\ ghost' = [ghost EXCEPT
                                !.odd = @ + 1,
                                !.unreported = TRUE,
                                !.lost = @ \cup Storing,
                                !.acked = [s \in Sectors |-> @[s] \cup {storage'[s]}]]
    /\ Goto("release")
    /\ UNCHANGED <<rbuf, wbuf, host>>

worker_releases ==
    /\ worker.pc = "release" \/ (worker.pc = "store" /\ ~u.writebuf_busy)
    /\ u' = [u EXCEPT !.writebuf_busy = @ /\ worker.pc = "store"]
    /\ Goto("read")
    /\ UNCHANGED <<rbuf, wbuf, storage, host, ghost>>

\* What the thread has yet to store when it begins to read.
NotStored ==
    {s \in Sectors : \/ u.writebuf_busy /\ s \in Storing
                     \/ u.writebuf_overrun /\ s \in u.sector..u.sector + u.length - 1}

\* The newest read buffer is filled if it is empty.
worker_reads ==
    /\ worker.pc = "read"
    /\ ghost' = [ghost EXCEPT !.hit = @ \cup {u.readbuf_current} \X NotStored]
    /\ LET c == u.readbuf_current IN
       worker' = IF u.readbuf_count[c] # 0
                 THEN [worker EXCEPT !.pc = "answer"]
                 ELSE [worker EXCEPT !.pc = "reading", !.c = c,
                                     !.sector = u.readbuf_sector[c]]
    /\ UNCHANGED <<u, rbuf, wbuf, storage, host>>

Fill == Lesser(BufSectors, NumSectors - worker.sector)

worker_fills ==
    /\ worker.pc = "reading"
    /\ \/ /\ rbuf' = [rbuf EXCEPT ![worker.c] =
                        [k \in Slots |-> IF k < Fill THEN storage[worker.sector + k] ELSE @[k]]]
          /\ worker' = [worker EXCEPT !.pc = "filled", !.count = Fill]
          /\ ghost' = ghost
       \/ /\ Work < MaxWork
          /\ rbuf' = [rbuf EXCEPT ![worker.c] = [k \in Slots |-> Foreign]]
          /\ worker' = [worker EXCEPT !.pc = "filled", !.count = -1]
          /\ ghost' = [ghost EXCEPT !.odd = @ + 1]
    /\ UNCHANGED <<u, wbuf, storage, host>>

\* The buffer counts as filled unless it was pointed elsewhere meanwhile.
worker_commits ==
    /\ worker.pc = "filled"
    /\ LET count == IF worker.sector = u.readbuf_sector[worker.c] THEN worker.count ELSE 0
       IN  u' = [u EXCEPT !.readbuf_count = [@ EXCEPT ![worker.c] = count]]
    /\ Goto("answer")
    /\ UNCHANGED <<rbuf, wbuf, storage, host, ghost>>

\* The transfer in v has been started, what follows usb_start_tx has not been done.
Started(v) == [v EXCEPT !.state = u.state, !.sector = u.sector, !.count = u.count]

worker_answers ==
    /\ worker.pc = "answer"
    /\ ~u.read_blocked => u' = u /\ Goto("sat")
    /\ u.read_blocked =>
         LET w == [u EXCEPT !.read_blocked = FALSE]
             v == IF u.readbuf_count[u.readbuf_current] < 0
                  THEN send_csw(w, Failed)
                  ELSE send_and_read_next(w)
             started == v.in.to = "block"
         IN /\ u' = IF started THEN Started(v) ELSE v
            /\ worker' = [worker EXCEPT !.pc = IF started THEN "sent" ELSE "sat",
                                        !.state = v.state,
                                        !.size = v.in.size]
    /\ ghost' = [ghost EXCEPT !.hit = StillHit]
    /\ UNCHANGED <<rbuf, wbuf, storage, host>>

\* state = ..., then the counts of a block.
worker_sets_state ==
    /\ worker.pc = "sent"
    /\ u' = [u EXCEPT !.state = worker.state]
    /\ Goto(IF worker.state = "SENDING_BLOCKS" THEN "counted" ELSE "check")
    /\ UNCHANGED <<rbuf, wbuf, storage, host, ghost>>

worker_counts ==
    /\ worker.pc = "counted"
    /\ u' = [u EXCEPT !.sector = @ + worker.size, !.count = @ - worker.size]
    /\ Goto("sat")
    /\ UNCHANGED <<rbuf, wbuf, storage, host, ghost>>

\* A pending SAT command: the drive obeys or fails.
worker_runs_sat ==
    /\ worker.pc = "sat"
    /\ u.sat_pending = "SAT_PENDING_NONE" => u' = u /\ rbuf' = rbuf /\ Goto("check")
    /\ u.sat_pending # "SAT_PENDING_NONE" =>
         \E ok \in BOOLEAN :
           LET w == [u EXCEPT !.sat_pending = "SAT_PENDING_NONE"]
               data == ok /\ host.cmd.kind = "sat_in"
               b == 1 - u.readbuf_current
               v == IF ~ok THEN send_csw(w, Failed)
                    ELSE IF data THEN send_command_result(w, b)
                    ELSE send_csw(w, Passed)
           IN /\ u' = IF data THEN Started(v) ELSE v
              /\ rbuf' = IF data THEN [rbuf EXCEPT ![b][0] = Foreign] ELSE rbuf
              /\ worker' = [worker EXCEPT !.pc = IF data THEN "sent" ELSE "check",
                                          !.state = v.state]
    /\ UNCHANGED <<wbuf, storage, host, ghost>>
-----------------------------------------------------------------------------
Init ==
    /\ u = [state |-> "WAITING_FOR_COMMAND", sector |-> 0, count |-> 0, pending |-> 0,
            direction |-> "in", length |-> 0,
            readbuf_current |-> 0, readbuf_sector |-> [i \in Buf |-> 0],
            readbuf_count |-> [i \in Buf |-> 0], read_blocked |-> FALSE,
            writebuf_current |-> 0, writebuf_sector |-> 0, writebuf_count |-> 0,
            writebuf_busy |-> FALSE, writebuf_overrun |-> FALSE, write_rc |-> FALSE,
            ejected |-> FALSE, error |-> FALSE, sat_pending |-> "SAT_PENDING_NONE",
            signalled |-> FALSE, in |-> None, out |-> Transfer("cmd", 0, 0, 0),
            stalled |-> {}]
    /\ rbuf = [i \in Buf |-> [k \in Slots |-> Foreign]]
    /\ wbuf = [i \in Buf |-> [k \in Slots |-> Foreign]]
    /\ storage = [s \in Sectors |-> <<s, 0>>]
    /\ worker = [pc |-> "wait", c |-> 0, sector |-> 0, count |-> 0, size |-> 0,
                 state |-> "PROCESSING"]
    /\ host = [phase |-> "idle", sent |-> 0, cmd |-> Idle, got |-> 0]
    /\ ghost = [acked |-> [s \in Sectors |-> {<<s, 0>>}], lost |-> {}, hit |-> {},
                wrong |-> {}, odd |-> 0, unreported |-> FALSE, overtaken |-> FALSE,
                relistened |-> FALSE, dropped |-> FALSE, wrapped |-> FALSE, wild |-> FALSE]

\* The host goes on with the command it has sent.
HostContinues ==
    \/ host_sends_block
    \/ host_sends_sat
    \/ host_takes_data
    \/ host_takes_csw
    \/ host_clears_in
    \/ host_clears_out

WorkerNext ==
    /\ Runs
    /\ \/ worker_checks
       \/ worker_wakes
       \/ worker_times_out
       \/ worker_pushes
       \/ worker_stores
       \/ worker_releases
       \/ worker_reads
       \/ worker_fills
       \/ worker_commits
       \/ worker_answers
       \/ worker_sets_state
       \/ worker_counts
       \/ worker_runs_sat

Next == host_command \/ HostContinues \/ WorkerNext

\* The host goes on with a command it has started, and the thread is scheduled.
Fairness ==
    /\ WF_vars(WorkerNext)
    /\ WF_vars(HostContinues)

Spec == Init /\ [][Next]_vars /\ Fairness
-----------------------------------------------------------------------------
(* Properties.                                                             *)

States == {"WAITING_FOR_COMMAND", "SENDING_BLOCKS", "SENDING_RESULT", "RECEIVING_BLOCKS",
           "WAITING_FOR_CSW_COMPLETION", "RECEIVING_SAT_WRITE", "PROCESSING"}

\* Types of the shared statics, the buffers and the medium.
TypeOK ==
    /\ u.state \in States
    /\ u.readbuf_current \in Buf /\ u.writebuf_current \in Buf
    /\ \A i \in Buf : /\ u.readbuf_sector[i] \in Sectors
                      /\ u.readbuf_count[i] \in -1..BufSectors
    /\ u.count \in 0..NumSectors
    /\ u.pending \in 0..NumSectors + 1
    /\ u.in.to \in {"none", "csw", "block", "result"}
    /\ u.out.to \in {"none", "cmd", "block", "sat"}
    /\ u.stalled \subseteq {"in", "out"}
    /\ rbuf \in [Buf -> [Slots -> Cells]]
    /\ wbuf \in [Buf -> [Slots -> Cells]]
    /\ storage \in [Sectors -> Cells]
    /\ host.phase \in {"idle", "in", "out", "csw"}

\* A READ returns what the host last wrote to the sector: the thread stores a
\* block before it reads ahead, and the two buffers never answer for sectors they
\* do not hold.  Four cases are excepted, in which the code does return something
\* else: the sector was written while it was in the read cache (ghost.hit), the end
\* of a buffer wrapped after a read error of sector 0, a transfer was over before
\* the thread had noted that it had started it, and a block was dropped.
ReadsCurrent ==
    ~ghost.overtaken /\ ~ghost.wrapped /\ ~ghost.dropped => ghost.wrong = {}

\* A buffer is never used at both ends: the thread fills no read buffer that USB is
\* sending from or receiving into, and stores no write buffer that USB is filling.
NoBufferRace ==
    ~ghost.overtaken =>
        /\ worker.pc = "reading" =>
             /\ u.in.to \in {"block", "result"} => u.in.buf # worker.c
             /\ u.out.to = "sat" => u.out.buf # worker.c
        /\ u.writebuf_busy /\ u.out.to = "block" => u.out.buf # u.writebuf_current

\* A write that was acknowledged, and of which no block has failed, is on the
\* medium or in the busy write buffer, which the thread has yet to store.
NoBlockIsLost ==
    \A s \in Sectors :
        Cardinality(ghost.acked[s]) = 1 =>
            \/ storage[s] \in ghost.acked[s]
            \/ /\ u.writebuf_busy
               /\ s \in Storing
               /\ wbuf[u.writebuf_current][s - u.writebuf_sector] \in ghost.acked[s]

\* The one way to lose a block: the thread finds two of them, and pushes the second
\* over the first (worker_pushes).
AckedIsKept == ~ghost.dropped => NoBlockIsLost

\* A failed store is reported by a later WRITE at the latest: none passes before
\* one has failed.
ErrorIsReported ==
    [][(u'.in = Passed /\ u.in # Passed /\ host.cmd.kind = "write" /\ host.cmd.count > 0)
          => ~ghost.unreported]_vars

\* The application meets an impossible completion, and ejects the disk, only when a
\* completion overtook the thread, or when the host cleared the halt of a WRITE that
\* was refused: the handler listens for a command while its status is on the way.
FailsOnlyThen == u.error => ghost.overtaken \/ ghost.relistened

\* Every command is answered, or the disk is ejected.  WRITE BUFFER is not: its
\* handler neither answers nor stalls.
EveryCommandEnds ==
    host.phase # "idle" ~> \/ host.phase = "idle"
                           \/ worker.pc = "exit"
                           \/ Astray
                           \/ host.cmd.kind = "silent"

\* "Disk was ejected successfully": an acknowledged write is on the medium when the
\* loop has ended without an error.
EjectKeepsWrites ==
    worker.pc = "exit" /\ ~u.error =>
        \A s \in Sectors :
            Cardinality(ghost.acked[s]) = 1 => storage[s] \in ghost.acked[s]

=============================================================================
