------------------------------ MODULE DiskProofs ------------------------------
(***************************************************************************)
(* The disk mode application (DiskMode) for any number of sectors, size of *)
(* the buffers and number of commands.                                     *)
(*                                                                         *)
(* The interrupt and the main thread share the statics without a lock.     *)
(* What makes that work is a token: at any time exactly one of them has    *)
(* the next step of the command to do, and the statics say which (the      *)
(* phases below).  What the buffers hold then is the subject of            *)
(* DiskDataProofs.                                                         *)
(***************************************************************************)
EXTENDS DiskMode, FiniteSetTheorems, TLAPS

TransfersTo(kinds) == [to : kinds, buf : 0..2, off : Slots, size : 0..NumSectors]
InTransfers == TransfersTo({"none", "csw", "block", "result"})
OutTransfers == TransfersTo({"none", "cmd", "block", "sat"})
Requests == {"SAT_PENDING_NONE", "SAT_PENDING_CMD", "SAT_PENDING_HRST"}
Statics ==
    [state : States, sector : 0..NumSectors, count : 0..NumSectors, pending : 0..NumSectors + 1,
     direction : {"in", "out"}, length : 0..BufSectors,
     readbuf_current : Buf, readbuf_sector : [Buf -> Sectors],
     readbuf_count : [Buf -> -1..BufSectors], read_blocked : BOOLEAN,
     writebuf_current : Buf, writebuf_sector : 0..NumSectors, writebuf_count : 0..BufSectors,
     writebuf_busy : BOOLEAN, writebuf_overrun : BOOLEAN, write_rc : BOOLEAN,
     ejected : BOOLEAN, error : BOOLEAN, sat_pending : Requests, signalled : BOOLEAN,
     in : InTransfers, out : OutTransfers, stalled : SUBSET {"in", "out"}]
Workers == [pc : {"check", "wait", "push", "store", "release", "read", "reading", "filled",
                  "answer", "sent", "counted", "sat", "exit"},
            c : Buf, sector : Sectors, count : -1..BufSectors, size : 0..NumSectors, state : States]
Hosts == [phase : {"idle", "in", "out", "csw"}, sent : 0..MaxWork,
          cmd : [kind : Kinds \cup {"none"}, sector : Sectors, count : 0..NumSectors],
          got : Nat]
Ghosts == [acked : [Sectors -> SUBSET Cells], lost : SUBSET Int,
           hit : SUBSET (Buf \X Sectors), wrong : SUBSET Sectors, odd : Nat,
           unreported : BOOLEAN, overtaken : BOOLEAN, relistened : BOOLEAN,
           dropped : BOOLEAN, wrapped : BOOLEAN, wild : BOOLEAN]

\* Every field of the statics, the buffers, the medium, the thread and the host.
Types ==
    /\ u \in Statics
    /\ rbuf \in [Buf -> [Slots -> Cells]]
    /\ wbuf \in [Buf -> [Slots -> Cells]]
    /\ storage \in [Sectors -> Cells]
    /\ worker \in Workers
    /\ host \in Hosts
    /\ ghost \in Ghosts
-----------------------------------------------------------------------------
(* Which fields an operator leaves alone.                                  *)

SameCommand(v, w) == /\ v.sector = w.sector /\ v.count = w.count /\ v.pending = w.pending
                     /\ v.direction = w.direction /\ v.length = w.length
SameReads(v, w) == /\ v.readbuf_current = w.readbuf_current
                   /\ v.readbuf_sector = w.readbuf_sector
                   /\ v.readbuf_count = w.readbuf_count
                   /\ v.read_blocked = w.read_blocked
SameWrites(v, w) == /\ v.writebuf_current = w.writebuf_current
                    /\ v.writebuf_sector = w.writebuf_sector
                    /\ v.writebuf_count = w.writebuf_count
                    /\ v.writebuf_busy = w.writebuf_busy
                    /\ v.writebuf_overrun = w.writebuf_overrun
                    /\ v.write_rc = w.write_rc
SameFaults(v, w) == v.ejected = w.ejected /\ v.error = w.error
SamePipes(v, w) == /\ v.state = w.state /\ v.stalled = w.stalled
                   /\ v.in = w.in /\ v.out = w.out
SameRest(v, w) == SameReads(v, w) /\ SameWrites(v, w) /\ v.sat_pending = w.sat_pending

\* The sizes, and the ranges that they make.
LEMMA Constants ==
    /\ NumSectors \in Nat /\ NumSectors > 0 /\ BufSectors \in Nat /\ BufSectors > 0
    /\ \A x : x \in Slots <=> x \in Nat /\ x < BufSectors
    /\ \A x : x \in Sectors <=> x \in Nat /\ x < NumSectors
BY DiskAssumption DEF Slots, Sectors

\* Small facts about the constants.
LEMMA Ranges ==
    /\ NumSectors \in Nat \ {0} /\ BufSectors \in Nat \ {0} /\ MaxWork \in Nat
    /\ Slots = 0..BufSectors - 1 /\ Sectors = 0..NumSectors - 1 /\ Buf = {0, 1}
    /\ 0 \in Slots
    /\ None \in InTransfers /\ None \in OutTransfers
    /\ Passed \in InTransfers /\ Failed \in InTransfers
    /\ Transfer("cmd", 0, 0, 0) \in OutTransfers
    /\ Foreign \in Cells
<1>1. 0 \in Slots /\ 0 \in 0..NumSectors /\ 1 \in 0..NumSectors
  BY DiskAssumption DEF Slots
<1> QED
  BY <1>1, DiskAssumption
     DEF None, Passed, Failed, Transfer, InTransfers, OutTransfers, TransfersTo, Slots, Sectors, Buf, Cells, Foreign

\* The numbers in the command of the host,
LEMMA HostNumbers ==
    ASSUME Types
    PROVE  /\ host.cmd.sector \in Sectors /\ host.cmd.count \in 0..NumSectors /\ host.got \in Nat
           /\ host.cmd.sector \in Nat /\ host.cmd.count \in Nat /\ host.sent \in 0..MaxWork
           /\ host.cmd.kind \in Kinds \cup {"none"}
<1>1. host \in Hosts
  BY DEF Types
<1>2. /\ host.cmd \in [kind : Kinds \cup {"none"}, sector : Sectors, count : 0..NumSectors]
      /\ host.got \in Nat /\ host.sent \in 0..MaxWork
  BY <1>1 DEF Hosts
<1>3. /\ host.cmd.kind \in Kinds \cup {"none"} /\ host.cmd.sector \in Sectors
      /\ host.cmd.count \in 0..NumSectors
  BY <1>2
<1>4. Sectors \subseteq Nat /\ 0..NumSectors \subseteq Nat
  BY Ranges
<1> QED
  BY <1>2, <1>3, <1>4

\* and in the statics.
LEMMA StaticsNumbers ==
    ASSUME NEW w \in Statics
    PROVE  /\ w.sector \in Nat /\ w.count \in Nat /\ w.pending \in Nat /\ w.length \in Nat
           /\ w.sector \in 0..NumSectors /\ w.count \in 0..NumSectors
           /\ w.pending \in 0..NumSectors + 1 /\ w.length \in 0..BufSectors
           /\ w.readbuf_current \in Buf /\ w.writebuf_current \in Buf
           /\ 1 - w.readbuf_current \in Buf /\ 1 - w.writebuf_current \in Buf
           /\ w.writebuf_sector \in Nat /\ w.writebuf_count \in Nat
           /\ w.writebuf_count \in 0..BufSectors
           /\ \A i \in Buf : w.readbuf_sector[i] \in Sectors /\ w.readbuf_count[i] \in -1..BufSectors
<1>1. /\ w.sector \in 0..NumSectors /\ w.count \in 0..NumSectors
      /\ w.pending \in 0..NumSectors + 1 /\ w.length \in 0..BufSectors
      /\ w.readbuf_current \in Buf /\ w.writebuf_current \in Buf
      /\ w.writebuf_sector \in 0..NumSectors /\ w.writebuf_count \in 0..BufSectors
  BY DEF Statics
<1>2. w.readbuf_sector \in [Buf -> Sectors] /\ w.readbuf_count \in [Buf -> -1..BufSectors]
  BY DEF Statics
<1>3. \A i \in Buf : w.readbuf_sector[i] \in Sectors /\ w.readbuf_count[i] \in -1..BufSectors
  BY <1>2
<1>4. 1 - w.readbuf_current \in Buf /\ 1 - w.writebuf_current \in Buf
  BY <1>1 DEF Buf
<1>5. /\ w.sector \in Nat /\ w.count \in Nat /\ w.pending \in Nat /\ w.length \in Nat
      /\ w.writebuf_sector \in Nat /\ w.writebuf_count \in Nat
  BY <1>1, Constants
<1> QED
  BY <1>1, <1>3, <1>4, <1>5

\* The fields of the statics.
StaticFields ==
    {"state", "sector", "count", "pending", "direction", "length", "readbuf_current",
     "readbuf_sector", "readbuf_count", "read_blocked", "writebuf_current", "writebuf_sector",
     "writebuf_count", "writebuf_busy", "writebuf_overrun", "write_rc", "ejected", "error",
     "sat_pending", "signalled", "in", "out", "stalled"}

\* They are a record with these fields,
LEMMA StaticsShape ==
    ASSUME NEW w \in Statics
    PROVE  DOMAIN w = StaticFields /\ w = [x \in StaticFields |-> w[x]]
BY DEF Statics, StaticFields

\* of these types.
FieldTypes(v) ==
    /\ v.state \in States /\ v.sector \in 0..NumSectors /\ v.count \in 0..NumSectors
    /\ v.pending \in 0..NumSectors + 1 /\ v.direction \in {"in", "out"}
    /\ v.length \in 0..BufSectors /\ v.readbuf_current \in Buf
    /\ v.readbuf_sector \in [Buf -> Sectors] /\ v.readbuf_count \in [Buf -> -1..BufSectors]
    /\ v.read_blocked \in BOOLEAN /\ v.writebuf_current \in Buf
    /\ v.writebuf_sector \in 0..NumSectors /\ v.writebuf_count \in 0..BufSectors
    /\ v.writebuf_busy \in BOOLEAN /\ v.writebuf_overrun \in BOOLEAN /\ v.write_rc \in BOOLEAN
    /\ v.ejected \in BOOLEAN /\ v.error \in BOOLEAN /\ v.sat_pending \in Requests
    /\ v.signalled \in BOOLEAN /\ v.in \in InTransfers /\ v.out \in OutTransfers
    /\ v.stalled \in SUBSET {"in", "out"}

\* A record is one of Statics when it has those fields and they have those types.
LEMMA StaticsTypes ==
    ASSUME NEW v
    PROVE  v \in Statics <=> /\ DOMAIN v = StaticFields /\ v = [x \in StaticFields |-> v[x]]
                             /\ FieldTypes(v)
BY DEF Statics, StaticFields, FieldTypes

\* The fields of the history.
GhostFields ==
    {"acked", "lost", "hit", "wrong", "odd", "unreported", "overtaken", "relistened", "dropped",
     "wrapped", "wild"}

\* It is a record with these fields.
LEMMA GhostShape ==
    ASSUME NEW g \in Ghosts
    PROVE  DOMAIN g = GhostFields /\ g = [x \in GhostFields |-> g[x]]
BY DEF Ghosts, GhostFields

\* A transfer on either endpoint.
LEMMA TransferType ==
    ASSUME NEW to, NEW buf \in 0..2,
           NEW off \in Slots, NEW size \in 0..NumSectors
    PROVE  /\ to \in {"none", "csw", "block", "result"} =>
                Transfer(to, buf, off, size) \in InTransfers
           /\ to \in {"none", "cmd", "block", "sat"} =>
                Transfer(to, buf, off, size) \in OutTransfers
           /\ Transfer(to, buf, off, size).to = to /\ Transfer(to, buf, off, size).buf = buf
           /\ Transfer(to, buf, off, size).off = off /\ Transfer(to, buf, off, size).size = size
BY DEF Transfer, InTransfers, OutTransfers, TransfersTo

\* ums_listen, fail, send_csw, send_command_result and receive_sat_write.
LEMMA ListenDoes ==
    ASSUME NEW w \in Statics
    PROVE  LET v == ums_listen(w) IN
           /\ v \in Statics /\ SameRest(v, w) /\ SameCommand(v, w) /\ SameFaults(v, w)
           /\ v.state = "WAITING_FOR_COMMAND" /\ v.out = Transfer("cmd", 0, 0, 0)
           /\ v.in = w.in /\ v.stalled = w.stalled
<1> DEFINE v == ums_listen(w)
<1>1. v = [w EXCEPT !.state = "WAITING_FOR_COMMAND", !.out = Transfer("cmd", 0, 0, 0)]
  BY DEF ums_listen
<1>2. \A o \in OutTransfers : [w EXCEPT !.state = "WAITING_FOR_COMMAND", !.out = o] \in Statics
  BY DEF Statics, States
<1>3. v \in Statics
  BY <1>1, <1>2, Ranges
<1>4. SameReads(v, w) /\ SameWrites(v, w) /\ v.sat_pending = w.sat_pending
  BY <1>1, StaticsShape DEF StaticFields, SameReads, SameWrites
<1>5. SameCommand(v, w) /\ SameFaults(v, w)
  BY <1>1, StaticsShape DEF StaticFields, SameCommand, SameFaults
<1>6. /\ v.state = "WAITING_FOR_COMMAND" /\ v.out = Transfer("cmd", 0, 0, 0)
      /\ v.in = w.in /\ v.stalled = w.stalled
  BY <1>1 DEF Statics
<1> QED
  BY <1>3, <1>4, <1>5, <1>6 DEF SameRest

\* fail ejects the disk and leaves the transfers alone.
LEMMA FailDoes ==
    ASSUME NEW w \in Statics
    PROVE  LET v == fail(w) IN
           /\ v \in Statics /\ SameRest(v, w) /\ SameCommand(v, w) /\ SamePipes(v, w)
           /\ v.error /\ v.ejected
BY DEF fail, Statics, SameRest, SameReads, SameWrites, SameCommand, SamePipes

\* enqueue_async only wakes the thread.
LEMMA SignalDoes ==
    ASSUME NEW w \in Statics
    PROVE  LET v == enqueue_async(w) IN
           /\ v \in Statics /\ SameRest(v, w) /\ SameCommand(v, w) /\ SamePipes(v, w)
           /\ SameFaults(v, w)
BY DEF enqueue_async, Statics, SameRest, SameReads, SameWrites, SameCommand, SamePipes, SameFaults

\* send_csw, with the stall if data is missing.
LEMMA CswDoes ==
    ASSUME NEW w \in Statics, NEW csw \in InTransfers
    PROVE  LET v == send_csw(w, csw) IN
           /\ v \in Statics /\ SameRest(v, w) /\ SameCommand(v, w) /\ SameFaults(v, w)
           /\ v.state = "WAITING_FOR_CSW_COMPLETION" /\ v.in = csw /\ v.out = w.out
           /\ v.stalled = IF w.pending > 0 THEN w.stalled \cup {w.direction} ELSE w.stalled
<1> DEFINE v == send_csw(w, csw)
           st == IF w.pending > 0 THEN w.stalled \cup {w.direction} ELSE w.stalled
<1>1. v = [w EXCEPT !.stalled = st, !.state = "WAITING_FOR_CSW_COMPLETION", !.in = csw]
  BY DEF send_csw
<1>2. st \in SUBSET {"in", "out"}
  BY DEF Statics
<1> HIDE DEF v, st
<1>3. v \in Statics
  <2>1. DOMAIN v = StaticFields /\ v = [a \in StaticFields |-> v[a]]
    BY <1>1, StaticsShape
  <2>2. FieldTypes(v)
    BY <1>1, <1>2, StaticsShape, StaticsTypes DEF FieldTypes, StaticFields, States
  <2> QED
    BY <2>1, <2>2, StaticsTypes
<1>4. SameReads(v, w) /\ SameWrites(v, w) /\ v.sat_pending = w.sat_pending
  BY <1>1, StaticsShape DEF StaticFields, SameReads, SameWrites
<1>5. SameCommand(v, w) /\ SameFaults(v, w)
  BY <1>1, StaticsShape DEF StaticFields, SameCommand, SameFaults
<1>6. v.state = "WAITING_FOR_CSW_COMPLETION" /\ v.in = csw /\ v.out = w.out /\ v.stalled = st
  BY <1>1 DEF Statics
<1> QED
  BY <1>3, <1>4, <1>5, <1>6 DEF SameRest, v, st

\* send_command_result.
LEMMA ResultDoes ==
    ASSUME NEW w \in Statics, NEW i \in 0..2, w.pending > 0
    PROVE  LET v == send_command_result(w, i) IN
           /\ v \in Statics /\ SameRest(v, w) /\ SameFaults(v, w)
           /\ v.state = "SENDING_RESULT" /\ v.in = Transfer("result", i, 0, 1) /\ v.out = w.out
           /\ v.stalled = w.stalled /\ v.pending = w.pending - 1
           /\ v.sector = w.sector /\ v.count = w.count /\ v.direction = w.direction
           /\ v.length = w.length
<1>1. Transfer("result", i, 0, 1) \in InTransfers
  BY Ranges, TransferType
<1>2. w.pending - 1 \in 0..NumSectors + 1
  BY Ranges, StaticsNumbers
<1> DEFINE v == send_command_result(w, i)
<1>3. v = [w EXCEPT !.pending = w.pending - 1, !.in = Transfer("result", i, 0, 1),
                    !.state = "SENDING_RESULT"]
  BY DEF send_command_result
<1> HIDE DEF v
<1>4. v \in Statics
  <2>1. DOMAIN v = StaticFields /\ v = [a \in StaticFields |-> v[a]]
    BY <1>3, StaticsShape
  <2>2. FieldTypes(v)
    BY <1>1, <1>2, <1>3, StaticsShape, StaticsTypes DEF FieldTypes, StaticFields, States
  <2> QED
    BY <2>1, <2>2, StaticsTypes
<1>5. SameReads(v, w) /\ SameWrites(v, w) /\ v.sat_pending = w.sat_pending /\ SameFaults(v, w)
  BY <1>3 DEF Statics, SameReads, SameWrites, SameFaults
<1>6. /\ v.state = "SENDING_RESULT" /\ v.in = Transfer("result", i, 0, 1) /\ v.out = w.out
      /\ v.stalled = w.stalled /\ v.pending = w.pending - 1
      /\ v.sector = w.sector /\ v.count = w.count /\ v.direction = w.direction
      /\ v.length = w.length
  BY <1>3 DEF Statics
<1> QED
  BY <1>4, <1>5, <1>6 DEF SameRest, v

\* receive_sat_write, into the read buffer that is not the newest.
LEMMA SatDoes ==
    ASSUME NEW w \in Statics
    PROVE  LET v == receive_sat_write(w) IN
           /\ v \in Statics /\ SameRest(v, w) /\ SameFaults(v, w)
           /\ v.state = "RECEIVING_SAT_WRITE" /\ v.in = w.in
           /\ v.out = Transfer("sat", 1 - w.readbuf_current, 0, 1)
           /\ v.stalled = w.stalled /\ v.pending = 0
           /\ v.sector = w.sector /\ v.count = w.count /\ v.direction = w.direction
           /\ v.length = w.length
<1>1. 1 - w.readbuf_current \in 0..2
  BY DEF Statics, Buf
<1>2. Transfer("sat", 1 - w.readbuf_current, 0, 1) \in OutTransfers
  BY <1>1, Ranges, TransferType
<1>3. 0 \in 0..NumSectors + 1
  BY Ranges
<1> QED
  BY <1>2, <1>3 DEF receive_sat_write, Statics, States, SameRest, SameReads, SameWrites, SameFaults

\* A block can be received if the command has as much left.
LEMMA ReceiveDoes ==
    ASSUME NEW w \in Statics, w.direction = "out", Block(w) <= w.pending
    PROVE  LET v == receive_block_data(w) IN
           /\ v \in Statics /\ SameRest(v, w) /\ SameFaults(v, w)
           /\ v.state = "RECEIVING_BLOCKS" /\ v.in = w.in /\ v.stalled = w.stalled
           /\ v.out = Transfer("block", 1 - w.writebuf_current, 0, v.length)
           /\ v.length = Block(w) /\ v.pending = w.pending - v.length
           /\ v.sector = w.sector /\ v.count = w.count /\ v.direction = w.direction
<1>1. Block(w) \in 0..BufSectors /\ Block(w) \in 0..NumSectors
  BY Ranges, StaticsNumbers DEF Block, Lesser
<1>2. w.pending - Block(w) \in 0..NumSectors + 1
  BY <1>1, Ranges, StaticsNumbers
<1>3. 1 - w.writebuf_current \in 0..2
  BY StaticsNumbers DEF Buf
<1>4. Transfer("block", 1 - w.writebuf_current, 0, Block(w)) \in OutTransfers
  BY <1>1, <1>3, Ranges, TransferType
<1> DEFINE x == [w EXCEPT !.pending = w.pending - Block(w), !.length = Block(w),
                         !.out = Transfer("block", 1 - w.writebuf_current, 0, Block(w)),
                         !.state = "RECEIVING_BLOCKS"]
<1>5. ~(w.direction = "in" \/ Block(w) > w.pending)
  BY <1>1, Ranges, StaticsNumbers
<1>6. receive_block_data(w) = x
  BY <1>5 DEF receive_block_data
<1>7. DOMAIN x = StaticFields /\ x = [a \in StaticFields |-> x[a]]
  BY StaticsShape
<1>8. FieldTypes(x)
  BY <1>1, <1>2, <1>4, StaticsShape, StaticsTypes DEF FieldTypes, StaticFields, States
<1>9. x \in Statics
  <2> HIDE DEF x
  <2> QED
    BY <1>7, <1>8, StaticsTypes
<1>10. SameReads(x, w) /\ x.sat_pending = w.sat_pending /\ SameFaults(x, w)
  BY StaticsShape DEF StaticFields, SameReads, SameFaults
<1>12. SameWrites(x, w)
  BY StaticsShape DEF StaticFields, SameWrites
<1>11. /\ x.state = "RECEIVING_BLOCKS" /\ x.in = w.in /\ x.stalled = w.stalled
       /\ x.out = Transfer("block", 1 - w.writebuf_current, 0, Block(w))
       /\ x.length = Block(w) /\ x.pending = w.pending - Block(w)
       /\ x.sector = w.sector /\ x.count = w.count /\ x.direction = w.direction
  BY DEF Statics
<1> HIDE DEF x
<1> QED
  BY <1>6, <1>9, <1>10, <1>11, <1>12 DEF SameRest

\* The block that was received becomes the busy one; then the next, or the status.
Pushes(v, w) ==
    /\ SameReads(v, w) /\ SameFaults(v, w) /\ v.sat_pending = w.sat_pending
    /\ v.writebuf_current = 1 - w.writebuf_current /\ v.writebuf_busy
    /\ v.writebuf_sector = w.sector /\ v.writebuf_count = w.length
    /\ v.writebuf_overrun = w.writebuf_overrun /\ v.write_rc = w.write_rc
    /\ v.sector = w.sector + w.length /\ v.count = w.count - w.length
    /\ v.direction = w.direction /\ v.stalled = w.stalled
    /\ \/ /\ v.count = 0 /\ v.state = "WAITING_FOR_CSW_COMPLETION" /\ v.out = w.out
          /\ v.in = IF w.write_rc THEN Failed ELSE Passed
       \/ /\ v.count > 0 /\ v.state = "RECEIVING_BLOCKS" /\ v.in = w.in
          /\ v.length > 0 /\ v.count = v.pending + v.length
          /\ v.out = Transfer("block", 1 - v.writebuf_current, 0, v.length)

\* writebuf_push: the waiting block becomes the busy one, and the next is asked for.
LEMMA PushDoes ==
    ASSUME NEW w \in Statics, w.direction = "out", w.sector + w.count <= NumSectors,
           w.count = w.pending + w.length
    PROVE  writebuf_push(w) \in Statics /\ Pushes(writebuf_push(w), w)
<1> DEFINE v == [w EXCEPT !.writebuf_current = 1 - @,
                          !.writebuf_sector = w.sector,
                          !.writebuf_count = w.length,
                          !.writebuf_busy = TRUE,
                          !.sector = @ + w.length,
                          !.count = @ - w.length]
<1>1. /\ w.sector \in 0..NumSectors /\ w.count \in 0..NumSectors /\ w.length \in 0..BufSectors
      /\ w.pending \in 0..NumSectors + 1 /\ w.writebuf_current \in Buf
  BY DEF Statics
<1>2. /\ 1 - w.writebuf_current \in Buf
      /\ w.sector + w.length \in 0..NumSectors /\ w.count - w.length \in 0..NumSectors
      /\ w.count - w.length = w.pending
  <2>1. 1 - w.writebuf_current \in Buf
    BY <1>1 DEF Buf
  <2>2. w.length <= w.count
    BY <1>1, Constants
  <2>3. w.sector + w.length \in 0..NumSectors /\ w.count - w.length = w.pending
    BY <1>1, <2>2, Constants
  <2>4. w.count - w.length \in 0..NumSectors
    BY <1>1, <2>2, Constants
  <2> QED
    BY <2>1, <2>3, <2>4
<1>3. v \in Statics
  BY <1>1, <1>2 DEF Statics
<1>4. SameReads(v, w) /\ SameFaults(v, w) /\ SamePipes(v, w)
  BY StaticsShape DEF StaticFields, SameReads, SameFaults, SamePipes
<1>5. /\ v.sat_pending = w.sat_pending /\ v.direction = w.direction
      /\ v.writebuf_current = 1 - w.writebuf_current /\ v.writebuf_busy
      /\ v.writebuf_sector = w.sector /\ v.writebuf_count = w.length
      /\ v.writebuf_overrun = w.writebuf_overrun /\ v.write_rc = w.write_rc
      /\ v.sector = w.sector + w.length /\ v.count = w.count - w.length
      /\ v.pending = w.pending
  BY DEF Statics
<1>6. writebuf_push(w) = IF v.count = 0 THEN WriteStatus(v) ELSE receive_block_data(v)
  BY DEF writebuf_push
<1> HIDE DEF v
<1>7. v.pending = v.count /\ v.count \in 0..NumSectors
  BY <1>2, <1>5
<1>8. CASE v.count = 0
  <2>1. writebuf_push(w) = WriteStatus(v) /\ ~(v.pending > 0)
    BY <1>6, <1>7, <1>8
  <2>2. CASE v.write_rc
    <3>1. writebuf_push(w) = send_csw(v, Failed)
      BY <2>1, <2>2 DEF WriteStatus
    <3>2. LET x == send_csw(v, Failed) IN
          /\ x \in Statics /\ SameRest(x, v) /\ SameCommand(x, v) /\ SameFaults(x, v)
          /\ x.state = "WAITING_FOR_CSW_COMPLETION" /\ x.in = Failed /\ x.out = v.out
          /\ x.stalled = v.stalled
      BY <1>3, <2>1, CswDoes, Ranges
    <3> QED
      BY <1>4, <1>5, <1>8, <2>2, <3>1, <3>2
         DEF Pushes, SameRest, SameReads, SameWrites, SameFaults, SameCommand, SamePipes
  <2>3. CASE ~v.write_rc
    <3> DEFINE x == send_csw(v, Passed)
               y == [x EXCEPT !.write_rc = FALSE]
    <3>1. writebuf_push(w) = y
      BY <2>1, <2>3 DEF WriteStatus
    <3>2. /\ x \in Statics /\ SameRest(x, v) /\ SameCommand(x, v) /\ SameFaults(x, v)
          /\ x.state = "WAITING_FOR_CSW_COMPLETION" /\ x.in = Passed /\ x.out = v.out
          /\ x.stalled = v.stalled
      BY <1>3, <2>1, CswDoes, Ranges
    <3> HIDE DEF x
    <3>3. y \in Statics
      BY <3>2 DEF Statics
    <3>4. /\ SameReads(y, x) /\ SameCommand(y, x) /\ SameFaults(y, x) /\ SamePipes(y, x)
          /\ y.writebuf_current = x.writebuf_current /\ y.writebuf_busy = x.writebuf_busy
          /\ y.writebuf_sector = x.writebuf_sector /\ y.writebuf_count = x.writebuf_count
          /\ y.writebuf_overrun = x.writebuf_overrun /\ y.sat_pending = x.sat_pending
          /\ y.write_rc = FALSE
      BY <3>2 DEF Statics, SameReads, SameCommand, SameFaults, SamePipes
    <3> HIDE DEF y
    <3>5. w.write_rc = FALSE
      BY <1>5, <2>3 DEF Statics
    <3>6. /\ y.write_rc = w.write_rc /\ y.writebuf_busy
          /\ y.in = IF w.write_rc THEN Failed ELSE Passed
      BY <1>5, <3>2, <3>4, <3>5 DEF SameRest, SameWrites, SamePipes
    <3>7. SameReads(y, w) /\ SameFaults(y, w) /\ y.sat_pending = w.sat_pending
      BY <1>4, <1>5, <3>2, <3>4 DEF SameRest, SameReads, SameFaults
    <3>8. /\ y.writebuf_current = 1 - w.writebuf_current
          /\ y.writebuf_sector = w.sector /\ y.writebuf_count = w.length
          /\ y.writebuf_overrun = w.writebuf_overrun
          /\ y.sector = w.sector + w.length /\ y.count = w.count - w.length
          /\ y.direction = w.direction /\ y.stalled = w.stalled
          /\ y.count = 0 /\ y.state = "WAITING_FOR_CSW_COMPLETION" /\ y.out = w.out
      BY <1>4, <1>5, <1>8, <3>2, <3>4 DEF SameRest, SameWrites, SameCommand, SamePipes
    <3> QED
      BY <3>1, <3>3, <3>6, <3>7, <3>8 DEF Pushes
  <2> QED
    BY <2>2, <2>3
<1>9. CASE v.count # 0
  <2>1. writebuf_push(w) = receive_block_data(v) /\ v.count > 0
    BY <1>6, <1>7, <1>9
  <2>2. Block(v) <= v.pending /\ Block(v) > 0 /\ Block(v) \in Nat
    BY <1>7, <2>1, Ranges DEF Block, Lesser
  <2>3. LET x == receive_block_data(v) IN
           /\ x \in Statics /\ SameRest(x, v) /\ SameFaults(x, v)
           /\ x.state = "RECEIVING_BLOCKS" /\ x.in = v.in /\ x.stalled = v.stalled
           /\ x.out = Transfer("block", 1 - v.writebuf_current, 0, x.length)
           /\ x.length = Block(v) /\ x.pending = v.pending - x.length
           /\ x.sector = v.sector /\ x.count = v.count /\ x.direction = v.direction
    BY <1>3, <1>5, <2>2, ReceiveDoes
  <2> DEFINE x == receive_block_data(v)
  <2> HIDE DEF x
  <2>4. x.count = x.pending + x.length /\ x.length > 0 /\ x.count > 0
    BY <1>7, <2>1, <2>2, <2>3 DEF x
  <2> QED
    BY <1>4, <1>5, <2>1, <2>3, <2>4
       DEF Pushes, SameRest, SameReads, SameWrites, SameFaults, SamePipes, x
<1> QED
  BY <1>7, <1>8, <1>9

-----------------------------------------------------------------------------
(* send_and_read_next: it waits for the thread, or it sends what there is.  *)

\* Only the other read buffer can have been pointed at other sectors, and is empty.
OtherTurned(v, w) ==
    /\ \A i \in Buf : i # 1 - w.readbuf_current =>
         v.readbuf_sector[i] = w.readbuf_sector[i] /\ v.readbuf_count[i] = w.readbuf_count[i]
    /\ v.readbuf_count[1 - w.readbuf_current] = 0

SameReadBuffers(v, w) == v.readbuf_sector = w.readbuf_sector /\ v.readbuf_count = w.readbuf_count

Waits(v, w) ==
    /\ SameCommand(v, w) /\ SameWrites(v, w) /\ SameFaults(v, w) /\ SamePipes(v, w)
    /\ v.sat_pending = w.sat_pending /\ v.read_blocked
    /\ SameReadBuffers(v, w) \/ OtherTurned(v, w)

Fits(w, i, n) ==
    /\ n \in 1..w.count
    /\ w.sector - w.readbuf_sector[i] \in Slots
    /\ w.readbuf_count[i] # 0
    /\ ~Wraps(w, i) => w.sector - w.readbuf_sector[i] + n <= w.readbuf_count[i]

SendsFrom(v, w, i, n) ==
    /\ SameWrites(v, w) /\ SameFaults(v, w)
    /\ v.sat_pending = w.sat_pending /\ v.read_blocked = w.read_blocked
    /\ v.state = "SENDING_BLOCKS" /\ v.out = w.out /\ v.stalled = w.stalled
    /\ v.direction = w.direction /\ v.length = w.length
    /\ v.in = Transfer("block", i, w.sector - w.readbuf_sector[i], n)
    /\ v.sector = w.sector + n /\ v.count = w.count - n /\ v.pending = w.pending - n
    /\ Fits(w, i, n)
    /\ \/ SameReadBuffers(v, w) /\ v.readbuf_current = w.readbuf_current
       \/ OtherTurned(v, w) /\ i = w.readbuf_current

Sends(v, w) == \E i \in Buf : \E n \in 1..NumSectors : SendsFrom(v, w, i, n)

\* Await: the READ waits for the thread.
LEMMA AwaitDoes ==
    ASSUME NEW w \in Statics, NEW i \in Buf
    PROVE  LET v == Await(w, i) IN
           /\ v \in Statics
           /\ SameCommand(v, w) /\ SameWrites(v, w) /\ SameFaults(v, w) /\ SamePipes(v, w)
           /\ v.sat_pending = w.sat_pending /\ v.read_blocked /\ SameReadBuffers(v, w)
<1> DEFINE x == [w EXCEPT !.readbuf_current = i, !.read_blocked = TRUE]
<1>1. x \in Statics
  BY DEF Statics
<1>2. /\ SameCommand(x, w) /\ SameWrites(x, w) /\ SameFaults(x, w) /\ SamePipes(x, w)
      /\ x.sat_pending = w.sat_pending /\ SameReadBuffers(x, w)
  <2>1. SameCommand(x, w) /\ SameFaults(x, w) /\ SameReadBuffers(x, w)
    BY StaticsShape DEF StaticFields, SameCommand, SameFaults, SameReadBuffers
  <2>2. SameWrites(x, w) /\ SamePipes(x, w) /\ x.sat_pending = w.sat_pending
    BY StaticsShape DEF StaticFields, SameWrites, SamePipes
  <2> QED
    BY <2>1, <2>2
<1>3. x.read_blocked
  BY DEF Statics
<1>4. Await(w, i) = enqueue_async(x)
  BY DEF Await
<1> HIDE DEF x
<1>5. LET v == enqueue_async(x) IN
      /\ v \in Statics /\ SameRest(v, x) /\ SameCommand(v, x) /\ SamePipes(v, x)
      /\ SameFaults(v, x)
  BY <1>1, SignalDoes
<1> QED
  BY <1>2, <1>3, <1>4, <1>5
     DEF SameRest, SameReads, SameCommand, SameWrites, SameFaults, SamePipes, SameReadBuffers

\* Ahead points the buffer i, which is then the newest, at the sector next.
LEMMA AheadDoes ==
    ASSUME NEW w \in Statics, NEW i \in Buf, NEW next \in Sectors
    PROVE  LET v == Ahead(w, i, next) IN
           /\ v \in Statics
           /\ SameCommand(v, w) /\ SameWrites(v, w) /\ SameFaults(v, w) /\ SamePipes(v, w)
           /\ v.sat_pending = w.sat_pending /\ v.read_blocked = w.read_blocked
           /\ \A j \in Buf : j # i => v.readbuf_sector[j] = w.readbuf_sector[j]
                                      /\ v.readbuf_count[j] = w.readbuf_count[j]
           /\ v.readbuf_count[i] = 0
<1> DEFINE S == [w.readbuf_sector EXCEPT ![i] = next]
           C == [w.readbuf_count EXCEPT ![i] = 0]
           x == [w EXCEPT !.readbuf_current = i, !.readbuf_sector = S, !.readbuf_count = C]
<1>1. w.readbuf_sector \in [Buf -> Sectors] /\ w.readbuf_count \in [Buf -> -1..BufSectors]
  BY DEF Statics
<1>2. /\ S \in [Buf -> Sectors] /\ C \in [Buf -> -1..BufSectors]
      /\ \A j \in Buf : j # i => S[j] = w.readbuf_sector[j] /\ C[j] = w.readbuf_count[j]
      /\ C[i] = 0
  <2>1. 0 \in -1..BufSectors
    BY Constants
  <2> QED
    BY <1>1, <2>1
<1>3. Ahead(w, i, next) = enqueue_async(x)
  BY DEF Ahead
<1> HIDE DEF S, C
<1>4. x \in Statics
  <2>1. DOMAIN x = StaticFields /\ x = [a \in StaticFields |-> x[a]]
    BY StaticsShape
  <2>2. FieldTypes(x)
    BY <1>2, StaticsShape, StaticsTypes DEF FieldTypes, StaticFields
  <2> HIDE DEF x
  <2> QED
    BY <2>1, <2>2, StaticsTypes
<1>5. /\ SameCommand(x, w) /\ SameWrites(x, w) /\ SameFaults(x, w) /\ SamePipes(x, w)
      /\ x.sat_pending = w.sat_pending /\ x.read_blocked = w.read_blocked
      /\ x.readbuf_sector = S /\ x.readbuf_count = C
  <2>1. SameCommand(x, w) /\ SameFaults(x, w) /\ x.readbuf_sector = S /\ x.readbuf_count = C
    BY StaticsShape DEF StaticFields, SameCommand, SameFaults
  <2>2. SameWrites(x, w) /\ SamePipes(x, w)
    BY StaticsShape DEF StaticFields, SameWrites, SamePipes
  <2>3. x.sat_pending = w.sat_pending /\ x.read_blocked = w.read_blocked
    BY DEF Statics
  <2> QED
    BY <2>1, <2>2, <2>3
<1> HIDE DEF x
<1>6. LET v == enqueue_async(x) IN
      /\ v \in Statics /\ SameRest(v, x) /\ SameCommand(v, x) /\ SamePipes(v, x)
      /\ SameFaults(v, x)
  BY <1>4, SignalDoes
<1> QED
  BY <1>2, <1>3, <1>5, <1>6
     DEF SameRest, SameReads, SameCommand, SameWrites, SameFaults, SamePipes

\* n sectors of buffer i are on their way, if the command has as many left.
Sent(w, i, off, n) == [send_block_data(w, i, off, n) EXCEPT !.sector = @ + n, !.count = @ - n]
Piece(v, w, i, off, n) ==
    /\ SameReads(v, w) /\ SameWrites(v, w) /\ v.sat_pending = w.sat_pending
    /\ n <= w.pending =>
         /\ SameFaults(v, w)
         /\ v.state = "SENDING_BLOCKS" /\ v.out = w.out /\ v.stalled = w.stalled
         /\ v.direction = w.direction /\ v.length = w.length
         /\ v.in = Transfer("block", i, off, n)
         /\ v.sector = w.sector + n /\ v.count = w.count - n /\ v.pending = w.pending - n

\* send_block_data: it fails if the command has less than that left.
LEMMA SendBlockDoes ==
    ASSUME NEW w \in Statics, NEW i \in Buf, NEW off \in Slots, NEW n \in 1..NumSectors,
           w.direction = "in", n <= w.count, w.sector + n <= NumSectors
    PROVE  Sent(w, i, off, n) \in Statics /\ Piece(Sent(w, i, off, n), w, i, off, n)
<1> DEFINE t == Transfer("block", i, off, n)
           x == send_block_data(w, i, off, n)
           y == [x EXCEPT !.sector = x.sector + n, !.count = x.count - n]
<1>1. /\ w.sector \in 0..NumSectors /\ w.count \in 0..NumSectors
      /\ w.pending \in 0..NumSectors + 1
  BY DEF Statics
<1>2. w.sector + n \in 0..NumSectors /\ w.count - n \in 0..NumSectors
  BY <1>1, Constants
<1>3. /\ x \in Statics
      /\ SameReads(x, w) /\ SameWrites(x, w) /\ x.sat_pending = w.sat_pending
      /\ x.sector = w.sector /\ x.count = w.count
      /\ n <= w.pending =>
           /\ SameFaults(x, w)
           /\ x.state = "SENDING_BLOCKS" /\ x.out = w.out /\ x.stalled = w.stalled
           /\ x.direction = w.direction /\ x.length = w.length /\ x.in = t
           /\ x.pending = w.pending - n
  <2>1. CASE n > w.pending
    <3>1. x = fail(w) /\ ~(n <= w.pending)
      BY <1>1, <2>1 DEF send_block_data
    <3> HIDE DEF x
    <3> QED
      BY <3>1, FailDoes DEF SameRest, SameCommand
  <2>2. CASE ~(n > w.pending)
    <3> DEFINE z == [w EXCEPT !.pending = w.pending - n, !.in = t, !.state = "SENDING_BLOCKS"]
    <3>1. x = z
      BY <2>2 DEF send_block_data
    <3>2. w.pending - n \in 0..NumSectors + 1
      BY <1>1, <2>2, Constants
    <3>3. t \in InTransfers
      <4>1. i \in 0..2 /\ n \in 0..NumSectors
        BY Ranges
      <4> QED
        BY <4>1, TransferType
    <3> HIDE DEF t, x
    <3>4. z \in Statics
      BY <3>2, <3>3 DEF Statics, States
    <3>5. SameReads(z, w) /\ SameWrites(z, w) /\ SameFaults(z, w) /\ z.sat_pending = w.sat_pending
      BY StaticsShape DEF StaticFields, SameReads, SameWrites, SameFaults
    <3>6. /\ z.state = "SENDING_BLOCKS" /\ z.out = w.out /\ z.stalled = w.stalled
          /\ z.direction = w.direction /\ z.length = w.length /\ z.in = t
          /\ z.sector = w.sector /\ z.count = w.count /\ z.pending = w.pending - n
      BY DEF Statics
    <3> HIDE DEF z
    <3> QED
      BY <3>1, <3>4, <3>5, <3>6
  <2> QED
    BY <2>1, <2>2
<1> HIDE DEF x, t
<1>4. y \in Statics
  BY <1>2, <1>3 DEF Statics
<1>5. SameReads(y, x) /\ SameWrites(y, x) /\ SameFaults(y, x) /\ y.sat_pending = x.sat_pending
  BY <1>3 DEF Statics, SameReads, SameWrites, SameFaults
<1>6. /\ SamePipes(y, x) /\ y.direction = x.direction /\ y.length = x.length
      /\ y.sector = x.sector + n /\ y.count = x.count - n /\ y.pending = x.pending
  BY <1>3 DEF Statics, SamePipes
<1>7. y = Sent(w, i, off, n)
  BY DEF Sent, x
<1> HIDE DEF y
<1>8. SameReads(y, w) /\ SameWrites(y, w) /\ y.sat_pending = w.sat_pending
  BY <1>3, <1>5 DEF SameReads, SameWrites
<1>9. n <= w.pending =>
        /\ SameFaults(y, w)
        /\ y.state = "SENDING_BLOCKS" /\ y.out = w.out /\ y.stalled = w.stalled
        /\ y.direction = w.direction /\ y.length = w.length
        /\ y.in = t
        /\ y.sector = w.sector + n /\ y.count = w.count - n /\ y.pending = w.pending - n
  BY <1>3, <1>5, <1>6 DEF SamePipes, SameFaults
<1> QED
  BY <1>4, <1>7, <1>8, <1>9 DEF Piece, t

\* What a command that reads has of the statics.
Asking(w) == w.direction = "in" /\ w.count > 0 /\ w.sector + w.count <= NumSectors
InsideDisk(w) ==
    \A i \in Buf : w.readbuf_count[i] > 0 => w.readbuf_sector[i] + w.readbuf_count[i] <= NumSectors

\* The answer from a buffer that holds the next sector; the other one may read ahead.
LEMMA SendFromDoes ==
    ASSUME NEW w \in Statics, NEW i \in Buf, NEW n \in 1..NumSectors, Asking(w),
           Fits(w, i, n), w.sector + n <= End(w, i)
    PROVE  LET v == SendFrom(w, i, n) IN
           /\ v \in Statics /\ SameWrites(v, w)
           /\ w.pending = w.count => SendsFrom(v, w, i, n)
<1>1. /\ w.sector \in 0..NumSectors /\ w.count \in 0..NumSectors
      /\ w.pending \in 0..NumSectors + 1
      /\ w.readbuf_sector[i] \in Sectors /\ w.readbuf_count[i] \in -1..BufSectors
  BY DEF Statics
<1>2. n <= w.count /\ w.sector + n <= NumSectors /\ w.direction = "in"
  BY <1>1, Constants DEF Asking, Fits
<1> DEFINE off == w.sector - w.readbuf_sector[i]
<1>3. off \in Slots
  BY DEF Fits
<1>4. CASE i = w.readbuf_current /\ End(w, i) < NumSectors
  <2> DEFINE next == Greater(End(w, i), w.sector + n)
             v == Ahead(w, 1 - i, next)
             x == Sent(v, i, off, n)
  <2>1. End(w, i) \in Int
    BY <1>1, Constants DEF End
  <2>2. next \in Sectors
    BY <1>1, <1>2, <1>4, <2>1, Constants DEF Greater
  <2>3. 1 - i \in Buf
    BY DEF Buf
  <2>4. /\ v \in Statics
        /\ SameCommand(v, w) /\ SameWrites(v, w) /\ SameFaults(v, w) /\ SamePipes(v, w)
        /\ v.sat_pending = w.sat_pending /\ v.read_blocked = w.read_blocked
        /\ \A j \in Buf : j # 1 - i => v.readbuf_sector[j] = w.readbuf_sector[j]
                                       /\ v.readbuf_count[j] = w.readbuf_count[j]
        /\ v.readbuf_count[1 - i] = 0
    <3> HIDE DEF next
    <3> QED
      BY <2>2, <2>3, AheadDoes
  <2>5. SendFrom(w, i, n) = x
    BY <1>4 DEF SendFrom, Sent
  <2> HIDE DEF v, next
  <2>6. v.direction = "in" /\ n <= v.count /\ v.sector + n <= NumSectors
    BY <1>2, <2>4 DEF SameCommand
  <2> HIDE DEF off
  <2> v \in Statics
    BY <2>4
  <2>7. x \in Statics /\ Piece(x, v, i, off, n)
    BY <1>3, <2>6, SendBlockDoes
  <2> HIDE DEF x
  <2>8. OtherTurned(x, w)
    BY <1>4, <2>4, <2>7 DEF OtherTurned, Piece, SameReads
  <2>9. /\ SameWrites(x, w) /\ x.sat_pending = w.sat_pending /\ x.read_blocked = w.read_blocked
    BY <2>4, <2>7 DEF Piece, SameReads, SameWrites
  <2>10. w.pending = w.count =>
           /\ SameFaults(x, w)
           /\ x.state = "SENDING_BLOCKS" /\ x.out = w.out /\ x.stalled = w.stalled
           /\ x.direction = w.direction /\ x.length = w.length
           /\ x.in = Transfer("block", i, off, n)
           /\ x.sector = w.sector + n /\ x.count = w.count - n /\ x.pending = w.pending - n
    BY <1>2, <2>4, <2>7 DEF Piece, SameCommand, SamePipes, SameFaults
  <2> QED
    BY <1>4, <2>5, <2>7, <2>8, <2>9, <2>10 DEF SendsFrom, off
<1>5. CASE ~(i = w.readbuf_current /\ End(w, i) < NumSectors)
  <2> DEFINE x == Sent(w, i, off, n)
  <2>1. SendFrom(w, i, n) = x
    BY <1>5 DEF SendFrom, Sent
  <2> HIDE DEF off
  <2>2. x \in Statics /\ Piece(x, w, i, off, n)
    BY <1>2, <1>3, SendBlockDoes
  <2> HIDE DEF x
  <2> QED
    BY <1>2, <2>1, <2>2 DEF Piece, SendsFrom, off, SameReads, SameReadBuffers
<1> QED
  BY <1>4, <1>5

\* UseBuffer sends what a read buffer has, or waits for it.
LEMMA UseBufferDoes ==
    ASSUME NEW w \in Statics, NEW i \in Buf, Asking(w), InsideDisk(w), InWindow(w, i)
    PROVE  LET v == UseBuffer(w, i) IN
           /\ v \in Statics /\ SameWrites(v, w)
           /\ w.pending = w.count => Waits(v, w) \/ Sends(v, w)
<1>1. /\ w.sector \in 0..NumSectors /\ w.count \in 0..NumSectors
      /\ w.readbuf_sector[i] \in Sectors /\ w.readbuf_count[i] \in -1..BufSectors
  BY DEF Statics
<1>2. CASE End(w, i) <= w.sector
  <2>1. UseBuffer(w, i) = Await(w, i)
    BY <1>2 DEF UseBuffer
  <2> QED
    BY <2>1, AwaitDoes DEF Waits
<1>3. CASE ~(End(w, i) <= w.sector)
  <2> DEFINE n == Lesser(End(w, i) - w.sector, w.count)
  <2>1. UseBuffer(w, i) = SendFrom(w, i, n)
    BY <1>3 DEF UseBuffer
  <2>2. End(w, i) \in Int /\ End(w, i) > w.sector
    BY <1>1, <1>3, Constants DEF End
  <2>3. n \in 1..w.count /\ w.sector + n <= End(w, i) /\ n \in 1..NumSectors
    BY <1>1, <2>2, Constants DEF Lesser, Asking
  <2> HIDE DEF n
  <2>4. w.sector - w.readbuf_sector[i] \in Slots
    BY <1>1, Constants DEF InWindow
  <2>5. w.readbuf_count[i] # 0
    BY <1>1, <2>2, <2>4, Constants DEF End, Wraps
  <2>6. ~Wraps(w, i) => w.sector - w.readbuf_sector[i] + n <= w.readbuf_count[i]
    BY <1>1, <2>2, <2>3, Constants DEF End
  <2>7. Fits(w, i, n)
    BY <2>3, <2>4, <2>5, <2>6 DEF Fits
  <2> QED
    BY <2>1, <2>3, <2>7, SendFromDoes DEF Sends
<1> QED
  BY <1>2, <1>3

\* send_and_read_next, whichever buffer the sector is in.
LEMMA NextDoes ==
    ASSUME NEW w \in Statics, Asking(w), InsideDisk(w)
    PROVE  LET v == send_and_read_next(w) IN
           /\ v \in Statics /\ SameWrites(v, w)
           /\ w.pending = w.count => Waits(v, w) \/ Sends(v, w)
<1>1. CASE InWindow(w, 0)
  BY <1>1, UseBufferDoes, Ranges DEF send_and_read_next
<1>2. CASE ~InWindow(w, 0) /\ InWindow(w, 1)
  BY <1>2, UseBufferDoes, Ranges DEF send_and_read_next
<1>3. CASE ~InWindow(w, 0) /\ ~InWindow(w, 1)
  <2> DEFINE i == 1 - w.readbuf_current
             S == [w.readbuf_sector EXCEPT ![i] = w.sector]
             C == [w.readbuf_count EXCEPT ![i] = 0]
             x == [w EXCEPT !.readbuf_sector = S, !.readbuf_count = C]
  <2>1. /\ w.readbuf_sector \in [Buf -> Sectors] /\ w.readbuf_count \in [Buf -> -1..BufSectors]
        /\ w.sector \in 0..NumSectors /\ w.count \in 0..NumSectors /\ w.readbuf_current \in Buf
    BY DEF Statics
  <2>2. i \in Buf /\ w.sector \in Sectors
    BY <2>1, Constants DEF Asking, Buf
  <2>3. send_and_read_next(w) = Await(x, i)
    BY <1>3 DEF send_and_read_next
  <2>4. /\ S \in [Buf -> Sectors] /\ C \in [Buf -> -1..BufSectors]
        /\ \A j \in Buf : j # i => S[j] = w.readbuf_sector[j] /\ C[j] = w.readbuf_count[j]
        /\ C[i] = 0
    <3>1. 0 \in -1..BufSectors
      BY Constants
    <3> HIDE DEF i
    <3> QED
      BY <2>1, <2>2, <3>1
  <2> HIDE DEF S, C
  <2>5. x \in Statics
    BY <2>4 DEF Statics
  <2>6. /\ SameCommand(x, w) /\ SameWrites(x, w) /\ SameFaults(x, w) /\ SamePipes(x, w)
        /\ x.sat_pending = w.sat_pending
        /\ x.readbuf_sector = S /\ x.readbuf_count = C
    <3>1. SameCommand(x, w) /\ SameFaults(x, w) /\ x.readbuf_sector = S /\ x.readbuf_count = C
      BY StaticsShape DEF StaticFields, SameCommand, SameFaults
    <3>2. SameWrites(x, w) /\ SamePipes(x, w) /\ x.sat_pending = w.sat_pending
      BY StaticsShape DEF StaticFields, SameWrites, SamePipes
    <3> QED
      BY <3>1, <3>2
  <2> HIDE DEF x
  <2> DEFINE v == Await(x, i)
  <2>7. /\ v \in Statics
        /\ SameCommand(v, x) /\ SameWrites(v, x) /\ SameFaults(v, x) /\ SamePipes(v, x)
        /\ v.sat_pending = x.sat_pending /\ v.read_blocked /\ SameReadBuffers(v, x)
    BY <2>2, <2>5, AwaitDoes
  <2> HIDE DEF v
  <2>8. OtherTurned(v, w)
    BY <2>4, <2>6, <2>7 DEF OtherTurned, SameReadBuffers
  <2>9. SameCommand(v, w) /\ SameWrites(v, w) /\ SameFaults(v, w) /\ SamePipes(v, w)
        /\ v.sat_pending = w.sat_pending
    BY <2>6, <2>7 DEF SameCommand, SameWrites, SameFaults, SamePipes
  <2> QED
    BY <2>3, <2>7, <2>8, <2>9 DEF v, Waits
<1> QED
  BY <1>1, <1>2, <1>3

-----------------------------------------------------------------------------
(* The token: whose turn it is, and what the statics are then.             *)

Command == Transfer("cmd", 0, 0, 0)
NothingAsked == ~u.read_blocked /\ ~u.writebuf_overrun /\ u.sat_pending = "SAT_PENDING_NONE"
Elsewhere == worker.pc \notin {"sent", "counted"}
At(sector, count) == u.sector = sector /\ u.count = count /\ sector + count <= NumSectors
Here == host.cmd.sector + host.got
Rest == host.cmd.count - host.got

\* The block on its way comes from a filled part of a read buffer.
BlockSent ==
    /\ u.in.to = "block" /\ u.in.buf \in Buf /\ u.in.size > 0
    /\ u.in.off = Here - u.readbuf_sector[u.in.buf]
    /\ u.readbuf_count[u.in.buf] # 0
    /\ ~Wraps(u, u.in.buf) => u.in.off + u.in.size <= u.readbuf_count[u.in.buf]

\* The newest buffer is the thread's, and a small result comes from another one.
ResultSent ==
    /\ u.in.to = "result" /\ u.in.buf \in {1 - u.readbuf_current, tb}

\* The application waits for a command.
Listening ==
    /\ u.state = "WAITING_FOR_COMMAND" /\ u.out = Command /\ u.in = None
    /\ NothingAsked /\ Elsewhere /\ u.stalled = {}
    /\ host.phase = "idle" /\ host.cmd.kind # "write"

\* A command that is never answered, or only by stalling.
Quiet ==
    /\ u.state = "PROCESSING" /\ u.out = None /\ u.in = None
    /\ NothingAsked /\ Elsewhere
    /\ \/ host.cmd.kind = "badcbw" /\ host.phase \in {"in", "idle"}
       \/ host.cmd.kind = "silent" /\ host.phase = "csw" /\ u.stalled = {}

\* The status is on its way.
Status ==
    /\ u.state = "WAITING_FOR_CSW_COMPLETION" /\ u.out = None /\ u.in \in {Passed, Failed}
    /\ NothingAsked /\ Elsewhere /\ host.phase # "idle"
    /\ "out" \in u.stalled => host.phase = "out" /\ u.in = Failed
    /\ u.in = Passed /\ host.cmd.kind = "write" => host.got = host.cmd.count

\* The status is on its way, and the halt of the OUT endpoint has been cleared.
Relistened ==
    /\ u.state = "WAITING_FOR_COMMAND" /\ u.out = Command /\ u.in = Failed
    /\ NothingAsked /\ Elsewhere /\ u.stalled = {}
    /\ host.phase = "csw" /\ ghost.relistened

SendingResult ==
    /\ u.state = "SENDING_RESULT" /\ u.out = None /\ ResultSent
    /\ NothingAsked /\ Elsewhere /\ u.stalled = {}
    /\ host.phase = "in" /\ u.direction = "in" /\ host.cmd.kind \in {"result", "residue", "sat_in"}

Reading ==
    /\ u.out = None /\ u.stalled = {} /\ ~u.writebuf_overrun /\ u.sat_pending = "SAT_PENDING_NONE"
    /\ host.phase = "in" /\ u.direction = "in" /\ host.cmd.kind = "read"

\* A block of a READ is on its way.
SendingBlocks ==
    /\ u.state = "SENDING_BLOCKS" /\ Reading /\ BlockSent /\ ~u.read_blocked /\ Elsewhere
    /\ At(Here + u.in.size, Rest - u.in.size) /\ u.pending = u.count

\* A READ waits for the thread.
ReadWait ==
    /\ u.state \in {"PROCESSING", "SENDING_BLOCKS"} /\ Reading /\ u.in = None
    /\ u.read_blocked /\ Elsewhere
    /\ At(Here, Rest) /\ u.count > 0 /\ u.pending = u.count

\* A block of a WRITE is expected.
Receiving ==
    /\ u.state = "RECEIVING_BLOCKS" /\ u.in = None
    /\ u.out = Transfer("block", 1 - u.writebuf_current, 0, u.length)
    /\ NothingAsked /\ Elsewhere /\ u.stalled = {}
    /\ host.phase = "out" /\ host.cmd.kind = "write" /\ u.direction = "out"
    /\ At(Here, Rest) /\ u.length > 0 /\ u.count = u.pending + u.length

\* A block of a WRITE was received while the one before was being stored.
Overrun ==
    /\ u.state = "RECEIVING_BLOCKS" /\ u.in = None /\ u.out = None
    /\ u.writebuf_overrun /\ ~u.read_blocked /\ u.sat_pending = "SAT_PENDING_NONE"
    /\ Elsewhere /\ u.stalled = {}
    /\ host.phase = (IF Rest > 0 THEN "out" ELSE "csw")
    /\ host.cmd.kind = "write" /\ u.direction = "out"
    /\ At(Here - u.length, Rest + u.length) /\ u.length > 0 /\ u.count = u.pending + u.length

\* The data of a SAT command is expected.
SatReceiving ==
    /\ u.state = "RECEIVING_SAT_WRITE" /\ u.in = None
    /\ u.out = Transfer("sat", 1 - u.readbuf_current, 0, 1)
    /\ NothingAsked /\ Elsewhere /\ u.stalled = {}
    /\ host.phase = "out" /\ host.cmd.kind = "sat_out" /\ u.pending = 0
    /\ u.readbuf_count[1 - u.readbuf_current] = 0

\* A SAT command waits for the thread.
SatWaiting ==
    /\ u.state = "PROCESSING" /\ u.in = None /\ u.out = None
    /\ ~u.read_blocked /\ ~u.writebuf_overrun /\ u.sat_pending # "SAT_PENDING_NONE"
    /\ Elsewhere /\ u.stalled = {}
    /\ host.cmd.kind \in {"sat_reset", "sat_none", "sat_in", "sat_out"}
    /\ IF host.cmd.kind = "sat_in" THEN host.phase = "in" /\ u.direction = "in" /\ u.pending = 1
                                   ELSE host.phase = "csw" /\ u.pending = 0
    /\ host.cmd.kind = "sat_in" => u.readbuf_count[1 - u.readbuf_current] = 0

\* The thread has started a block of a READ and not yet noted it.
NotingBlock ==
    /\ Reading /\ BlockSent /\ ~u.read_blocked
    /\ worker.pc \in {"sent", "counted"}
    /\ worker.size = u.in.size /\ worker.state = "SENDING_BLOCKS"
    /\ u.state \in {"PROCESSING", "SENDING_BLOCKS"}
    /\ u.state = "PROCESSING" => worker.pc = "sent"
    /\ At(Here, Rest) /\ u.count = u.pending + u.in.size

\* The same for the result of a SAT command.
NotingResult ==
    /\ u.out = None /\ NothingAsked /\ u.stalled = {}
    /\ host.phase = "in" /\ u.direction = "in" /\ host.cmd.kind = "sat_in"
    /\ worker.pc = "sent" /\ worker.state = "SENDING_RESULT" /\ u.state = "PROCESSING"
    /\ ResultSent

InPhase ==
    \/ Listening \/ Quiet \/ Status \/ Relistened \/ SendingResult \/ SendingBlocks
    \/ ReadWait \/ Receiving \/ Overrun \/ SatReceiving \/ SatWaiting
    \/ NotingBlock \/ NotingResult

\* The read buffer that the thread is filling is empty, at the sector that is being
\* read, and the newest, unless a READ waits for another one meanwhile.
Filled ==
    /\ InsideDisk(u)
    /\ worker.pc \in {"reading", "filled"} =>
         /\ u.readbuf_count[worker.c] = 0
         /\ worker.sector = u.readbuf_sector[worker.c]
         /\ ~u.read_blocked => worker.c = u.readbuf_current
    /\ worker.pc = "filled" => worker.sector + worker.count <= NumSectors

\* Nothing is followed further after an overtaking.
Protocol == ~ghost.overtaken => InPhase /\ Filled

ErrorExcused == u.error => ghost.overtaken \/ ghost.relistened

Reported == ghost.unreported => u.write_rc

ProtocolInvariant == Types /\ Protocol /\ ErrorExcused /\ Reported

\* What a step that answers a WRITE with success finds.
StepReports ==
    u'.in = Passed /\ u.in # Passed /\ host.cmd.kind = "write" => ~u.write_rc

\* A read buffer that is not empty after a step has not been pointed elsewhere by it.
CachesStay ==
    \A i \in Buf : u'.readbuf_count[i] # 0 =>
        u'.readbuf_sector[i] = u.readbuf_sector[i] /\ u'.readbuf_count[i] = u.readbuf_count[i]

\* What tells transfers apart.
LEMMA TransferTos ==
    /\ None.to = "none" /\ Passed.to = "csw" /\ Failed.to = "csw" /\ Passed # Failed
    /\ Command.to = "cmd" /\ None # Passed /\ None # Failed
    /\ \A to, buf, off, size :
         LET t == Transfer(to, buf, off, size) IN
         t.to = to /\ t.buf = buf /\ t.off = off /\ t.size = size
<1>1. /\ Passed.size = 0 /\ Failed.size = 1 /\ None.to = "none"
      /\ Passed.to = "csw" /\ Failed.to = "csw" /\ Command.to = "cmd"
  BY DEF None, Passed, Failed, Command, Transfer
<1> QED
  BY <1>1 DEF Transfer

\* The interrupt and the thread are each in the phase in which the step is theirs.
LEMMA WhoseTurn ==
    ASSUME InPhase, u \in Statics
    PROVE  /\ u.out.to = "cmd" /\ host.phase = "idle" => Listening
           /\ u.out.to = "block" => Receiving
           /\ u.out.to = "sat" => SatReceiving
           /\ u.in.to = "block" => SendingBlocks \/ NotingBlock
           /\ u.in.to = "result" => SendingResult \/ NotingResult
           /\ u.in.to = "csw" => Status \/ Relistened
           /\ "in" \in u.stalled \/ "out" \in u.stalled => Status \/ Quiet
           /\ u.writebuf_overrun => Overrun
           /\ u.read_blocked => ReadWait
           /\ u.sat_pending # "SAT_PENDING_NONE" => SatWaiting
           /\ ~Elsewhere => NotingBlock \/ NotingResult
<1> USE TransferTos
<1>1. u.out.to = "cmd" /\ host.phase = "idle" => Listening
  BY DEF InPhase, Listening, Quiet, Status, Relistened, SendingResult, SendingBlocks, ReadWait,
         Receiving, Overrun, SatReceiving, SatWaiting, NotingBlock, NotingResult, Reading
<1>2. u.out.to = "block" => Receiving
  BY DEF InPhase, Listening, Quiet, Status, Relistened, SendingResult, SendingBlocks, ReadWait,
         Receiving, Overrun, SatReceiving, SatWaiting, NotingBlock, NotingResult, Reading
<1>3. u.out.to = "sat" => SatReceiving
  BY DEF InPhase, Listening, Quiet, Status, Relistened, SendingResult, SendingBlocks, ReadWait,
         Receiving, Overrun, SatReceiving, SatWaiting, NotingBlock, NotingResult, Reading
<1>4. u.in.to = "block" => SendingBlocks \/ NotingBlock
  BY DEF InPhase, Listening, Quiet, Status, Relistened, SendingResult, SendingBlocks, ReadWait,
         Receiving, Overrun, SatReceiving, SatWaiting, NotingBlock, NotingResult, ResultSent
<1>5. u.in.to = "result" => SendingResult \/ NotingResult
  BY DEF InPhase, Listening, Quiet, Status, Relistened, SendingResult, SendingBlocks, ReadWait,
         Receiving, Overrun, SatReceiving, SatWaiting, NotingBlock, NotingResult, BlockSent
<1>6. u.in.to = "csw" => Status \/ Relistened
  BY DEF InPhase, Listening, Quiet, Status, Relistened, SendingResult, SendingBlocks, ReadWait,
         Receiving, Overrun, SatReceiving, SatWaiting, NotingBlock, NotingResult, BlockSent,
         ResultSent
<1>7. "in" \in u.stalled \/ "out" \in u.stalled => Status \/ Quiet
  BY DEF InPhase, Listening, Quiet, Status, Relistened, SendingResult, SendingBlocks, ReadWait,
         Receiving, Overrun, SatReceiving, SatWaiting, NotingBlock, NotingResult, Reading
<1>8. u.writebuf_overrun => Overrun
  BY DEF InPhase, Listening, Quiet, Status, Relistened, SendingResult, SendingBlocks, ReadWait,
         Receiving, Overrun, SatReceiving, SatWaiting, NotingBlock, NotingResult, Reading,
         NothingAsked
<1>9. u.read_blocked => ReadWait
  BY DEF InPhase, Listening, Quiet, Status, Relistened, SendingResult, SendingBlocks, ReadWait,
         Receiving, Overrun, SatReceiving, SatWaiting, NotingBlock, NotingResult, NothingAsked
<1>10. u.sat_pending # "SAT_PENDING_NONE" => SatWaiting
  BY DEF InPhase, Listening, Quiet, Status, Relistened, SendingResult, SendingBlocks, ReadWait,
         Receiving, Overrun, SatReceiving, SatWaiting, NotingBlock, NotingResult, Reading,
         NothingAsked
<1>11. ~Elsewhere => NotingBlock \/ NotingResult
  BY DEF InPhase, Listening, Quiet, Status, Relistened, SendingResult, SendingBlocks, ReadWait,
         Receiving, Overrun, SatReceiving, SatWaiting
<1> QED
  BY <1>1, <1>2, <1>3, <1>4, <1>5, <1>6, <1>7, <1>8, <1>9, <1>10, <1>11

\* The host has the first step: the application waits for a command.
LEMMA DiskInit == Init => ProtocolInvariant
<1> SUFFICES ASSUME Init PROVE ProtocolInvariant
  OBVIOUS
<1> USE Ranges
<1>1. Transfer("cmd", 0, 0, 0) \in OutTransfers /\ None \in InTransfers
  OBVIOUS
<1>2. u \in Statics
  BY <1>1 DEF Init, Statics, States, Requests
<1>3. /\ rbuf \in [Buf -> [Slots -> Cells]] /\ wbuf \in [Buf -> [Slots -> Cells]]
      /\ storage \in [Sectors -> Cells]
  BY DEF Init, Cells
<1>4. worker \in Workers /\ host \in Hosts
  BY DEF Init, Workers, Hosts, States, Idle
<1>5. ghost \in Ghosts
  BY DEF Init, Ghosts, Cells
<1>6. Types
  BY <1>2, <1>3, <1>4, <1>5 DEF Types
<1>7. Listening
  BY DEF Init, Listening, Command, NothingAsked, Elsewhere, Idle
<1>8. Filled
  BY DEF Init, Filled, InsideDisk
<1>9. Protocol
  BY <1>7, <1>8 DEF Protocol, InPhase
<1>10. ErrorExcused /\ Reported
  BY DEF Init, ErrorExcused, Reported
<1> QED
  BY <1>6, <1>9, <1>10 DEF ProtocolInvariant

-----------------------------------------------------------------------------
(* The steps.  First what they have in common.                             *)

\* A step that is nobody's turn: the phase stays.
SameTurn ==
    /\ SamePipes(u', u) /\ SameCommand(u', u)
    /\ u'.sat_pending = u.sat_pending /\ u'.read_blocked = u.read_blocked
    /\ u'.writebuf_overrun = u.writebuf_overrun /\ u'.writebuf_current = u.writebuf_current
    /\ u'.readbuf_current = u.readbuf_current /\ u'.readbuf_sector = u.readbuf_sector
    /\ \A i \in Buf : u.readbuf_count[i] # 0 \/ (~u.read_blocked /\ i # u.readbuf_current) =>
         u'.readbuf_count[i] = u.readbuf_count[i]
    /\ host' = host /\ ghost'.relistened = ghost.relistened

\* Such a step keeps the phase.
LEMMA TurnStays ==
    ASSUME SameTurn, u \in Statics, InPhase, Elsewhere, Elsewhere'
    PROVE  InPhase'
<1> DEFINE i == u.in.buf
<1>1. /\ u.readbuf_current \in Buf /\ 1 - u.readbuf_current \in Buf
      /\ 1 - u.readbuf_current # u.readbuf_current
  BY StaticsNumbers DEF Buf
<1>2. NothingAsked => NothingAsked' /\ u'.readbuf_count[1 - u.readbuf_current]
                                         = u.readbuf_count[1 - u.readbuf_current]
  BY <1>1 DEF NothingAsked, SameTurn
<1>3. Reading => Reading'
  BY DEF Reading, SameTurn, SamePipes, SameCommand
<1>4. BlockSent => BlockSent'
  BY DEF BlockSent, SameTurn, SamePipes, Here, Wraps
<1>5. ResultSent => ResultSent'
  BY DEF ResultSent, SameTurn, SamePipes
<1>6. Listening => Listening'
  BY <1>2 DEF Listening, SameTurn, SamePipes
<1>7. Quiet => Quiet'
  BY <1>2 DEF Quiet, SameTurn, SamePipes
<1>8. Status => Status'
  BY <1>2 DEF Status, SameTurn, SamePipes
<1>9. Relistened => Relistened'
  BY <1>2 DEF Relistened, SameTurn, SamePipes
<1>10. SendingResult => SendingResult'
  BY <1>2, <1>5 DEF SendingResult, SameTurn, SamePipes, SameCommand
<1>11. SendingBlocks => SendingBlocks'
  BY <1>3, <1>4 DEF SendingBlocks, SameTurn, SamePipes, SameCommand, At, Here, Rest
<1>12. ReadWait => ReadWait'
  BY <1>3 DEF ReadWait, SameTurn, SamePipes, SameCommand, At, Here, Rest
<1>13. Receiving => Receiving'
  BY <1>2 DEF Receiving, SameTurn, SamePipes, SameCommand, At, Here, Rest
<1>14. Overrun => Overrun'
  BY DEF Overrun, SameTurn, SamePipes, SameCommand, At, Here, Rest
<1>15. SatReceiving => SatReceiving'
  BY <1>2 DEF SatReceiving, SameTurn, SamePipes, SameCommand
<1>16. SatWaiting => SatWaiting'
  BY <1>1 DEF SatWaiting, SameTurn, SamePipes, SameCommand
<1>17. ~NotingBlock /\ ~NotingResult
  BY DEF Elsewhere, NotingBlock, NotingResult
<1> QED
  BY <1>6, <1>7, <1>8, <1>9, <1>10, <1>11, <1>12, <1>13, <1>14, <1>15, <1>16, <1>17 DEF InPhase

\* A step of the thread that leaves the statics, the buffers and the history alone.
LEMMA IdleStep ==
    ASSUME ProtocolInvariant, Runs, worker' \in Workers, Elsewhere, Elsewhere',
           u' = u, UNCHANGED <<wbuf, storage, host>>,
           rbuf' = rbuf, ghost' \in Ghosts, ghost'.unreported = ghost.unreported,
           ghost'.overtaken = ghost.overtaken, ghost'.relistened = ghost.relistened,
           Filled => Filled'
    PROVE  ProtocolInvariant' /\ StepReports /\ CachesStay
<1>1. Types'
  BY DEF ProtocolInvariant, Types
<1>2. SameTurn
  BY DEF SameTurn, SamePipes, SameCommand
<1>3. ~ghost.overtaken /\ InPhase /\ Filled
  BY DEF ProtocolInvariant, Protocol, Runs, Astray
<1>4. u \in Statics
  BY DEF ProtocolInvariant, Types
<1>5. Protocol'
  BY <1>2, <1>3, <1>4, TurnStays DEF Protocol
<1>6. ErrorExcused' /\ Reported'
  BY DEF ProtocolInvariant, ErrorExcused, Reported
<1>7. StepReports /\ CachesStay
  BY DEF StepReports, CachesStay
<1> QED
  BY <1>1, <1>5, <1>6, <1>7 DEF ProtocolInvariant
-----------------------------------------------------------------------------
(* The steps of the thread.                                                *)

\* worker_checks, worker_times_out, worker_reads: the loop's own steps.
LEMMA CheckStep ==
    ASSUME ProtocolInvariant, Runs, worker_checks
    PROVE  ProtocolInvariant' /\ StepReports /\ CachesStay
<1>1. worker \in Workers /\ ghost \in Ghosts
  BY DEF ProtocolInvariant, Types
<1>2. worker' \in Workers /\ worker'.pc \in {"exit", "wait"}
  BY <1>1 DEF worker_checks, Goto, Workers
<1>3. Elsewhere /\ Elsewhere' /\ (Filled => Filled')
  BY <1>2 DEF worker_checks, Elsewhere, Filled
<1> QED
  BY <1>1, <1>2, <1>3, IdleStep DEF worker_checks

\* The wait ends: the disk was ejected.
LEMMA TimeoutStep ==
    ASSUME ProtocolInvariant, Runs, worker_times_out
    PROVE  ProtocolInvariant' /\ StepReports /\ CachesStay
<1>1. worker \in Workers /\ ghost \in Ghosts
  BY DEF ProtocolInvariant, Types
<1>2. worker' \in Workers /\ worker'.pc = "exit"
  BY <1>1 DEF worker_times_out, Goto, Workers
<1>3. Elsewhere /\ Elsewhere' /\ (Filled => Filled')
  BY <1>2 DEF worker_times_out, Elsewhere, Filled
<1> QED
  BY <1>1, <1>2, <1>3, IdleStep DEF worker_times_out

\* The thread looks whether the newest buffer is empty.
LEMMA ReadStep ==
    ASSUME ProtocolInvariant, Runs, worker_reads
    PROVE  ProtocolInvariant' /\ StepReports /\ CachesStay
<1>1. worker \in Workers /\ ghost \in Ghosts /\ u \in Statics
  BY DEF ProtocolInvariant, Types
<1> DEFINE c == u.readbuf_current
           H == ghost.hit \cup {c} \X NotStored
<1>2. c \in Buf /\ u.readbuf_sector[c] \in Sectors
  BY <1>1 DEF Statics
<1>3. H \in SUBSET (Buf \X Sectors)
  BY <1>1, <1>2 DEF Ghosts, NotStored
<1>4. ghost' = [ghost EXCEPT !.hit = H]
  BY DEF worker_reads
<1> HIDE DEF H
<1>5. /\ ghost' \in Ghosts /\ ghost'.unreported = ghost.unreported
      /\ ghost'.overtaken = ghost.overtaken /\ ghost'.relistened = ghost.relistened
  BY <1>1, <1>3, <1>4 DEF Ghosts
<1>6. /\ worker' \in Workers /\ worker'.pc \in {"answer", "reading"} /\ worker.pc = "read"
      /\ worker'.pc = "reading" =>
           u.readbuf_count[c] = 0 /\ worker'.c = c /\ worker'.sector = u.readbuf_sector[c]
  BY <1>1, <1>2 DEF worker_reads, Workers
<1>7. Elsewhere /\ Elsewhere'
  BY <1>6 DEF Elsewhere
<1>8. Filled => Filled'
  BY <1>6 DEF worker_reads, Filled, InsideDisk
<1> QED
  BY <1>5, <1>6, <1>7, <1>8, IdleStep DEF worker_reads


\* A step of the thread that changes statics of its own.
LEMMA TurnStep ==
    ASSUME ProtocolInvariant, Runs, Types', SameTurn, Elsewhere, Elsewhere',
           Filled => Filled', u'.error = u.error,
           ghost'.overtaken = ghost.overtaken,
           ghost'.unreported => (ghost.unreported /\ (u.write_rc => u'.write_rc)) \/ u'.write_rc
    PROVE  ProtocolInvariant' /\ StepReports
<1>1. ~ghost.overtaken /\ InPhase /\ Filled
  BY DEF ProtocolInvariant, Protocol, Runs, Astray
<1>2. u \in Statics
  BY DEF ProtocolInvariant, Types
<1>3. Protocol'
  BY <1>1, <1>2, TurnStays DEF Protocol
<1>4. ErrorExcused'
  BY DEF ProtocolInvariant, ErrorExcused, SameTurn
<1>5. Reported'
  BY DEF ProtocolInvariant, Reported
<1>6. StepReports
  BY DEF StepReports, SameTurn, SamePipes
<1> QED
  BY <1>3, <1>4, <1>5, <1>6 DEF ProtocolInvariant

\* The wakeup is taken.
LEMMA WakeStep ==
    ASSUME ProtocolInvariant, Runs, worker_wakes
    PROVE  ProtocolInvariant' /\ StepReports /\ CachesStay /\ SameWrites(u', u)
<1>1. u \in Statics /\ worker \in Workers /\ u' = [u EXCEPT !.signalled = FALSE]
  BY DEF ProtocolInvariant, Types, worker_wakes
<1>2. u' \in Statics
  BY <1>1 DEF Statics
<1>3. /\ SameRest(u', u) /\ SameCommand(u', u) /\ SamePipes(u', u) /\ SameFaults(u', u)
  BY <1>1, StaticsShape DEF StaticFields, SameRest, SameReads, SameWrites, SameCommand, SamePipes, SameFaults
<1>4. worker' \in Workers /\ worker.pc = "wait" /\ worker'.pc = "push"
  BY <1>1 DEF worker_wakes, Goto, Workers
<1>5. Types'
  BY <1>2, <1>4 DEF ProtocolInvariant, Types, worker_wakes
<1>6. SameTurn
  BY <1>3 DEF SameTurn, SameRest, SameReads, SameWrites, worker_wakes
<1>7. Elsewhere /\ Elsewhere' /\ (Filled => Filled')
  BY <1>3, <1>4 DEF Elsewhere, Filled, InsideDisk, SameRest, SameReads
<1>8. CachesStay
  BY <1>3 DEF CachesStay, SameRest, SameReads
<1> QED
  BY <1>3, <1>5, <1>6, <1>7, <1>8, TurnStep DEF worker_wakes, SameFaults, SameRest, SameWrites

\* A failed store is noted in write_rc.
LEMMA StoreStep ==
    ASSUME ProtocolInvariant, Runs, worker_stores
    PROVE  /\ ProtocolInvariant' /\ StepReports /\ CachesStay
           /\ u'.writebuf_current = u.writebuf_current /\ u'.writebuf_busy = u.writebuf_busy
           /\ u'.writebuf_sector = u.writebuf_sector /\ u'.writebuf_count = u.writebuf_count
           /\ u'.writebuf_overrun = u.writebuf_overrun
           /\ u'.sector = u.sector /\ u'.length = u.length
<1>1. u \in Statics /\ worker \in Workers /\ ghost \in Ghosts /\ storage \in [Sectors -> Cells]
      /\ wbuf \in [Buf -> [Slots -> Cells]]
  BY DEF ProtocolInvariant, Types
<1> DEFINE stored == [s \in Sectors |->
                        IF s \in Storing
                        THEN wbuf[u.writebuf_current][s - u.writebuf_sector]
                        ELSE storage[s]]
<1>2. stored \in [Sectors -> Cells]
  <2>1. u.writebuf_sector \in 0..NumSectors /\ u.writebuf_count \in 0..BufSectors
    BY <1>1 DEF Statics
  <2>2. \A s \in Sectors : s \in Storing => s - u.writebuf_sector \in Slots
    <3>1. u.writebuf_sector \in Nat /\ u.writebuf_count \in Nat /\ u.writebuf_count <= BufSectors
      BY <2>1, Constants
    <3>2. \A a, c, x \in Nat : x \in a..a + c - 1 => x - a \in Nat /\ x - a < c
      OBVIOUS
    <3>3. \A x \in Sectors : x \in Nat
      BY Constants
    <3> HIDE DEF stored
    <3> QED
      BY <3>1, <3>2, <3>3, Constants DEF Storing
  <2>3. u.writebuf_current \in Buf
    BY <1>1 DEF Statics
  <2> QED
    BY <1>1, <2>2, <2>3
<1>3. PICK ok \in BOOLEAN :
        /\ u' = StoreResult(ok)
        /\ \/ /\ ok
              /\ storage' = stored
              /\ ghost' = [ghost EXCEPT !.lost = @ \ Storing]
           \/ /\ ~ok
              /\ storage' \in {storage, stored}
              /\ ghost' = [ghost EXCEPT
                             !.odd = @ + 1,
                             !.unreported = TRUE,
                             !.lost = @ \cup Storing,
                             !.acked = [s \in Sectors |-> @[s] \cup {storage'[s]}]]
  BY DEF worker_stores
<1>4. storage' \in [Sectors -> Cells]
  BY <1>1, <1>2, <1>3
<1> HIDE DEF stored
<1>5. u' = [u EXCEPT !.write_rc = u.write_rc \/ ~ok]
  BY <1>3 DEF StoreResult
<1>6. u' \in Statics
  <2>1. \A b \in BOOLEAN : [u EXCEPT !.write_rc = b] \in Statics
    BY <1>1 DEF Statics
  <2> QED
    BY <1>5, <2>1
<1>7. /\ SameReads(u', u) /\ SameCommand(u', u) /\ SamePipes(u', u) /\ SameFaults(u', u)
      /\ u'.sat_pending = u.sat_pending
      /\ u'.writebuf_current = u.writebuf_current /\ u'.writebuf_busy = u.writebuf_busy
      /\ u'.writebuf_sector = u.writebuf_sector /\ u'.writebuf_count = u.writebuf_count
      /\ u'.writebuf_overrun = u.writebuf_overrun
  BY <1>1, <1>5 DEF Statics, SameReads, SameCommand, SamePipes, SameFaults
<1>8. u'.write_rc = (u.write_rc \/ ~ok)
  BY <1>1, <1>5 DEF Statics
<1>9. /\ ghost' \in Ghosts /\ ghost'.overtaken = ghost.overtaken
      /\ ghost'.relistened = ghost.relistened
      /\ ok => ghost'.unreported = ghost.unreported
  <2>1. u.writebuf_sector \in 0..NumSectors /\ u.writebuf_count \in 0..BufSectors
    BY <1>1 DEF Statics
  <2>2. Storing \in SUBSET Int
    BY <2>1 DEF Storing
  <2>3. CASE ok
    <3> DEFINE L == ghost.lost \ Storing
    <3>1. L \in SUBSET Int
      BY <1>1 DEF Ghosts
    <3>2. ghost' = [ghost EXCEPT !.lost = L]
      BY <1>3, <2>3
    <3> HIDE DEF L
    <3> QED
      BY <1>1, <3>1, <3>2 DEF Ghosts
  <2>4. CASE ~ok
    <3> DEFINE L == ghost.lost \cup Storing
               A == [s \in Sectors |-> ghost.acked[s] \cup {storage'[s]}]
               o == ghost.odd + 1
    <3> ghost.lost \in SUBSET Int /\ ghost.odd \in Nat
      BY <1>1 DEF Ghosts
    <3>0. o \in Nat
      OBVIOUS
    <3>1. L \in SUBSET Int
      BY <2>2
    <3>2. A \in [Sectors -> SUBSET Cells]
      BY <1>1, <1>4 DEF Ghosts
    <3>3. ghost' = [ghost EXCEPT !.odd = o, !.unreported = TRUE, !.lost = L, !.acked = A]
      BY <1>3, <2>4
    <3> HIDE DEF L, A, o
    <3>4. ghost' \in Ghosts
      BY <1>1, <3>0, <3>1, <3>2, <3>3 DEF Ghosts
    <3>5. ghost'.overtaken = ghost.overtaken /\ ghost'.relistened = ghost.relistened
      BY <1>1, <3>3 DEF Ghosts
    <3> QED
      BY <2>4, <3>4, <3>5
  <2> QED
    BY <2>3, <2>4
<1>10. worker' \in Workers /\ worker.pc = "store" /\ worker'.pc = "release"
  BY <1>1 DEF worker_stores, Goto, Workers
<1>11. Types'
  BY <1>4, <1>6, <1>9, <1>10 DEF ProtocolInvariant, Types, worker_stores
<1>12. SameTurn
  BY <1>7, <1>9 DEF SameTurn, SameReads, worker_stores
<1>13. Elsewhere /\ Elsewhere' /\ (Filled => Filled')
  BY <1>7, <1>10 DEF Elsewhere, Filled, InsideDisk, SameReads
<1>14. CachesStay
  BY <1>7 DEF CachesStay, SameReads
<1>15. ghost'.unreported => (ghost.unreported /\ (u.write_rc => u'.write_rc)) \/ u'.write_rc
  BY <1>3, <1>8, <1>9
<1> QED
  BY <1>7, <1>9, <1>11, <1>12, <1>13, <1>14, <1>15, TurnStep DEF SameFaults, SameCommand


\* The busy buffer is given back.
LEMMA ReleaseStep ==
    ASSUME ProtocolInvariant, Runs, worker_releases
    PROVE  /\ ProtocolInvariant' /\ StepReports /\ CachesStay
           /\ u'.writebuf_current = u.writebuf_current
           /\ u'.writebuf_sector = u.writebuf_sector /\ u'.writebuf_count = u.writebuf_count
           /\ u'.writebuf_overrun = u.writebuf_overrun
           /\ u'.sector = u.sector /\ u'.length = u.length
           /\ ~u'.writebuf_busy
<1> DEFINE b == u.writebuf_busy /\ worker.pc = "store"
<1>1. u \in Statics /\ worker \in Workers /\ u' = [u EXCEPT !.writebuf_busy = b]
  BY DEF ProtocolInvariant, Types, worker_releases
<1>2. b \in BOOLEAN /\ ~b
  BY DEF worker_releases
<1> HIDE DEF b
<1>3. u' \in Statics
  BY <1>1, <1>2 DEF Statics
<1>4. /\ SameReads(u', u) /\ SameCommand(u', u) /\ SamePipes(u', u) /\ SameFaults(u', u)
      /\ u'.sat_pending = u.sat_pending
      /\ u'.writebuf_current = u.writebuf_current
      /\ u'.writebuf_sector = u.writebuf_sector /\ u'.writebuf_count = u.writebuf_count
      /\ u'.writebuf_overrun = u.writebuf_overrun
      /\ u'.writebuf_busy = b
  BY <1>1, StaticsShape DEF StaticFields, SameReads, SameCommand, SamePipes, SameFaults
<1>5. u'.write_rc = u.write_rc
  BY <1>1 DEF Statics
<1>6. worker' \in Workers /\ worker.pc \in {"store", "release"} /\ worker'.pc = "read"
  BY <1>1 DEF worker_releases, Goto, Workers
<1>7. Types'
  BY <1>3, <1>6 DEF ProtocolInvariant, Types, worker_releases
<1>8. SameTurn
  BY <1>4 DEF SameTurn, SameReads, worker_releases
<1>9. Elsewhere /\ Elsewhere' /\ (Filled => Filled')
  BY <1>4, <1>6 DEF Elsewhere, Filled, InsideDisk, SameReads
<1>10. CachesStay
  BY <1>4 DEF CachesStay, SameReads
<1> QED
  BY <1>2, <1>4, <1>5, <1>7, <1>8, <1>9, <1>10, TurnStep
     DEF SameFaults, SameCommand, worker_releases

\* The buffer is filled, or the storage has failed.
LEMMA FillStep ==
    ASSUME ProtocolInvariant, Runs, worker_fills
    PROVE  ProtocolInvariant' /\ StepReports /\ CachesStay
<1>1. /\ worker \in Workers /\ ghost \in Ghosts /\ storage \in [Sectors -> Cells]
      /\ rbuf \in [Buf -> [Slots -> Cells]]
  BY DEF ProtocolInvariant, Types
<1>2. worker.c \in Buf /\ worker.sector \in Sectors
  BY <1>1 DEF Workers
<1>3. Fill \in 1..BufSectors /\ worker.sector + Fill <= NumSectors
  BY <1>2, Ranges DEF Fill, Lesser
<1>4. ~ghost.overtaken /\ Filled
  BY DEF ProtocolInvariant, Protocol, Runs, Astray
<1>5. /\ rbuf' \in [Buf -> [Slots -> Cells]]
      /\ worker' \in Workers /\ worker.pc = "reading" /\ worker'.pc = "filled"
      /\ worker'.c = worker.c /\ worker'.sector = worker.sector
      /\ worker'.sector + worker'.count <= NumSectors
      /\ ghost' \in Ghosts /\ ghost'.unreported = ghost.unreported
      /\ ghost'.overtaken = ghost.overtaken /\ ghost'.relistened = ghost.relistened
  <2>1. CASE /\ rbuf' = [rbuf EXCEPT ![worker.c] =
                          [k \in Slots |-> IF k < Fill THEN storage[worker.sector + k] ELSE @[k]]]
             /\ worker' = [worker EXCEPT !.pc = "filled", !.count = Fill]
             /\ ghost' = ghost
    <3> DEFINE R == [k \in Slots |-> IF k < Fill THEN storage[worker.sector + k]
                                     ELSE rbuf[worker.c][k]]
    <3>1. \A k \in Slots : k < Fill => worker.sector + k \in Sectors
      BY <1>2, <1>3, Ranges
    <3>2. R \in [Slots -> Cells]
      BY <1>1, <1>2, <3>1
    <3>3. rbuf' = [rbuf EXCEPT ![worker.c] = R]
      BY <2>1
    <3> HIDE DEF R
    <3>4. rbuf' \in [Buf -> [Slots -> Cells]]
      BY <1>1, <3>2, <3>3
    <3>5. Fill \in -1..BufSectors
      BY <1>3, Ranges
    <3>6. worker' \in Workers
      BY <1>1, <2>1, <3>5 DEF Workers
    <3>7. /\ worker'.pc = "filled" /\ worker'.c = worker.c /\ worker'.sector = worker.sector
          /\ worker'.count = Fill
      BY <1>1, <2>1 DEF Workers
    <3> QED
      BY <1>1, <1>3, <2>1, <3>4, <3>6, <3>7 DEF worker_fills
  <2>2. CASE /\ rbuf' = [rbuf EXCEPT ![worker.c] = [k \in Slots |-> Foreign]]
             /\ worker' = [worker EXCEPT !.pc = "filled", !.count = -1]
             /\ ghost' = [ghost EXCEPT !.odd = @ + 1]
    <3>1. [k \in Slots |-> Foreign] \in [Slots -> Cells]
      BY Ranges
    <3>2. rbuf' \in [Buf -> [Slots -> Cells]]
      BY <1>1, <2>2, <3>1
    <3>3. -1 \in -1..BufSectors
      BY Ranges
    <3>4. worker' \in Workers
      BY <1>1, <2>2, <3>3 DEF Workers
    <3>5. /\ worker'.pc = "filled" /\ worker'.c = worker.c /\ worker'.sector = worker.sector
          /\ worker'.count = -1
      BY <1>1, <2>2 DEF Workers
    <3>6. worker.sector - 1 <= NumSectors
      BY <1>2, Ranges
    <3>7. ghost' \in Ghosts
      BY <1>1, <2>2 DEF Ghosts
    <3>8. /\ ghost'.unreported = ghost.unreported
          /\ ghost'.overtaken = ghost.overtaken /\ ghost'.relistened = ghost.relistened
      BY <1>1, <2>2 DEF Ghosts
    <3>9. worker'.sector + worker'.count <= NumSectors
      BY <1>2, <3>5, <3>6, Ranges
    <3> QED
      BY <3>2, <3>4, <3>5, <3>7, <3>8, <3>9 DEF worker_fills
  <2> QED
    BY <2>1, <2>2 DEF worker_fills
<1>6. u' = u /\ UNCHANGED <<wbuf, storage, host>>
  BY DEF worker_fills
<1>7. Elsewhere /\ Elsewhere' /\ (Filled => Filled')
  BY <1>5, <1>6 DEF Elsewhere, Filled, InsideDisk
<1>8. Types'
  BY <1>5, <1>6 DEF ProtocolInvariant, Types
<1>9. SameTurn
  BY <1>5, <1>6 DEF SameTurn, SamePipes, SameCommand
<1>10. CachesStay
  BY <1>6 DEF CachesStay
<1> QED
  BY <1>5, <1>6, <1>7, <1>8, <1>9, <1>10, TurnStep

\* The count of the buffer that was filled is set: it is not in use.
LEMMA CommitStep ==
    ASSUME ProtocolInvariant, Runs, worker_commits
    PROVE  /\ ProtocolInvariant' /\ StepReports /\ SameWrites(u', u)
           /\ u'.sector = u.sector /\ u'.length = u.length
           /\ u'.readbuf_sector = u.readbuf_sector
           /\ \A i \in Buf : u'.readbuf_count[i] = IF i = worker.c THEN worker.count
                                                   ELSE u.readbuf_count[i]
<1>1. u \in Statics /\ worker \in Workers /\ ~ghost.overtaken /\ Filled
  BY DEF ProtocolInvariant, Types, Protocol, Runs, Astray
<1>2. /\ worker.c \in Buf /\ worker.count \in -1..BufSectors
      /\ u.readbuf_count \in [Buf -> -1..BufSectors] /\ u.readbuf_sector \in [Buf -> Sectors]
      /\ worker.pc = "filled"
  BY <1>1 DEF Statics, Workers, worker_commits
<1>3. /\ u.readbuf_count[worker.c] = 0 /\ worker.sector = u.readbuf_sector[worker.c]
      /\ ~u.read_blocked => worker.c = u.readbuf_current
      /\ worker.sector + worker.count <= NumSectors
  BY <1>1, <1>2 DEF Filled
<1> DEFINE C == [u.readbuf_count EXCEPT ![worker.c] = worker.count]
<1>4. u' = [u EXCEPT !.readbuf_count = C]
  BY <1>3 DEF worker_commits
<1>5. /\ C \in [Buf -> -1..BufSectors]
      /\ \A i \in Buf : C[i] = IF i = worker.c THEN worker.count ELSE u.readbuf_count[i]
  BY <1>2
<1> HIDE DEF C
<1>6. u' \in Statics
  BY <1>1, <1>4, <1>5 DEF Statics
<1>7. /\ SameWrites(u', u) /\ SameCommand(u', u) /\ SamePipes(u', u) /\ SameFaults(u', u)
      /\ u'.sat_pending = u.sat_pending
      /\ u'.readbuf_current = u.readbuf_current /\ u'.readbuf_sector = u.readbuf_sector
      /\ u'.read_blocked = u.read_blocked
  BY <1>1, <1>4 DEF Statics, SameWrites, SameCommand, SamePipes, SameFaults
<1>8. u'.readbuf_count = C
  BY <1>1, <1>4 DEF Statics
<1>9. \A i \in Buf : u'.readbuf_count[i] = IF i = worker.c THEN worker.count
                                           ELSE u.readbuf_count[i]
  BY <1>5, <1>8
<1>10. worker' \in Workers /\ worker'.pc = "answer"
  BY <1>1 DEF worker_commits, Goto, Workers
<1>11. Types'
  BY <1>6, <1>10 DEF ProtocolInvariant, Types, worker_commits
<1>12. \A i \in Buf : u.readbuf_count[i] # 0 \/ (~u.read_blocked /\ i # u.readbuf_current) =>
         u'.readbuf_count[i] = u.readbuf_count[i]
  BY <1>3, <1>9
<1>13. SameTurn
  BY <1>7, <1>12 DEF SameTurn, SameWrites, worker_commits
<1>14. InsideDisk(u')
  BY <1>1, <1>3, <1>7, <1>9 DEF InsideDisk, Filled
<1>15. Elsewhere /\ Elsewhere' /\ Filled'
  BY <1>2, <1>10, <1>14 DEF Elsewhere, Filled
<1> QED
  BY <1>7, <1>9, <1>11, <1>13, <1>15, TurnStep
     DEF SameFaults, SameCommand, SameWrites, worker_commits


\* A block that waited is pushed; the next is received, or the status sent.
LEMMA WorkerPushStep ==
    ASSUME ProtocolInvariant, Runs, worker_pushes
    PROVE  /\ ProtocolInvariant' /\ StepReports /\ CachesStay
           /\ ~u.writebuf_overrun => u' = u
           /\ u.writebuf_overrun => Overrun /\ Pushes(u', [u EXCEPT !.writebuf_overrun = FALSE])
<1>1. /\ u \in Statics /\ worker \in Workers /\ ghost \in Ghosts
      /\ ~ghost.overtaken /\ InPhase /\ Filled
  BY DEF ProtocolInvariant, Types, Protocol, Runs, Astray
<1>2. worker' \in Workers /\ worker.pc = "push" /\ worker'.pc = "store"
  BY <1>1 DEF worker_pushes, Goto, Workers
<1>3. Elsewhere /\ Elsewhere'
  BY <1>2 DEF Elsewhere
<1> DEFINE un == ghost.unreported /\ u'.in # Failed
           dr == ghost.dropped \/ (u.writebuf_overrun /\ u.writebuf_busy)
<1>4. ghost' = [ghost EXCEPT !.unreported = un, !.dropped = dr]
  BY DEF worker_pushes
<1>5. un \in BOOLEAN /\ dr \in BOOLEAN /\ (un => ghost.unreported)
  BY <1>1 DEF Ghosts, Statics
<1> HIDE DEF un, dr
<1>6. /\ ghost' \in Ghosts /\ ghost'.unreported = un
      /\ ghost'.overtaken = ghost.overtaken /\ ghost'.relistened = ghost.relistened
  BY <1>1, <1>4, <1>5 DEF Ghosts
<1>7. CASE ~u.writebuf_overrun
  <2>1. u' = u
    BY <1>7 DEF worker_pushes
  <2>2. Types'
    BY <1>2, <1>6, <2>1 DEF ProtocolInvariant, Types, worker_pushes
  <2>3. SameTurn
    BY <1>6, <2>1 DEF SameTurn, SamePipes, SameCommand, worker_pushes
  <2>4. Filled' /\ CachesStay
    BY <1>1, <1>2, <2>1 DEF Filled, InsideDisk, CachesStay
  <2> QED
    BY <1>3, <1>5, <1>6, <1>7, <2>1, <2>2, <2>3, <2>4, TurnStep
<1>8. CASE u.writebuf_overrun
  <2>1. Overrun
    BY <1>1, <1>8, WhoseTurn
  <2> DEFINE w == [u EXCEPT !.writebuf_overrun = FALSE]
  <2>2. w \in Statics
    BY <1>1 DEF Statics
  <2>3. /\ SameReads(w, u) /\ SameFaults(w, u) /\ SamePipes(w, u) /\ SameCommand(w, u)
        /\ w.sat_pending = u.sat_pending /\ w.writebuf_current = u.writebuf_current
    BY <1>1, StaticsShape DEF StaticFields, SameReads, SameFaults, SamePipes, SameCommand
  <2>4. w.write_rc = u.write_rc /\ ~w.writebuf_overrun
    BY <1>1 DEF Statics
  <2>5. u' = writebuf_push(w)
    BY <1>8 DEF worker_pushes
  <2>6. w.direction = "out" /\ w.sector + w.count <= NumSectors /\ w.count = w.pending + w.length
    BY <1>1, <2>1, <2>3 DEF Overrun, At, SameCommand
  <2> HIDE DEF w
  <2>7. u' \in Statics /\ Pushes(u', w)
    BY <2>2, <2>5, <2>6, PushDoes
  <2>8. Types'
    BY <1>2, <1>6, <2>7 DEF ProtocolInvariant, Types, worker_pushes
  <2>9. NothingAsked'
    BY <2>1, <2>3, <2>4, <2>7 DEF Pushes, NothingAsked, Overrun, SameReads
  <2>10. /\ host' = host /\ u'.stalled = {} /\ u'.direction = "out"
         /\ u'.sector = u.sector + u.length /\ u'.count = u.count - u.length
    BY <2>1, <2>3, <2>7 DEF Pushes, Overrun, SamePipes, SameCommand, worker_pushes
  <2>11. At(Here, Rest)'
    <3>1. /\ u.sector \in Nat /\ u.count \in Nat /\ u.length \in Nat
          /\ host.cmd.sector \in Nat /\ host.cmd.count \in Nat /\ host.got \in Nat
      BY <1>1, HostNumbers, StaticsNumbers DEF ProtocolInvariant
    <3> QED
      BY <2>1, <2>10, <3>1 DEF At, Here, Rest, Overrun
  <2>12. InPhase'
    <3>1. CASE /\ u'.count = 0 /\ u'.state = "WAITING_FOR_CSW_COMPLETION" /\ u'.out = w.out
               /\ u'.in = IF w.write_rc THEN Failed ELSE Passed
      <4>1. host.got = host.cmd.count
        <5>1. host.cmd.count \in Nat /\ host.got \in Nat
          BY HostNumbers DEF ProtocolInvariant
        <5> QED
          BY <2>10, <2>11, <3>1, <5>1 DEF At, Rest
      <4>2. Status'
        BY <1>3, <2>1, <2>3, <2>9, <2>10, <3>1, <4>1 DEF Status, Overrun, SamePipes
      <4> QED
        BY <4>2 DEF InPhase
    <3>2. CASE /\ u'.count > 0 /\ u'.state = "RECEIVING_BLOCKS" /\ u'.in = w.in
               /\ u'.length > 0 /\ u'.count = u'.pending + u'.length
               /\ u'.out = Transfer("block", 1 - u'.writebuf_current, 0, u'.length)
      <4>1. host.phase = "out"
        BY <2>1, <2>10, <2>11, <3>2 DEF Overrun, At, Rest
      <4>2. Receiving'
        BY <1>3, <2>1, <2>3, <2>9, <2>10, <2>11, <3>2, <4>1 DEF Receiving, Overrun, SamePipes
      <4> QED
        BY <4>2 DEF InPhase
    <3> QED
      BY <2>7, <3>1, <3>2 DEF Pushes
  <2>13. Filled' /\ CachesStay
    BY <1>1, <1>2, <2>3, <2>7 DEF Filled, InsideDisk, CachesStay, Pushes, SameReads
  <2>14. ErrorExcused'
    BY <1>6, <2>3, <2>7 DEF ProtocolInvariant, ErrorExcused, Pushes, SameFaults
  <2>15. u'.write_rc = u.write_rc
    BY <2>4, <2>7 DEF Pushes
  <2>16. Reported'
    BY <1>5, <1>6, <2>15 DEF ProtocolInvariant, Reported
  <2>17. StepReports
    BY <2>3, <2>4, <2>7, TransferTos DEF StepReports, Pushes, SamePipes
  <2> QED
    BY <1>8, <2>1, <2>7, <2>8, <2>12, <2>13, <2>14, <2>16, <2>17
       DEF ProtocolInvariant, Protocol, w
<1> QED
  BY <1>7, <1>8

\* state = ... after the transfer has been started.
LEMMA NoteStateStep ==
    ASSUME ProtocolInvariant, Runs, worker_sets_state
    PROVE  ProtocolInvariant' /\ StepReports /\ CachesStay /\ SameWrites(u', u)
           /\ u'.sector = u.sector /\ u'.length = u.length
<1>1. /\ u \in Statics /\ worker \in Workers /\ ghost \in Ghosts
      /\ ~ghost.overtaken /\ InPhase /\ Filled
  BY DEF ProtocolInvariant, Types, Protocol, Runs, Astray
<1>2. /\ worker.pc = "sent" /\ u' = [u EXCEPT !.state = worker.state]
      /\ rbuf' = rbuf /\ wbuf' = wbuf /\ storage' = storage /\ host' = host /\ ghost' = ghost
  BY DEF worker_sets_state
<1>3. u' \in Statics
  BY <1>1, <1>2 DEF Statics, Workers
<1>4. /\ SameRest(u', u) /\ SameCommand(u', u) /\ SameFaults(u', u)
      /\ u'.in = u.in /\ u'.out = u.out /\ u'.stalled = u.stalled /\ u'.state = worker.state
  BY <1>1, <1>2 DEF Statics, SameRest, SameReads, SameWrites, SameCommand, SameFaults
<1>5. /\ worker' \in Workers
      /\ worker'.pc = IF worker.state = "SENDING_BLOCKS" THEN "counted" ELSE "check"
      /\ worker'.size = worker.size /\ worker'.state = worker.state
  BY <1>1 DEF worker_sets_state, Goto, Workers
<1>6. Types'
  BY <1>2, <1>3, <1>5 DEF ProtocolInvariant, Types
<1>7. NotingBlock \/ NotingResult
  BY <1>1, <1>2, WhoseTurn DEF Elsewhere
<1>8. NothingAsked' <=> NothingAsked
  BY <1>4 DEF NothingAsked, SameRest, SameReads, SameWrites
<1>9. InPhase'
  <2>1. CASE NotingBlock
    <3>1. Reading'
      BY <1>2, <1>4, <2>1
         DEF NotingBlock, Reading, SameRest, SameReads, SameWrites, SameCommand
    <3>2. BlockSent'
      BY <1>2, <1>4, <2>1 DEF NotingBlock, BlockSent, SameRest, SameReads, Here, Wraps
    <3>3. NotingBlock'
      BY <1>2, <1>4, <1>5, <2>1, <3>1, <3>2
         DEF NotingBlock, SameRest, SameReads, SameCommand, At, Here, Rest
    <3> QED
      BY <3>3 DEF InPhase
  <2>2. CASE NotingResult
    <3>1. Elsewhere'
      BY <1>5, <2>2 DEF NotingResult, Elsewhere
    <3>2. SendingResult'
      BY <1>2, <1>4, <1>8, <2>2, <3>1
         DEF NotingResult, SendingResult, ResultSent, SameRest, SameReads, SameCommand
    <3> QED
      BY <3>2 DEF InPhase
  <2> QED
    BY <1>7, <2>1, <2>2
<1>10. Filled' /\ CachesStay
  BY <1>1, <1>2, <1>4, <1>5 DEF Filled, InsideDisk, CachesStay, SameRest, SameReads
<1>11. ErrorExcused' /\ Reported'
  BY <1>2, <1>4
     DEF ProtocolInvariant, ErrorExcused, Reported, SameFaults, SameRest, SameWrites
<1>12. StepReports
  BY <1>4 DEF StepReports
<1> QED
  BY <1>4, <1>6, <1>9, <1>10, <1>11, <1>12
     DEF ProtocolInvariant, Protocol, SameRest, SameCommand

\* sector and count are moved on after the block has been started.
LEMMA CountStep ==
    ASSUME ProtocolInvariant, Runs, worker_counts
    PROVE  ProtocolInvariant' /\ StepReports /\ CachesStay /\ SameWrites(u', u)
           /\ ~u.writebuf_overrun
<1>1. /\ u \in Statics /\ worker \in Workers /\ ghost \in Ghosts
      /\ ~ghost.overtaken /\ InPhase /\ Filled
  BY DEF ProtocolInvariant, Types, Protocol, Runs, Astray
<1>2. /\ worker.pc = "counted"
      /\ u' = [u EXCEPT !.sector = u.sector + worker.size, !.count = u.count - worker.size]
      /\ rbuf' = rbuf /\ wbuf' = wbuf /\ storage' = storage /\ host' = host /\ ghost' = ghost
  BY DEF worker_counts
<1>3. NotingBlock
  BY <1>1, <1>2, WhoseTurn DEF Elsewhere, NotingResult
<1>4. /\ u.sector \in 0..NumSectors /\ u.count \in 0..NumSectors /\ u.pending \in 0..NumSectors + 1
      /\ worker.size \in 0..NumSectors /\ u.in.size = worker.size
      /\ host.cmd.sector \in Sectors /\ host.cmd.count \in 0..NumSectors /\ host.got \in Nat
  BY <1>1, <1>3, HostNumbers, StaticsNumbers DEF Workers, NotingBlock, ProtocolInvariant
<1>5. /\ u.sector = Here /\ u.count = Rest /\ Here + Rest <= NumSectors
      /\ u.count = u.pending + worker.size
  BY <1>3, <1>4 DEF NotingBlock, At
<1>6. u.sector + worker.size \in 0..NumSectors /\ u.count - worker.size \in 0..NumSectors
  <2>1. /\ u.sector \in Nat /\ u.count \in Nat /\ u.pending \in Nat /\ worker.size \in Nat
        /\ NumSectors \in Nat
    BY <1>4, DiskAssumption
  <2>2. u.sector + u.count <= NumSectors /\ u.count = u.pending + worker.size
    BY <1>5
  <2> QED
    BY <2>1, <2>2
<1>7. u' \in Statics
  BY <1>1, <1>2, <1>6 DEF Statics
<1>8. /\ SameRest(u', u) /\ SameFaults(u', u) /\ SamePipes(u', u)
      /\ u'.pending = u.pending /\ u'.direction = u.direction /\ u'.length = u.length
      /\ u'.sector = u.sector + worker.size /\ u'.count = u.count - worker.size
  BY <1>1, <1>2 DEF Statics, SameRest, SameReads, SameWrites, SamePipes, SameFaults
<1>9. worker' \in Workers /\ worker'.pc = "sat"
  BY <1>1 DEF worker_counts, Goto, Workers
<1>10. Types'
  BY <1>2, <1>7, <1>9 DEF ProtocolInvariant, Types
<1>11. SendingBlocks'
  <2>1. Reading'
    BY <1>2, <1>3, <1>8
       DEF NotingBlock, Reading, SameRest, SameReads, SameWrites, SamePipes
  <2>2. BlockSent'
    BY <1>2, <1>3, <1>8
       DEF NotingBlock, BlockSent, SameRest, SameReads, SamePipes, Here, Wraps
  <2>3. At(Here + u.in.size, Rest - u.in.size)' /\ u'.pending = u'.count
    BY <1>2, <1>4, <1>5, <1>8 DEF At, Here, Rest, SamePipes
  <2> QED
    BY <1>2, <1>3, <1>8, <1>9, <2>1, <2>2, <2>3
       DEF NotingBlock, SendingBlocks, SameRest, SameReads, SamePipes, Elsewhere
<1>12. Filled' /\ CachesStay
  BY <1>1, <1>2, <1>8, <1>9 DEF Filled, InsideDisk, CachesStay, SameRest, SameReads
<1>13. ErrorExcused' /\ Reported'
  BY <1>2, <1>8
     DEF ProtocolInvariant, ErrorExcused, Reported, SameFaults, SameRest, SameWrites
<1>14. StepReports
  BY <1>8 DEF StepReports, SamePipes
<1>15. ~u.writebuf_overrun
  BY <1>3 DEF NotingBlock, Reading
<1> QED
  BY <1>8, <1>10, <1>11, <1>12, <1>13, <1>14, <1>15
     DEF ProtocolInvariant, Protocol, SameRest, InPhase


\* The buffers hold what they held, or nothing.
Keeps(v, w) ==
    \A i \in Buf : v.readbuf_count[i] # 0 =>
        v.readbuf_sector[i] = w.readbuf_sector[i] /\ v.readbuf_count[i] = w.readbuf_count[i]

\* The newest buffer, if the thread is to fill it, is left to the thread.
FillStays(v, w) ==
    w.readbuf_count[w.readbuf_current] = 0 =>
        /\ v.readbuf_count[w.readbuf_current] = 0
        /\ v.readbuf_sector[w.readbuf_current] = w.readbuf_sector[w.readbuf_current]
        /\ ~v.read_blocked => v.readbuf_current = w.readbuf_current

\* What send_and_read_next does to the read buffers.
LEMMA NextKeeps ==
    ASSUME NEW v \in Statics, NEW w \in Statics, Waits(v, w) \/ Sends(v, w), InsideDisk(w)
    PROVE  Keeps(v, w) /\ InsideDisk(v) /\ FillStays(v, w)
<1>1. SameReadBuffers(v, w) \/ OtherTurned(v, w)
  BY DEF Waits, Sends, SendsFrom
<1>2. Keeps(v, w)
  BY <1>1 DEF Keeps, SameReadBuffers, OtherTurned
<1>3. InsideDisk(v)
  BY <1>2 DEF InsideDisk, Keeps
<1>4. w.readbuf_current \in Buf /\ w.readbuf_current # 1 - w.readbuf_current
  BY Ranges, StaticsNumbers
<1>5. FillStays(v, w)
  <2>1. CASE Waits(v, w)
    BY <1>4, <2>1 DEF FillStays, Waits, SameReadBuffers, OtherTurned
  <2>2. CASE Sends(v, w)
    BY <1>4, <2>2 DEF FillStays, Sends, SendsFrom, Fits, SameReadBuffers, OtherTurned
  <2> QED
    BY <2>1, <2>2
<1> QED
  BY <1>2, <1>3, <1>5

\* The answer of the thread: the status of a failed read, the next wait, or a block of
\* which sector, count and state are set by the two steps after this one.
LEMMA AnswerStep ==
    ASSUME ProtocolInvariant, Runs, worker_answers
    PROVE  /\ ProtocolInvariant' /\ StepReports /\ CachesStay /\ SameWrites(u', u)
           /\ u' = u \/ ~u.writebuf_overrun
<1>1. /\ u \in Statics /\ worker \in Workers /\ ghost \in Ghosts
      /\ ~ghost.overtaken /\ InPhase /\ Filled
  BY DEF ProtocolInvariant, Types, Protocol, Runs, Astray
<1>2. /\ worker.pc = "answer" /\ ghost' = [ghost EXCEPT !.hit = StillHit]
      /\ rbuf' = rbuf /\ wbuf' = wbuf /\ storage' = storage /\ host' = host
  BY DEF worker_answers
<1>3. StillHit \in SUBSET (Buf \X Sectors)
  BY <1>1 DEF Ghosts, StillHit
<1>4. /\ ghost' \in Ghosts /\ ghost'.unreported = ghost.unreported
      /\ ghost'.overtaken = ghost.overtaken /\ ghost'.relistened = ghost.relistened
  <2> HIDE DEF StillHit
  <2> QED
    BY <1>1, <1>2, <1>3 DEF Ghosts
<1>5. CASE ~u.read_blocked
  <2>1. u' = u
    BY <1>5 DEF worker_answers
  <2>2. worker' \in Workers /\ worker'.pc = "sat"
    BY <1>1, <1>5 DEF worker_answers, Goto, Workers
  <2>3. Elsewhere /\ Elsewhere'
    BY <1>2, <2>2 DEF Elsewhere
  <2>4. Filled => Filled'
    BY <2>1, <2>2 DEF Filled, InsideDisk
  <2> QED
    BY <1>2, <1>4, <2>1, <2>2, <2>3, <2>4, IdleStep DEF SameWrites
<1>6. CASE u.read_blocked
  <2>1. ReadWait
    BY <1>1, <1>6, WhoseTurn
  <2> DEFINE w == [u EXCEPT !.read_blocked = FALSE]
             v == IF u.readbuf_count[u.readbuf_current] < 0 THEN send_csw(w, Failed)
                  ELSE send_and_read_next(w)
             started == v.in.to = "block"
  <2>2. /\ u' = IF started THEN Started(v) ELSE v
        /\ worker' = [worker EXCEPT !.pc = IF started THEN "sent" ELSE "sat",
                                    !.state = v.state,
                                    !.size = v.in.size]
    BY <1>6 DEF worker_answers
  <2>3. w \in Statics
    BY <1>1 DEF Statics
  <2>4. /\ SameWrites(w, u) /\ SameFaults(w, u) /\ SamePipes(w, u) /\ SameCommand(w, u)
        /\ w.sat_pending = u.sat_pending /\ SameReadBuffers(w, u)
        /\ w.readbuf_current = u.readbuf_current
    BY <1>1, StaticsShape DEF StaticFields, SameWrites, SameFaults, SamePipes, SameCommand, SameReadBuffers
  <2>5. ~w.read_blocked
    BY <1>1 DEF Statics
  <2> HIDE DEF w
  <2>6. /\ Asking(w) /\ w.pending = w.count
    BY <2>1, <2>4, HostNumbers, StaticsNumbers
       DEF ReadWait, Reading, Asking, SameCommand, At
  <2>7. InsideDisk(w)
    BY <1>1, <2>4 DEF Filled, InsideDisk, SameReadBuffers
  <2>8. /\ u.in = None /\ w.in = None /\ w.out = None /\ w.stalled = {} /\ w.direction = "in"
        /\ ~w.writebuf_overrun /\ w.sat_pending = "SAT_PENDING_NONE" /\ ~u.writebuf_overrun
        /\ host.phase = "in" /\ host.cmd.kind = "read"
    BY <2>1, <2>4 DEF ReadWait, Reading, SamePipes, SameWrites, SameCommand
  <2>9. CASE u.readbuf_count[u.readbuf_current] < 0
    <3>1. v = send_csw(w, Failed)
      BY <2>9
    <3>2. /\ v \in Statics /\ SameRest(v, w) /\ SameCommand(v, w) /\ SameFaults(v, w)
          /\ v.state = "WAITING_FOR_CSW_COMPLETION" /\ v.in = Failed /\ v.out = w.out
          /\ v.stalled = IF w.pending > 0 THEN w.stalled \cup {w.direction} ELSE w.stalled
      <4> HIDE DEF v
      <4> QED
        BY <2>3, <3>1, CswDoes, Ranges
    <3> HIDE DEF v
    <3>3. ~started
      BY <3>2, TransferTos
    <3>4. v.in.size \in 0..NumSectors
      BY <3>2, Ranges DEF InTransfers, TransfersTo
    <3>5. /\ worker' \in Workers /\ worker'.pc = "sat" /\ u' = v
      BY <1>1, <2>2, <3>2, <3>3, <3>4 DEF Workers, Statics
    <3>6. Types'
      BY <1>2, <1>4, <3>2, <3>5 DEF ProtocolInvariant, Types
    <3>7. Status'
      BY <1>2, <2>5, <2>8, <3>2, <3>5, TransferTos
         DEF Status, NothingAsked, Elsewhere, SameRest, SameReads, SameWrites
    <3>8. Filled' /\ CachesStay
      BY <2>4, <2>7, <3>2, <3>5
         DEF Filled, InsideDisk, CachesStay, SameRest, SameReads, SameReadBuffers
    <3>9. SameWrites(u', u) /\ SameFaults(u', u)
      BY <2>4, <3>2, <3>5 DEF SameRest, SameWrites, SameFaults
    <3>10. ErrorExcused' /\ Reported'
      BY <1>4, <3>9 DEF ProtocolInvariant, ErrorExcused, Reported, SameFaults, SameWrites
    <3>11. StepReports
      BY <3>2, <3>5, TransferTos DEF StepReports
    <3> QED
      BY <1>4, <2>8, <3>6, <3>7, <3>8, <3>9, <3>10, <3>11 DEF ProtocolInvariant, Protocol, InPhase
  <2>10. CASE ~(u.readbuf_count[u.readbuf_current] < 0)
    <3>1. v = send_and_read_next(w)
      BY <2>10
    <3>2. v \in Statics /\ (Waits(v, w) \/ Sends(v, w))
      <4> HIDE DEF v
      <4> QED
        BY <2>3, <2>6, <2>7, <3>1, NextDoes
    <3> HIDE DEF v
    <3>3. /\ InsideDisk(v)
          /\ \A i \in Buf : v.readbuf_count[i] # 0 =>
               /\ v.readbuf_sector[i] = u.readbuf_sector[i]
               /\ v.readbuf_count[i] = u.readbuf_count[i]
      BY <2>3, <2>4, <2>7, <3>2, NextKeeps DEF SameReadBuffers, Keeps
    <3>4. SameWrites(v, u) /\ SameFaults(v, u)
      BY <2>4, <3>2 DEF Waits, Sends, SendsFrom, SameWrites, SameFaults
    <3>5. CASE Waits(v, w)
      <4>1. v.in = None /\ ~started
        BY <2>8, <3>5, TransferTos DEF Waits, SamePipes
      <4>2. v.in.size \in 0..NumSectors /\ v.state \in States
        BY <3>2, <4>1, Ranges DEF InTransfers, TransfersTo, Statics
      <4>3. worker' \in Workers /\ worker'.pc = "sat" /\ u' = v
        BY <1>1, <2>2, <4>1, <4>2 DEF Workers
      <4>4. Types'
        BY <1>2, <1>4, <3>2, <4>3 DEF ProtocolInvariant, Types
      <4>5. ReadWait'
        BY <1>2, <2>1, <2>4, <3>5, <4>3
           DEF ReadWait, Waits, Reading, SamePipes, SameCommand, SameWrites, At, Here, Rest, Elsewhere
      <4>6. Filled' /\ CachesStay
        BY <3>3, <4>3 DEF Filled, CachesStay
      <4>7. ErrorExcused' /\ Reported'
        BY <1>4, <3>4, <4>3 DEF ProtocolInvariant, ErrorExcused, Reported, SameFaults, SameWrites
      <4>8. StepReports
        BY <4>1, <4>3, TransferTos DEF StepReports
      <4> QED
        BY <2>8, <3>4, <4>3, <4>4, <4>5, <4>6, <4>7, <4>8 DEF ProtocolInvariant, Protocol, InPhase
    <3>6. CASE Sends(v, w)
      <4>1. PICK i \in Buf, n \in 1..NumSectors : SendsFrom(v, w, i, n)
        BY <3>6 DEF Sends
      <4>2. v.in = Transfer("block", i, w.sector - w.readbuf_sector[i], n) /\ started
        BY <4>1, TransferTos DEF SendsFrom
      <4> DEFINE x == Started(v)
      <4>3. u' = x /\ worker' = [worker EXCEPT !.pc = "sent", !.state = v.state, !.size = v.in.size]
        BY <2>2, <4>2
      <4>4. v.in.size = n /\ v.in.to = "block" /\ v.in.buf = i
            /\ v.in.off = w.sector - w.readbuf_sector[i]
        BY <4>2, TransferTos
      <4>5. n \in 0..NumSectors /\ n > 0 /\ n \in Nat
        BY Ranges
      <4>6. v.state = "SENDING_BLOCKS"
        BY <4>1 DEF SendsFrom
      <4>7. worker' \in Workers /\ worker'.pc = "sent" /\ worker'.state = "SENDING_BLOCKS"
            /\ worker'.size = n
        BY <1>1, <4>3, <4>4, <4>5, <4>6 DEF Workers, States
      <4>8. x \in Statics
        BY <1>1, <3>2 DEF Started, Statics
      <4>9. /\ SameRest(x, v) /\ SameFaults(x, v) /\ x.in = v.in /\ x.out = v.out
            /\ x.stalled = v.stalled /\ x.direction = v.direction /\ x.pending = v.pending
            /\ x.state = u.state /\ x.sector = u.sector /\ x.count = u.count
        BY <3>2 DEF Started, Statics, SameRest, SameReads, SameWrites, SameFaults
      <4> HIDE DEF x
      <4>10. Types'
        BY <1>2, <1>4, <4>3, <4>7, <4>8 DEF ProtocolInvariant, Types
      <4>11. Reading'
        BY <1>2, <2>8, <4>1, <4>3, <4>9
           DEF Reading, SendsFrom, SameRest, SameWrites
      <4>12. u'.readbuf_sector[i] = w.readbuf_sector[i] /\ u'.readbuf_count[i] = w.readbuf_count[i]
        <5>1. i # 1 - w.readbuf_current \/ SameReadBuffers(v, w)
          BY <2>3, <4>1, StaticsNumbers DEF SendsFrom, Buf
        <5> QED
          BY <4>1, <4>3, <4>9, <5>1 DEF SendsFrom, OtherTurned, SameReadBuffers, SameRest, SameReads
      <4>13. BlockSent'
        <5>1. w.sector = Here
          BY <2>1, <2>4 DEF ReadWait, At, SameCommand
        <5> QED
          BY <1>2, <4>1, <4>3, <4>4, <4>5, <4>9, <4>12, <5>1
             DEF BlockSent, SendsFrom, Fits, Wraps, Here
      <4>14. At(Here, Rest)' /\ u'.count = u'.pending + u'.in.size
        <5>1. u.pending = u.count /\ v.pending = w.pending - n /\ w.pending = u.pending
          BY <2>1, <2>4, <4>1 DEF ReadWait, SendsFrom, SameCommand
        <5>2. u'.count = u'.pending + u'.in.size
          BY <1>1, <4>3, <4>4, <4>5, <4>9, <5>1, StaticsNumbers
        <5> QED
          BY <1>2, <2>1, <4>3, <4>9, <5>2 DEF ReadWait, At, Here, Rest
      <4>15. NotingBlock'
        BY <2>1, <2>5, <4>1, <4>3, <4>4, <4>7, <4>9, <4>11, <4>13, <4>14
           DEF NotingBlock, ReadWait, SendsFrom, SameRest, SameReads
      <4>16. Filled' /\ CachesStay
        BY <3>3, <4>3, <4>7, <4>9 DEF Filled, InsideDisk, CachesStay, SameRest, SameReads
      <4>17. SameWrites(u', u) /\ SameFaults(u', u)
        BY <3>4, <4>3, <4>9 DEF SameRest, SameWrites, SameFaults
      <4>18. ErrorExcused' /\ Reported'
        BY <1>4, <4>17 DEF ProtocolInvariant, ErrorExcused, Reported, SameFaults, SameWrites
      <4>19. StepReports
        BY <4>3, <4>4, <4>9, TransferTos DEF StepReports
      <4> QED
        BY <2>8, <4>10, <4>15, <4>16, <4>17, <4>18, <4>19 DEF ProtocolInvariant, Protocol, InPhase
    <3> QED
      BY <3>2, <3>5, <3>6
  <2> QED
    BY <2>9, <2>10
<1> QED
  BY <1>5, <1>6


\* A SAT command is over with its status, or its result is on the way.
LEMMA SatStep ==
    ASSUME ProtocolInvariant, Runs, worker_runs_sat
    PROVE  /\ ProtocolInvariant' /\ StepReports /\ CachesStay /\ SameWrites(u', u)
           /\ u' = u \/ ~u.writebuf_overrun
           /\ u'.readbuf_count = u.readbuf_count /\ u'.readbuf_sector = u.readbuf_sector
           /\ \A i \in Buf : rbuf'[i] # rbuf[i] => u.readbuf_count[i] = 0
<1>1. /\ u \in Statics /\ worker \in Workers /\ ghost \in Ghosts
      /\ rbuf \in [Buf -> [Slots -> Cells]]
      /\ ~ghost.overtaken /\ InPhase /\ Filled
  BY DEF ProtocolInvariant, Types, Protocol, Runs, Astray
<1>2. /\ worker.pc = "sat" /\ wbuf' = wbuf /\ storage' = storage /\ host' = host
      /\ ghost' = ghost
  BY DEF worker_runs_sat
<1>3. CASE u.sat_pending = "SAT_PENDING_NONE"
  <2>1. u' = u /\ rbuf' = rbuf
    BY <1>3 DEF worker_runs_sat
  <2>2. worker' \in Workers /\ worker'.pc = "check"
    BY <1>1, <1>3 DEF worker_runs_sat, Goto, Workers
  <2>3. Elsewhere /\ Elsewhere'
    BY <1>2, <2>2 DEF Elsewhere
  <2>4. Filled => Filled'
    BY <2>1, <2>2 DEF Filled, InsideDisk
  <2> QED
    BY <1>1, <1>2, <2>1, <2>2, <2>3, <2>4, IdleStep DEF SameWrites
<1>4. CASE u.sat_pending # "SAT_PENDING_NONE"
  <2>1. SatWaiting
    BY <1>1, <1>4, WhoseTurn
  <2> DEFINE w == [u EXCEPT !.sat_pending = "SAT_PENDING_NONE"]
             b == 1 - u.readbuf_current
  <2>2. PICK ok \in BOOLEAN :
          LET data == ok /\ host.cmd.kind = "sat_in"
              v == IF ~ok THEN send_csw(w, Failed)
                   ELSE IF data THEN send_command_result(w, b)
                   ELSE send_csw(w, Passed)
          IN /\ u' = IF data THEN Started(v) ELSE v
             /\ rbuf' = IF data THEN [rbuf EXCEPT ![b][0] = Foreign] ELSE rbuf
             /\ worker' = [worker EXCEPT !.pc = IF data THEN "sent" ELSE "check",
                                         !.state = v.state]
    BY <1>4 DEF worker_runs_sat
  <2>3. w \in Statics
    BY <1>1 DEF Statics, Requests
  <2>4. /\ SameReads(w, u) /\ SameWrites(w, u) /\ SameFaults(w, u) /\ SamePipes(w, u)
        /\ SameCommand(w, u) /\ w.sat_pending = "SAT_PENDING_NONE"
    BY <1>1, StaticsShape DEF StaticFields, SameReads, SameWrites, SameFaults, SamePipes, SameCommand
  <2> HIDE DEF w
  <2>5. /\ u.in = None /\ w.in = None /\ w.out = None /\ w.stalled = {} /\ w.state = "PROCESSING"
        /\ ~u.writebuf_overrun /\ ~w.writebuf_overrun /\ ~w.read_blocked
        /\ host.phase \in {"in", "csw"} /\ host.cmd.kind # "write"
    BY <2>1, <2>4 DEF SatWaiting, SamePipes, SameWrites, SameReads
  <2>6. CASE ok /\ host.cmd.kind = "sat_in"
    <3> DEFINE v == send_command_result(w, b)
               x == Started(v)
    <3>1. /\ u' = x /\ rbuf' = [rbuf EXCEPT ![b][0] = Foreign]
          /\ worker' = [worker EXCEPT !.pc = "sent", !.state = v.state]
      BY <2>2, <2>6
    <3>2. w.pending > 0 /\ b \in 0..2 /\ b \in Buf
      BY <1>1, <2>1, <2>4, <2>6, Ranges, StaticsNumbers DEF SatWaiting, SameCommand
    <3>3. /\ v \in Statics /\ SameRest(v, w) /\ SameFaults(v, w)
          /\ v.state = "SENDING_RESULT" /\ v.in = Transfer("result", b, 0, 1) /\ v.out = w.out
          /\ v.stalled = w.stalled /\ v.direction = w.direction
      <4> HIDE DEF b
      <4> QED
        BY <2>3, <3>2, ResultDoes
    <3>4. worker' \in Workers /\ worker'.pc = "sent" /\ worker'.state = "SENDING_RESULT"
      BY <1>1, <3>1, <3>3 DEF Workers, States
    <3> HIDE DEF v
    <3>5. x \in Statics
      BY <1>1, <3>3 DEF Started, Statics
    <3>6. /\ SameRest(x, v) /\ SameFaults(x, v) /\ x.in = v.in /\ x.out = v.out
          /\ x.stalled = v.stalled /\ x.direction = v.direction /\ x.state = u.state
      BY <3>3 DEF Started, Statics, SameRest, SameReads, SameWrites, SameFaults
    <3> HIDE DEF x
    <3>7. rbuf' \in [Buf -> [Slots -> Cells]] /\ \A i \in Buf : i # b => rbuf'[i] = rbuf[i]
      <4>1. [rbuf[b] EXCEPT ![0] = Foreign] \in [Slots -> Cells]
        BY <1>1, <3>2, Ranges
      <4>2. rbuf' = [rbuf EXCEPT ![b] = [rbuf[b] EXCEPT ![0] = Foreign]]
        BY <3>1
      <4> QED
        BY <1>1, <3>2, <4>1, <4>2
    <3>8. Types'
      BY <1>1, <1>2, <3>1, <3>4, <3>5, <3>7 DEF ProtocolInvariant, Types
    <3>9. SameReads(u', u) /\ SameWrites(u', u) /\ SameFaults(u', u)
      BY <2>4, <3>1, <3>3, <3>6 DEF SameRest, SameReads, SameWrites, SameFaults
    <3>10. u'.in.to = "result" /\ u'.in.buf = 1 - u.readbuf_current
      BY <3>1, <3>3, <3>6, TransferTos
    <3>11. NotingResult'
      <4>1. u'.direction = "in" /\ host.phase = "in"
        BY <2>1, <2>4, <2>6, <3>1, <3>3, <3>6 DEF SatWaiting, SameCommand
      <4>2. u'.sat_pending = "SAT_PENDING_NONE"
        BY <2>4, <3>1, <3>3, <3>6 DEF SameRest
      <4>3. u'.stalled = {} /\ u'.out = None
        BY <2>4, <2>5, <3>1, <3>3, <3>6 DEF SamePipes
      <4>4. NothingAsked'
        BY <2>1, <3>9, <4>2 DEF SatWaiting, NothingAsked, SameReads, SameWrites
      <4>5. ResultSent'
        BY <3>9, <3>10 DEF ResultSent, SameReads
      <4>6. u'.state = "PROCESSING" /\ host' = host
        <5>1. u.state = "PROCESSING"
          BY <2>1 DEF SatWaiting
        <5>2. u'.state = x.state
          BY <3>1
        <5> QED
          BY <1>2, <3>6, <5>1, <5>2
      <4> QED
        BY <2>6, <3>4, <4>1, <4>3, <4>4, <4>5, <4>6 DEF NotingResult
    <3>12. Filled' /\ CachesStay
      BY <1>1, <3>4, <3>9 DEF Filled, InsideDisk, CachesStay, SameReads
    <3>13. ErrorExcused' /\ Reported'
      BY <1>2, <3>9 DEF ProtocolInvariant, ErrorExcused, Reported, SameFaults, SameWrites
    <3>14. StepReports
      BY <2>6 DEF StepReports
    <3>15. u.readbuf_count[b] = 0
      BY <2>1, <2>6 DEF SatWaiting
    <3> QED
      BY <1>2, <2>5, <3>7, <3>8, <3>9, <3>11, <3>12, <3>13, <3>14, <3>15
         DEF ProtocolInvariant, Protocol, InPhase, SameReads
  <2>7. CASE ~(ok /\ host.cmd.kind = "sat_in")
    <3>1. PICK csw \in {Passed, Failed} :
            /\ u' = send_csw(w, csw) /\ rbuf' = rbuf
            /\ worker' = [worker EXCEPT !.pc = "check", !.state = send_csw(w, csw).state]
      BY <2>2, <2>7
    <3> DEFINE v == send_csw(w, csw)
    <3>2. /\ v \in Statics /\ SameRest(v, w) /\ SameCommand(v, w) /\ SameFaults(v, w)
          /\ v.state = "WAITING_FOR_CSW_COMPLETION" /\ v.in = csw /\ v.out = w.out
          /\ v.stalled = IF w.pending > 0 THEN w.stalled \cup {w.direction} ELSE w.stalled
      BY <2>3, CswDoes, Ranges
    <3> HIDE DEF v
    <3>3. worker' \in Workers /\ worker'.pc = "check" /\ u' = v
      BY <1>1, <3>1, <3>2 DEF Workers, Statics, v
    <3>4. Types'
      BY <1>1, <1>2, <3>1, <3>2, <3>3 DEF ProtocolInvariant, Types
    <3>5. SameReads(u', u) /\ SameWrites(u', u) /\ SameFaults(u', u)
      BY <2>4, <3>2, <3>3 DEF SameRest, SameReads, SameWrites, SameFaults
    <3>6. "out" \notin u'.stalled
      <4>1. w.pending > 0 => w.direction = "in"
        BY <2>1, <2>4 DEF SatWaiting, SameCommand
      <4> QED
        BY <2>5, <3>2, <3>3, <4>1
    <3>7. Status'
      BY <1>2, <2>4, <2>5, <3>2, <3>3, <3>5, <3>6
         DEF Status, NothingAsked, Elsewhere, SameRest, SameReads, SameWrites
    <3>8. Filled' /\ CachesStay
      BY <1>1, <3>3, <3>5 DEF Filled, InsideDisk, CachesStay, SameReads
    <3>9. ErrorExcused' /\ Reported'
      BY <1>2, <3>5 DEF ProtocolInvariant, ErrorExcused, Reported, SameFaults, SameWrites
    <3>10. StepReports
      BY <2>5 DEF StepReports
    <3> QED
      BY <1>2, <2>5, <3>1, <3>4, <3>5, <3>7, <3>8, <3>9, <3>10
         DEF ProtocolInvariant, Protocol, InPhase, SameReads
  <2> QED
    BY <2>6, <2>7
<1> QED
  BY <1>3, <1>4

-----------------------------------------------------------------------------
(* The steps of the interrupt.                                             *)

\* The statics when a command is executed.
Fresh(x, c) ==
    /\ x \in Statics /\ InsideDisk(x)
    /\ x.state = "PROCESSING" /\ x.in = None /\ x.out = None /\ x.stalled = {}
    /\ ~x.read_blocked /\ ~x.writebuf_overrun /\ x.sat_pending = "SAT_PENDING_NONE"
    /\ x.pending = Expected(c) /\ x.direction = Direction(c)

\* What the host does then.
Asks(c) ==
    /\ c \in Commands
    /\ c.kind = "write" => c.sector + c.count <= NumSectors
    /\ host'.phase = IF Expected(c) > 0 THEN Direction(c) ELSE "csw"
    /\ host'.cmd = c /\ host'.got = 0
    /\ Elsewhere'

\* What is true of the command's outcome, whatever it is.
Executed(x) ==
    /\ u' \in Statics /\ InPhase' /\ InsideDisk(u')
    /\ SameWrites(u', x) /\ u'.error = x.error /\ Keeps(u', x)
    /\ FillStays(u', x)
    /\ u'.in # Passed \/ host'.cmd.kind # "write" \/ host'.cmd.count = 0

\* The sectors of a READ or WRITE inside the disk.
LEMMA CommandNumbers ==
    ASSUME NEW c \in Commands
    PROVE  /\ c.kind \in Kinds /\ c.sector \in Sectors /\ c.count \in 0..NumSectors
           /\ c.sector \in Nat /\ c.count \in Nat
           /\ Expected(c) \in 0..NumSectors + 1 /\ Expected(c) \in Nat
           /\ Direction(c) \in {"in", "out"}
<1>1. c.kind \in Kinds /\ c.sector \in Sectors /\ c.count \in 0..NumSectors
  <2>1. CASE c \in [kind : Kinds \cap {"read", "write"}, sector : Sectors, count : 0..NumSectors]
    BY <2>1
  <2>2. CASE c \in [kind : Kinds \ {"read", "write"}, sector : {0}, count : {0}]
    <3>1. c.kind \in Kinds /\ c.sector = 0 /\ c.count = 0
      BY <2>2
    <3> QED
      BY <3>1, Ranges
  <2> QED
    BY <2>1, <2>2 DEF Commands
<1>2. c.sector \in Nat /\ c.count \in Nat
  BY <1>1, Ranges
<1>3. Expected(c) \in 0..NumSectors + 1 /\ Expected(c) \in Nat
  <2>1. CASE c.kind \in {"read", "write"}
    BY <1>1, <2>1, Ranges DEF Expected
  <2>2. CASE c.kind = "residue"
    BY <2>2, Ranges DEF Expected
  <2>3. CASE c.kind \in {"result", "badout", "badcbw", "sat_in", "sat_out"}
    BY <2>3, Ranges DEF Expected
  <2>4. CASE c.kind \notin {"read", "write", "residue", "result", "badout", "badcbw", "sat_in", "sat_out"}
    BY <2>4, Ranges DEF Expected
  <2> QED
    BY <2>1, <2>2, <2>3, <2>4
<1> QED
  BY <1>1, <1>2, <1>3 DEF Direction

\* The status at once: of a READ or WRITE that is refused or empty, and of the commands
\* without data.
LEMMA StatusOutcome ==
    ASSUME NEW x, NEW c, NEW csw \in {Passed, Failed}, Fresh(x, c), Asks(c),
           csw = Passed => Expected(c) = 0,
           u' = send_csw(x, csw)
    PROVE  Executed(x)
<1>1. x \in Statics /\ InsideDisk(x)
  BY DEF Fresh
<1>2. /\ u' \in Statics /\ SameRest(u', x) /\ SameCommand(u', x) /\ SameFaults(u', x)
      /\ u'.state = "WAITING_FOR_CSW_COMPLETION" /\ u'.in = csw /\ u'.out = x.out
      /\ u'.stalled = IF x.pending > 0 THEN x.stalled \cup {x.direction} ELSE x.stalled
  <2>1. csw \in InTransfers
    BY Ranges
  <2> QED
    BY <1>1, <2>1, CswDoes
<1>3. c \in Commands /\ Expected(c) \in Nat /\ Direction(c) \in {"in", "out"} /\ c.count \in Nat
  BY CommandNumbers DEF Asks
<1>4. c.kind = "write" => Expected(c) = c.count
  BY DEF Expected
<1>5. "out" \in u'.stalled => host'.phase = "out" /\ csw = Failed
  BY <1>2, <1>3 DEF Fresh, Asks
<1>6. Status'
  BY <1>2, <1>3, <1>4, <1>5, TransferTos
     DEF Status, Fresh, Asks, NothingAsked, SameRest, SameReads, SameWrites
<1>7. InPhase'
  BY <1>6 DEF InPhase
<1>8. InsideDisk(u') /\ Keeps(u', x) /\ FillStays(u', x)
  BY <1>1, <1>2 DEF InsideDisk, Keeps, FillStays, SameRest, SameReads
<1>9. u'.in # Passed \/ host'.cmd.kind # "write" \/ host'.cmd.count = 0
  BY <1>2, <1>4 DEF Asks
<1> QED
  BY <1>2, <1>7, <1>8, <1>9 DEF Executed, SameRest, SameFaults

\* A READ within the disk.
LEMMA ReadOutcome ==
    ASSUME NEW x, NEW c, Fresh(x, c), Asks(c), c.kind = "read",
           c.count > 0, c.sector + c.count <= NumSectors,
           u' = send_and_read_next([x EXCEPT !.sector = c.sector, !.count = c.count])
    PROVE  Executed(x)
<1> DEFINE w == [x EXCEPT !.sector = c.sector, !.count = c.count]
<1>1. x \in Statics /\ InsideDisk(x) /\ c \in Commands
  BY DEF Fresh, Asks
<1>2. c.sector \in 0..NumSectors /\ c.count \in 0..NumSectors /\ c.sector \in Nat /\ c.count \in Nat
  BY <1>1, CommandNumbers, Ranges
<1>3. w \in Statics
  BY <1>1, <1>2 DEF Statics
<1>4. /\ SameReads(w, x) /\ SameWrites(w, x) /\ SameFaults(w, x) /\ SamePipes(w, x)
      /\ w.sat_pending = x.sat_pending
      /\ w.sector = c.sector /\ w.count = c.count
      /\ w.pending = x.pending /\ w.direction = x.direction
  BY <1>1, StaticsShape DEF StaticFields, SameReads, SameWrites, SameFaults, SamePipes
<1>5. u' = send_and_read_next(w)
  OBVIOUS
<1> HIDE DEF w
<1>6. x.pending = c.count /\ x.direction = "in" /\ Expected(c) = c.count /\ Direction(c) = "in"
  BY DEF Fresh, Expected, Direction
<1>7. Asking(w) /\ InsideDisk(w) /\ w.pending = w.count
  BY <1>1, <1>4, <1>6 DEF Asking, InsideDisk, SameReads
<1>8. u' \in Statics /\ (Waits(u', w) \/ Sends(u', w))
  BY <1>3, <1>5, <1>7, NextDoes
<1>9. InsideDisk(u') /\ Keeps(u', x) /\ FillStays(u', x)
  BY <1>3, <1>4, <1>7, <1>8, NextKeeps DEF Keeps, FillStays, SameReads
<1>10. SameWrites(u', x) /\ SameFaults(u', x)
  BY <1>4, <1>8 DEF Waits, Sends, SendsFrom, SameWrites, SameFaults
<1>11. /\ w.in = None /\ w.out = None /\ w.stalled = {} /\ w.state = "PROCESSING"
       /\ ~w.read_blocked /\ ~w.writebuf_overrun /\ w.sat_pending = "SAT_PENDING_NONE"
       /\ host'.phase = "in" /\ host'.cmd.kind = "read" /\ Here' = c.sector /\ Rest' = c.count
  BY <1>2, <1>4, <1>6 DEF Fresh, Asks, SamePipes, SameReads, SameWrites, Here, Rest
<1>12. InPhase' /\ u'.in # Passed
  <2>1. CASE Waits(u', w)
    <3>1. u'.in = None /\ u'.in # Passed
      BY <1>11, <2>1, TransferTos DEF Waits, SamePipes
    <3>2. ReadWait'
      BY <1>2, <1>4, <1>6, <1>11, <2>1
         DEF Asks, ReadWait, Waits, Reading, SamePipes, SameCommand, SameWrites, At
    <3> QED
      BY <3>1, <3>2 DEF InPhase
  <2>2. CASE Sends(u', w)
    <3>1. PICK i \in Buf, n \in 1..NumSectors : SendsFrom(u', w, i, n)
      BY <2>2 DEF Sends
    <3>2. /\ u'.in = Transfer("block", i, w.sector - w.readbuf_sector[i], n)
          /\ u'.in.size = n /\ u'.in.to = "block" /\ u'.in.buf = i
          /\ u'.in.off = w.sector - w.readbuf_sector[i] /\ u'.in # Passed
      BY <3>1, TransferTos DEF SendsFrom
    <3>3. u'.readbuf_sector[i] = w.readbuf_sector[i] /\ u'.readbuf_count[i] = w.readbuf_count[i]
      <4>1. i # 1 - w.readbuf_current \/ SameReadBuffers(u', w)
        BY <1>3, <3>1, StaticsNumbers DEF SendsFrom, Buf
      <4> QED
        BY <3>1, <4>1 DEF SendsFrom, OtherTurned, SameReadBuffers
    <3>4. n \in Nat /\ n > 0
      BY Ranges
    <3>5. BlockSent'
      BY <1>4, <1>11, <3>1, <3>2, <3>3, <3>4 DEF BlockSent, SendsFrom, Fits, Wraps
    <3>6. At(Here + u.in.size, Rest - u.in.size)' /\ u'.pending = u'.count
      BY <1>2, <1>4, <1>6, <1>11, <3>1, <3>2, <3>4 DEF SendsFrom, At
    <3>7. Reading'
      BY <1>4, <1>6, <1>11, <3>1 DEF Reading, SendsFrom, SameWrites
    <3>8. SendingBlocks'
      BY <1>11, <3>1, <3>5, <3>6, <3>7 DEF Asks, SendingBlocks, SendsFrom
    <3> QED
      BY <3>2, <3>8 DEF InPhase
  <2> QED
    BY <1>8, <2>1, <2>2
<1> QED
  BY <1>8, <1>9, <1>10, <1>12 DEF Executed, SameFaults

\* A WRITE within the disk.
LEMMA WriteOutcome ==
    ASSUME NEW x, NEW c, Fresh(x, c), Asks(c), c.kind = "write", c.count > 0,
           u' = receive_block_data([x EXCEPT !.sector = c.sector, !.count = c.count])
    PROVE  Executed(x)
<1> DEFINE w == [x EXCEPT !.sector = c.sector, !.count = c.count]
<1>1. x \in Statics /\ InsideDisk(x) /\ c \in Commands /\ c.sector + c.count <= NumSectors
  BY DEF Fresh, Asks
<1>2. c.sector \in 0..NumSectors /\ c.count \in 0..NumSectors /\ c.sector \in Nat /\ c.count \in Nat
  BY <1>1, CommandNumbers, Ranges
<1>3. w \in Statics
  BY <1>1, <1>2 DEF Statics
<1>4. /\ SameReads(w, x) /\ SameWrites(w, x) /\ SameFaults(w, x) /\ SamePipes(w, x)
      /\ w.sat_pending = x.sat_pending
      /\ w.sector = c.sector /\ w.count = c.count
      /\ w.pending = x.pending /\ w.direction = x.direction
  BY <1>1, StaticsShape DEF StaticFields, SameReads, SameWrites, SameFaults, SamePipes
<1>5. u' = receive_block_data(w)
  OBVIOUS
<1> HIDE DEF w
<1>6. x.pending = c.count /\ x.direction = "out" /\ Expected(c) = c.count /\ Direction(c) = "out"
  BY DEF Fresh, Expected, Direction
<1>7. Block(w) <= w.pending /\ Block(w) > 0 /\ Block(w) \in Nat
  BY <1>2, <1>4, <1>6, Ranges DEF Block, Lesser
<1>8. /\ u' \in Statics /\ SameRest(u', w) /\ SameFaults(u', w)
      /\ u'.state = "RECEIVING_BLOCKS" /\ u'.in = w.in /\ u'.stalled = w.stalled
      /\ u'.out = Transfer("block", 1 - w.writebuf_current, 0, u'.length)
      /\ u'.length = Block(w) /\ u'.pending = w.pending - u'.length
      /\ u'.sector = w.sector /\ u'.count = w.count /\ u'.direction = w.direction
  BY <1>3, <1>4, <1>5, <1>6, <1>7, ReceiveDoes
<1>9. InsideDisk(u') /\ Keeps(u', x) /\ FillStays(u', x)
  BY <1>1, <1>4, <1>8 DEF InsideDisk, Keeps, FillStays, SameRest, SameReads
<1>10. SameWrites(u', x) /\ SameFaults(u', x)
  BY <1>4, <1>8 DEF SameRest, SameWrites, SameFaults
<1>11. At(Here, Rest)'
  BY <1>1, <1>2, <1>4, <1>8 DEF At, Here, Rest, Asks
<1>12. u'.length > 0 /\ u'.count = u'.pending + u'.length
  BY <1>2, <1>4, <1>6, <1>7, <1>8
<1>13. NothingAsked' /\ u'.in = None /\ u'.stalled = {}
  BY <1>4, <1>8, <1>10 DEF NothingAsked, Fresh, SameRest, SameReads, SameWrites, SamePipes
<1>14. Receiving'
  BY <1>2, <1>4, <1>6, <1>8, <1>11, <1>12, <1>13 DEF Receiving, Asks, SameRest, SameWrites
<1> QED
  BY <1>8, <1>9, <1>10, <1>13, <1>14, TransferTos DEF Executed, InPhase, SameFaults


\* INQUIRY and the like: a small result from the buffer of its own.
LEMMA ResultOutcome ==
    ASSUME NEW x, NEW c, Fresh(x, c), Asks(c), c.kind \in {"result", "residue"},
           u' = send_command_result(x, tb)
    PROVE  Executed(x)
<1>1. x \in Statics /\ InsideDisk(x) /\ tb \in 0..2
  BY DEF Fresh, tb
<1>2. Expected(c) > 0 /\ Direction(c) = "in"
  BY DEF Expected, Direction
<1>3. x.pending > 0
  BY <1>2 DEF Fresh
<1>4. /\ u' \in Statics /\ SameRest(u', x) /\ SameFaults(u', x)
      /\ u'.state = "SENDING_RESULT" /\ u'.in = Transfer("result", tb, 0, 1) /\ u'.out = x.out
      /\ u'.stalled = x.stalled /\ u'.direction = x.direction
  BY <1>1, <1>3, ResultDoes
<1>5. u'.in.to = "result" /\ u'.in.buf = tb /\ u'.in # Passed
  BY <1>4, TransferTos
<1>6. SendingResult'
  BY <1>2, <1>4, <1>5
     DEF SendingResult, ResultSent, NothingAsked, Fresh, Asks, SameRest, SameReads, SameWrites
<1>7. InsideDisk(u') /\ Keeps(u', x) /\ FillStays(u', x)
  BY <1>1, <1>4 DEF InsideDisk, Keeps, FillStays, SameRest, SameReads
<1> QED
  BY <1>4, <1>5, <1>6, <1>7 DEF Executed, InPhase, SameRest, SameFaults

\* A SAT command empties the read buffer that is not the newest.
LEMMA TakeBufferDoes ==
    ASSUME NEW x \in Statics
    PROVE  LET w == TakeBuffer(x) IN
           /\ w \in Statics /\ SameWrites(w, x) /\ SameFaults(w, x) /\ SamePipes(w, x)
           /\ SameCommand(w, x) /\ w.sat_pending = x.sat_pending
           /\ w.read_blocked = x.read_blocked /\ w.readbuf_current = x.readbuf_current
           /\ w.readbuf_sector = x.readbuf_sector
           /\ w.readbuf_count[1 - x.readbuf_current] = 0
           /\ Keeps(w, x) /\ FillStays(w, x)
<1> DEFINE j == 1 - x.readbuf_current
           C == [x.readbuf_count EXCEPT ![j] = 0]
           w == [x EXCEPT !.readbuf_count = C]
<1>1. j \in Buf
  BY StaticsNumbers
<1>2. x.readbuf_count \in [Buf -> -1..BufSectors]
  BY DEF Statics
<1>3. /\ C \in [Buf -> -1..BufSectors] /\ C[j] = 0
      /\ \A i \in Buf : i # j => C[i] = x.readbuf_count[i]
  <2> HIDE DEF j
  <2> QED
    BY <1>1, <1>2, Ranges
<1>4. TakeBuffer(x) = w
  BY DEF TakeBuffer
<1> HIDE DEF C
<1>5. w \in Statics
  BY <1>3 DEF Statics
<1>6. /\ SameWrites(w, x) /\ SameFaults(w, x) /\ SamePipes(w, x)
      /\ SameCommand(w, x) /\ w.sat_pending = x.sat_pending
      /\ w.read_blocked = x.read_blocked /\ w.readbuf_current = x.readbuf_current
      /\ w.readbuf_sector = x.readbuf_sector /\ w.readbuf_count = C
  BY StaticsShape DEF StaticFields, SameWrites, SameFaults, SamePipes, SameCommand
<1> HIDE DEF w
<1>7. Keeps(w, x)
  BY <1>3, <1>6 DEF Keeps
<1>8. FillStays(w, x)
  <2>1. x.readbuf_current \in Buf /\ x.readbuf_current # j
    BY Ranges, StaticsNumbers
  <2> QED
    BY <1>3, <1>6, <2>1 DEF FillStays
<1> QED
  BY <1>3, <1>4, <1>5, <1>6, <1>7, <1>8

\* sat_command hands the command to the thread.
LEMMA SatCommandDoes ==
    ASSUME NEW x \in Statics, NEW pending \in Requests
    PROVE  LET w == sat_command(x, pending) IN
           /\ w \in Statics /\ SameReads(w, x) /\ SameWrites(w, x) /\ SameFaults(w, x)
           /\ SamePipes(w, x) /\ SameCommand(w, x) /\ w.sat_pending = pending
<1> DEFINE y == [x EXCEPT !.sat_pending = pending]
<1>1. y \in Statics
  BY DEF Statics
<1>2. /\ SameReads(y, x) /\ SameWrites(y, x) /\ SameFaults(y, x)
      /\ SamePipes(y, x) /\ SameCommand(y, x) /\ y.sat_pending = pending
  BY StaticsShape DEF StaticFields, SameReads, SameWrites, SameFaults, SamePipes, SameCommand
<1>3. sat_command(x, pending) = enqueue_async(y)
  BY DEF sat_command
<1> HIDE DEF y
<1>4. LET v == enqueue_async(y) IN
      /\ v \in Statics /\ SameRest(v, y) /\ SameCommand(v, y) /\ SamePipes(v, y)
      /\ SameFaults(v, y)
  BY <1>1, SignalDoes
<1> QED
  BY <1>2, <1>3, <1>4
     DEF SameRest, SameReads, SameWrites, SameFaults, SamePipes, SameCommand

\* The SAT commands without data from the host wait for the thread.
LEMMA SatOutcome ==
    ASSUME NEW x, NEW c, NEW w, NEW pending \in {"SAT_PENDING_CMD", "SAT_PENDING_HRST"},
           Fresh(x, c), Asks(c), c.kind \in {"sat_reset", "sat_none", "sat_in"},
           w = IF c.kind = "sat_reset" THEN x ELSE TakeBuffer(x),
           u' = sat_command(w, pending)
    PROVE  Executed(x)
<1>1. x \in Statics /\ InsideDisk(x) /\ pending \in Requests
  BY DEF Fresh, Requests
<1>2. /\ w \in Statics /\ SameWrites(w, x) /\ SameFaults(w, x) /\ SamePipes(w, x)
      /\ SameCommand(w, x) /\ w.read_blocked = x.read_blocked /\ Keeps(w, x) /\ FillStays(w, x)
      /\ w.readbuf_current = x.readbuf_current
      /\ c.kind # "sat_reset" => w.readbuf_count[1 - w.readbuf_current] = 0
  <2>1. CASE c.kind = "sat_reset"
    <3>1. w = x
      BY <2>1
    <3> QED
      BY <1>1, <2>1, <3>1 DEF SameWrites, SameFaults, SamePipes, SameCommand, Keeps, FillStays
  <2>2. CASE c.kind # "sat_reset"
    <3>1. w = TakeBuffer(x)
      BY <2>2
    <3> QED
      BY <1>1, <3>1, TakeBufferDoes
  <2> QED
    BY <2>1, <2>2
<1>3. /\ u' \in Statics /\ SameReads(u', w) /\ SameWrites(u', w) /\ SameFaults(u', w)
      /\ SamePipes(u', w) /\ SameCommand(u', w) /\ u'.sat_pending = pending
  BY <1>1, <1>2, SatCommandDoes
<1>4. /\ c.kind = "sat_in" => Expected(c) = 1
      /\ c.kind # "sat_in" => Expected(c) = 0
      /\ Direction(c) = "in"
  BY DEF Expected, Direction
<1>5. InsideDisk(u') /\ Keeps(u', x) /\ FillStays(u', x)
  BY <1>1, <1>2, <1>3 DEF InsideDisk, Keeps, FillStays, SameReads
<1>6. SameWrites(u', x) /\ SameFaults(u', x)
  BY <1>2, <1>3 DEF SameWrites, SameFaults
<1>7. u'.in = None /\ u'.in # Passed /\ u'.out = None /\ u'.stalled = {} /\ u'.state = "PROCESSING"
  BY <1>2, <1>3, TransferTos DEF SamePipes, Fresh
<1>8. /\ u'.pending = Expected(c) /\ u'.direction = "in" /\ ~u'.read_blocked
      /\ ~u'.writebuf_overrun
  BY <1>2, <1>3, <1>4 DEF SameCommand, Fresh, SameReads, SameWrites
<1>9. c.kind = "sat_in" => u'.readbuf_count[1 - u'.readbuf_current] = 0
  BY <1>2, <1>3 DEF SameReads
<1>10. SatWaiting'
  BY <1>3, <1>4, <1>7, <1>8, <1>9 DEF SatWaiting, Asks
<1> QED
  BY <1>3, <1>5, <1>6, <1>7, <1>10 DEF Executed, InPhase, SameFaults

\* A SAT command with data from the host.
LEMMA SatOutOutcome ==
    ASSUME NEW x, NEW c, Fresh(x, c), Asks(c), c.kind = "sat_out",
           u' = receive_sat_write(TakeBuffer(x))
    PROVE  Executed(x)
<1> DEFINE w == TakeBuffer(x)
<1>1. x \in Statics /\ InsideDisk(x)
  BY DEF Fresh
<1>2. /\ w \in Statics /\ SameWrites(w, x) /\ SameFaults(w, x) /\ SamePipes(w, x)
      /\ SameCommand(w, x) /\ w.sat_pending = x.sat_pending
      /\ w.read_blocked = x.read_blocked /\ w.readbuf_current = x.readbuf_current
      /\ w.readbuf_count[1 - x.readbuf_current] = 0
      /\ Keeps(w, x) /\ FillStays(w, x)
  BY <1>1, TakeBufferDoes
<1> HIDE DEF w
<1>3. /\ u' \in Statics /\ SameRest(u', w) /\ SameFaults(u', w)
      /\ u'.state = "RECEIVING_SAT_WRITE" /\ u'.in = w.in
      /\ u'.out = Transfer("sat", 1 - w.readbuf_current, 0, 1)
      /\ u'.stalled = w.stalled /\ u'.pending = 0
  BY <1>2, SatDoes DEF w
<1>4. Expected(c) = 1 /\ Direction(c) = "out"
  BY DEF Expected, Direction
<1>5. InsideDisk(u') /\ Keeps(u', x) /\ FillStays(u', x)
  BY <1>1, <1>2, <1>3 DEF InsideDisk, Keeps, FillStays, SameRest, SameReads
<1>6. SameWrites(u', x) /\ SameFaults(u', x)
  BY <1>2, <1>3 DEF SameRest, SameWrites, SameFaults
<1>7. u'.in = None /\ u'.in # Passed /\ u'.stalled = {} /\ NothingAsked'
  BY <1>2, <1>3, <1>6, TransferTos
     DEF SamePipes, Fresh, NothingAsked, SameRest, SameReads, SameWrites
<1>8. u'.readbuf_current = w.readbuf_current /\ u'.readbuf_count = w.readbuf_count
  BY <1>3 DEF SameRest, SameReads
<1>9. SatReceiving'
  BY <1>2, <1>3, <1>4, <1>7, <1>8 DEF SatReceiving, Asks
<1> QED
  BY <1>3, <1>5, <1>6, <1>7, <1>9 DEF Executed, InPhase, SameFaults

\* All commands but the one with a bad wrapper.
LEMMA CommandOutcome ==
    ASSUME NEW x, NEW c, Fresh(x, c), Asks(c), c.kind # "badcbw", u' = Execute(x, c)
    PROVE  Executed(x)
<1>1. c \in Commands /\ c.kind \in Kinds /\ c.count \in Nat /\ c.sector \in Nat
  BY CommandNumbers DEF Asks
<1>2. c.kind \in {"read", "write", "result", "residue", "nodata", "eject", "badout",
                  "silent", "sat_reset", "sat_none", "sat_in", "sat_out"}
  BY <1>1, DiskAssumption
<1>3. x \in Statics /\ InsideDisk(x)
  BY DEF Fresh
<1>4. CASE c.kind \in {"read", "write"}
  <2>1. CASE x.ejected
    <3>1. u' = send_csw(x, Failed)
      BY <1>4, <2>1 DEF Execute
    <3> QED
      BY <3>1, StatusOutcome, TransferTos
  <2>2. CASE ~x.ejected
    <3> DEFINE w == [x EXCEPT !.sector = c.sector, !.count = c.count]
    <3>1. u' = ReadWrite(w, c)
      BY <1>4, <2>2 DEF Execute
    <3>2. CASE c.sector + c.count > NumSectors \/ c.count = 0
      <4>1. PICK csw \in {Passed, Failed} : u' = send_csw(w, csw) /\ (csw = Passed => c.count = 0)
        BY <3>1, <3>2, TransferTos DEF ReadWrite
      <4>2. Fresh(w, c) /\ w.error = x.error /\ SameWrites(w, x) /\ SameReads(w, x)
        <5>1. c.sector \in 0..NumSectors /\ c.count \in 0..NumSectors
          BY <1>1, CommandNumbers, Ranges
        <5>2. w \in Statics
          BY <1>3, <5>1 DEF Statics
        <5>3. /\ SameReads(w, x) /\ SameWrites(w, x) /\ SameFaults(w, x) /\ SamePipes(w, x)
              /\ w.sat_pending = x.sat_pending /\ w.pending = x.pending
              /\ w.direction = x.direction
          BY <1>3 DEF Statics, SameReads, SameWrites, SameFaults, SamePipes
        <5> HIDE DEF w
        <5> QED
          BY <5>2, <5>3
             DEF Fresh, InsideDisk, SameReads, SameWrites, SameFaults, SamePipes
      <4>3. c.count = 0 => Expected(c) = 0
        BY <1>4 DEF Expected
      <4> HIDE DEF w
      <4>4. Executed(w)
        BY <4>1, <4>2, <4>3, StatusOutcome
      <4> QED
        BY <4>2, <4>4 DEF Executed, SameWrites, SameReads, Keeps, FillStays
    <3>3. CASE ~(c.sector + c.count > NumSectors) /\ c.count # 0
      <4>1. c.count > 0 /\ c.sector + c.count <= NumSectors
        BY <1>1, <3>3, Ranges
      <4>2. CASE c.kind = "read"
        <5>1. u' = send_and_read_next(w)
          BY <3>1, <3>3, <4>2 DEF ReadWrite
        <5> QED
          BY <4>1, <4>2, <5>1, ReadOutcome
      <4>3. CASE c.kind = "write"
        <5>1. u' = receive_block_data(w)
          BY <3>1, <3>3, <4>3 DEF ReadWrite
        <5> QED
          BY <4>1, <4>3, <5>1, WriteOutcome
      <4> QED
        BY <1>4, <4>2, <4>3
    <3> QED
      BY <3>2, <3>3
  <2> QED
    BY <2>1, <2>2
<1>5. CASE c.kind \in {"result", "residue"}
  <2>1. u' = send_command_result(x, tb)
    BY <1>5 DEF Execute
  <2> QED
    BY <1>5, <2>1, ResultOutcome
<1>6. CASE c.kind \in {"nodata", "badout"}
  <2>1. PICK csw \in {Passed, Failed} : u' = send_csw(x, csw) /\ (csw = Passed => c.kind = "nodata")
    BY <1>6, TransferTos DEF Execute
  <2>2. c.kind = "nodata" => Expected(c) = 0
    BY DEF Expected
  <2> QED
    BY <2>1, <2>2, StatusOutcome
<1>7. CASE c.kind = "eject"
  <2> DEFINE w == [x EXCEPT !.ejected = TRUE]
  <2>1. u' = send_csw(w, Passed)
    BY <1>7 DEF Execute
  <2>2. w \in Statics
    BY <1>3 DEF Statics
  <2>3. /\ SameReads(w, x) /\ SameWrites(w, x) /\ SamePipes(w, x) /\ w.error = x.error
        /\ SameCommand(w, x) /\ w.sat_pending = x.sat_pending
    BY <1>3 DEF Statics, SameReads, SameWrites, SamePipes, SameCommand
  <2> HIDE DEF w
  <2>4. Fresh(w, c)
    BY <2>2, <2>3 DEF Fresh, InsideDisk, SameReads, SameWrites, SamePipes, SameCommand
  <2>5. Expected(c) = 0
    BY <1>7 DEF Expected
  <2>6. Executed(w)
    BY <2>1, <2>4, <2>5, StatusOutcome
  <2> QED
    BY <2>3, <2>6 DEF Executed, SameWrites, SameReads, Keeps, FillStays
<1>8. CASE c.kind = "silent"
  <2>1. u' = x
    BY <1>8 DEF Execute
  <2>2. Expected(c) = 0
    BY <1>8 DEF Expected
  <2>3. Quiet'
    BY <1>8, <2>1, <2>2 DEF Quiet, Fresh, Asks, NothingAsked
  <2> QED
    BY <1>3, <2>1, <2>3, TransferTos DEF Executed, InPhase, SameWrites, Keeps, FillStays, Fresh
<1>9. CASE c.kind = "sat_reset"
  <2>1. u' = sat_command(x, "SAT_PENDING_HRST")
    BY <1>9 DEF Execute
  <2> QED
    BY <1>9, <2>1, SatOutcome
<1>10. CASE c.kind \in {"sat_none", "sat_in"}
  <2>1. u' = sat_command(TakeBuffer(x), "SAT_PENDING_CMD")
    BY <1>10 DEF Execute
  <2> QED
    BY <1>10, <2>1, SatOutcome
<1>11. CASE c.kind = "sat_out"
  <2>1. u' = receive_sat_write(TakeBuffer(x))
    BY <1>11 DEF Execute
  <2> QED
    BY <1>11, <2>1, SatOutOutcome
<1> QED
  BY <1>2, <1>4, <1>5, <1>6, <1>7, <1>8, <1>9, <1>10, <1>11


\* The history: buffers that are pointed elsewhere are forgotten.
LEMMA StillHitType == ASSUME Types PROVE StillHit \in SUBSET (Buf \X Sectors)
<1>1. ghost.hit \in SUBSET (Buf \X Sectors)
  BY DEF Types, Ghosts
<1> QED
  BY <1>1 DEF StillHit

\* What the thread is filling is not disturbed.
LEMMA FilledStays ==
    ASSUME Filled, Types, Types', worker' = worker, InsideDisk(u'), FillStays(u', u), ~u.read_blocked
    PROVE  Filled'
BY DEF Filled, FillStays

\* The OUT transfer is over; the statics are as they were.
LEMMA TakeOut ==
    ASSUME u \in Statics
    PROVE  /\ [u EXCEPT !.out = None] \in Statics
           /\ [u EXCEPT !.out = None].out = None
           /\ [u EXCEPT !.out = None].in = u.in
           /\ [u EXCEPT !.out = None].state = u.state
           /\ [u EXCEPT !.out = None].stalled = u.stalled
           /\ SameRest([u EXCEPT !.out = None], u) /\ SameCommand([u EXCEPT !.out = None], u)
           /\ SameFaults([u EXCEPT !.out = None], u)
<1> DEFINE w == [u EXCEPT !.out = None]
<1>1. w \in Statics
  <2>1. None \in InTransfers /\ None \in OutTransfers
    BY Ranges
  <2> QED
    BY <2>1 DEF Statics
<1>2. w.out = None /\ w.in = u.in /\ w.state = u.state /\ w.stalled = u.stalled
  BY DEF Statics
<1>3. SameRest(w, u) /\ SameCommand(w, u) /\ SameFaults(w, u)
  BY StaticsShape DEF StaticFields, SameRest, SameReads, SameWrites, SameCommand, SameFaults
<1> QED
  BY <1>1, <1>2, <1>3

\* The IN transfer is over.
LEMMA TakeIn ==
    ASSUME u \in Statics
    PROVE  /\ [u EXCEPT !.in = None] \in Statics
           /\ [u EXCEPT !.in = None].in = None
           /\ [u EXCEPT !.in = None].out = u.out
           /\ [u EXCEPT !.in = None].state = u.state
           /\ [u EXCEPT !.in = None].stalled = u.stalled
           /\ SameRest([u EXCEPT !.in = None], u) /\ SameCommand([u EXCEPT !.in = None], u)
           /\ SameFaults([u EXCEPT !.in = None], u)
<1> DEFINE w == [u EXCEPT !.in = None]
<1>1. w \in Statics
  <2>1. None \in InTransfers /\ None \in OutTransfers
    BY Ranges
  <2> QED
    BY <2>1 DEF Statics
<1>2. w.in = None /\ w.out = u.out /\ w.state = u.state /\ w.stalled = u.stalled
  BY DEF Statics
<1>3. SameRest(w, u) /\ SameCommand(w, u) /\ SameFaults(w, u)
  BY StaticsShape DEF StaticFields, SameRest, SameReads, SameWrites, SameCommand, SameFaults
<1> QED
  BY <1>1, <1>2, <1>3

\* A command is executed by the interrupt, while the thread may be filling a buffer.
LEMMA CommandStep ==
    ASSUME ProtocolInvariant, host_command
    PROVE  /\ ProtocolInvariant' /\ StepReports /\ CachesStay /\ SameWrites(u', u)
           /\ ~u.writebuf_overrun /\ host'.got = 0
<1>1. /\ u \in Statics /\ ghost \in Ghosts /\ host \in Hosts
      /\ ~ghost.overtaken /\ InPhase /\ Filled
  BY DEF ProtocolInvariant, Types, Protocol, host_command, Runs, Astray
<1>2. Listening
  BY <1>1, WhoseTurn DEF host_command
<1> DEFINE w == [u EXCEPT !.out = None]
<1>3. PICK c \in Commands :
        /\ c.kind = "write" => c.sector + c.count <= NumSectors
        /\ Work + Odd(c) < MaxWork
        /\ u' = OutComplete(w, c)
        /\ host' = [phase |-> IF Expected(c) > 0 THEN Direction(c) ELSE "csw",
                    sent |-> host.sent + 1, cmd |-> c, got |-> 0]
        /\ ghost' = [ghost EXCEPT !.hit = StillHit, !.odd = @ + Odd(c)]
  BY DEF host_command
<1>4. /\ rbuf' = rbuf /\ wbuf' = wbuf /\ storage' = storage /\ worker' = worker
  BY DEF host_command
<1>5. /\ w \in Statics /\ w.out = None /\ w.in = u.in /\ w.state = u.state
      /\ w.stalled = u.stalled
      /\ SameRest(w, u) /\ SameCommand(w, u) /\ SameFaults(w, u)
  BY <1>1, TakeOut
<1> HIDE DEF w
<1> DEFINE y == [w EXCEPT !.state = "PROCESSING"]
<1>6. u' = handle_scsi(y, c)
  <2>1. w.state = "WAITING_FOR_COMMAND"
    BY <1>2, <1>5 DEF Listening
  <2> QED
    BY <1>3, <2>1 DEF OutComplete
<1>7. y \in Statics
  BY <1>5 DEF Statics, States
<1>8. /\ SameRest(y, w) /\ SameFaults(y, w)
      /\ y.in = w.in /\ y.out = w.out /\ y.stalled = w.stalled /\ y.state = "PROCESSING"
  BY <1>5 DEF Statics, SameRest, SameReads, SameWrites, SameFaults
<1> HIDE DEF y
<1>9. Asks(c)
  BY <1>2, <1>3, <1>4 DEF Asks, Listening, Elsewhere
<1>10. c.kind \in Kinds /\ c.sector \in Sectors /\ c.count \in 0..NumSectors
       /\ Expected(c) \in 0..NumSectors + 1 /\ Expected(c) \in Nat /\ Direction(c) \in {"in", "out"}
  BY CommandNumbers
<1>11. host' \in Hosts
  <2>1. host.sent + 1 \in 0..MaxWork
    <3>1. host.sent \in 0..MaxWork /\ ghost.odd \in Nat /\ Odd(c) \in Nat
      BY <1>1 DEF Hosts, Ghosts, Odd
    <3>2. host.sent + ghost.odd + Odd(c) < MaxWork
      BY <1>3 DEF Work
    <3> QED
      BY <3>1, <3>2, Ranges
  <2>2. c \in [kind : Kinds \cup {"none"}, sector : Sectors, count : 0..NumSectors]
    <3>1. CASE c \in [kind : Kinds \cap {"read", "write"}, sector : Sectors, count : 0..NumSectors]
      BY <3>1
    <3>2. CASE c \in [kind : Kinds \ {"read", "write"}, sector : {0}, count : {0}]
      <4>1. 0 \in Sectors /\ 0 \in 0..NumSectors
        BY Ranges
      <4> QED
        BY <3>2, <4>1
    <3> QED
      BY <3>1, <3>2 DEF Commands
  <2>3. (IF Expected(c) > 0 THEN Direction(c) ELSE "csw") \in {"idle", "in", "out", "csw"}
    BY <1>10
  <2> QED
    BY <1>3, <2>1, <2>2, <2>3 DEF Hosts
<1>12. /\ ghost' \in Ghosts /\ ghost'.unreported = ghost.unreported
       /\ ghost'.overtaken = ghost.overtaken /\ ghost'.relistened = ghost.relistened
  <2> DEFINE H == StillHit
             o == ghost.odd + Odd(c)
  <2>1. H \in SUBSET (Buf \X Sectors)
    BY StillHitType DEF ProtocolInvariant
  <2>2. o \in Nat
    BY <1>1 DEF Ghosts, Odd
  <2>3. ghost' = [ghost EXCEPT !.hit = H, !.odd = o]
    BY <1>3
  <2> HIDE DEF H, o
  <2>4. ghost' \in Ghosts
    BY <1>1, <2>1, <2>2, <2>3 DEF Ghosts
  <2> QED
    BY <1>1, <2>3, <2>4 DEF Ghosts
<1>13. /\ u' \in Statics /\ InPhase' /\ InsideDisk(u')
       /\ SameWrites(u', y) /\ u'.error = y.error /\ Keeps(u', y) /\ FillStays(u', y)
  <2>1. CASE c.kind = "badcbw"
    <3>1. u' = [y EXCEPT !.stalled = y.stalled \cup {"in", "out"}]
      BY <1>6, <2>1 DEF handle_scsi
    <3>2. y.stalled \cup {"in", "out"} \in SUBSET {"in", "out"}
      BY <1>2, <1>5, <1>8 DEF Listening
    <3>3. u' \in Statics
      BY <1>7, <3>1, <3>2 DEF Statics
    <3>4. /\ SameRest(u', y) /\ SameFaults(u', y)
          /\ u'.in = y.in /\ u'.out = y.out /\ u'.state = y.state
      BY <1>7, <3>1 DEF Statics, SameRest, SameReads, SameWrites, SameFaults
    <3>5. Expected(c) = 1 /\ Direction(c) = "in"
      BY <2>1 DEF Expected, Direction
    <3>6. NothingAsked'
      BY <1>2, <1>5, <1>8, <3>4 DEF Listening, NothingAsked, SameRest, SameReads, SameWrites
    <3>7. Quiet'
      BY <1>2, <1>5, <1>8, <1>9, <2>1, <3>4, <3>5, <3>6 DEF Quiet, Asks, Listening
    <3>8. InsideDisk(u') /\ Keeps(u', y) /\ FillStays(u', y)
      BY <1>1, <1>5, <1>8, <3>4
         DEF Filled, InsideDisk, Keeps, FillStays, SameRest, SameReads
    <3> QED
      BY <3>3, <3>4, <3>7, <3>8 DEF InPhase, SameRest, SameFaults
  <2>2. CASE c.kind # "badcbw"
    <3> DEFINE x == [y EXCEPT !.pending = Expected(c), !.direction = Direction(c)]
    <3>1. u' = Execute(x, c)
      BY <1>6, <2>2 DEF handle_scsi
    <3>2. x \in Statics
      BY <1>7, <1>10 DEF Statics
    <3>3. /\ SameRest(x, y) /\ SameFaults(x, y) /\ SamePipes(x, y)
          /\ x.pending = Expected(c) /\ x.direction = Direction(c)
      BY <1>7 DEF Statics, SameRest, SameReads, SameWrites, SameFaults, SamePipes
    <3> HIDE DEF x
    <3>4. Fresh(x, c)
      BY <1>1, <1>2, <1>5, <1>8, <3>2, <3>3
         DEF Fresh, Filled, InsideDisk, Listening, NothingAsked, SameRest, SameReads, SameWrites,
             SamePipes
    <3>5. Executed(x)
      BY <1>9, <2>2, <3>1, <3>4, CommandOutcome
    <3> QED
      BY <3>3, <3>5
         DEF Executed, SameRest, SameReads, SameWrites, SameFaults, Keeps, FillStays
  <2> QED
    BY <2>1, <2>2
<1>14. Types'
  BY <1>4, <1>11, <1>12, <1>13 DEF ProtocolInvariant, Types
<1>15. /\ SameWrites(u', u) /\ u'.error = u.error /\ Keeps(u', u) /\ FillStays(u', u)
  BY <1>5, <1>8, <1>13 DEF SameRest, SameReads, SameWrites, SameFaults, Keeps, FillStays
<1>16. ~u.read_blocked /\ ~u.writebuf_overrun /\ host.cmd.kind # "write"
  BY <1>2 DEF Listening, NothingAsked
<1>17. Filled'
  BY <1>1, <1>4, <1>13, <1>14, <1>15, <1>16, FilledStays DEF ProtocolInvariant
<1>18. ErrorExcused' /\ Reported'
  BY <1>12, <1>15 DEF ProtocolInvariant, ErrorExcused, Reported, SameWrites
<1>19. StepReports /\ CachesStay
  BY <1>15, <1>16 DEF StepReports, CachesStay, Keeps
<1>20. host'.got = 0
  BY <1>9 DEF Asks
<1> QED
  BY <1>13, <1>14, <1>15, <1>16, <1>17, <1>18, <1>19, <1>20 DEF ProtocolInvariant, Protocol

\* Positions in a block.
LEMMA Index ==
    ASSUME NEW a \in Int, NEW b \in Int, NEW n \in 0..BufSectors, NEW k \in Int,
           a + k \in b..b + n - 1
    PROVE  a + k - b \in Slots
BY DiskAssumption DEF Slots

\* Slots are natural numbers below BufSectors,
LEMMA SlotNumber == ASSUME NEW k \in Slots PROVE k \in Nat /\ k < BufSectors
BY DiskAssumption DEF Slots

\* and sectors those below NumSectors.
LEMMA SectorNumber ==
    /\ \A s \in Nat : s < NumSectors => s \in Sectors
    /\ \A s \in Sectors : s \in Nat /\ s < NumSectors
BY DiskAssumption DEF Sectors

\* A block arrived: it is the busy one's successor, or waits until that has been stored.
LEMMA BlockStep ==
    ASSUME ProtocolInvariant, host_sends_block
    PROVE  /\ ProtocolInvariant' /\ StepReports /\ CachesStay /\ Receiving
           /\ u'.readbuf_sector = u.readbuf_sector /\ u'.readbuf_count = u.readbuf_count
           /\ host'.got = host.got + u.length /\ host'.cmd = host.cmd /\ host'.sent = host.sent
           /\ IF u.writebuf_busy
              THEN /\ u'.writebuf_overrun /\ u'.writebuf_busy
                   /\ u'.writebuf_current = u.writebuf_current
                   /\ u'.writebuf_sector = u.writebuf_sector
                   /\ u'.writebuf_count = u.writebuf_count
                   /\ u'.sector = u.sector /\ u'.length = u.length
              ELSE /\ ~u'.writebuf_overrun /\ u'.writebuf_busy
                   /\ u'.writebuf_current = 1 - u.writebuf_current
                   /\ u'.writebuf_sector = u.sector /\ u'.writebuf_count = u.length
<1>1. /\ u \in Statics /\ ghost \in Ghosts /\ host \in Hosts /\ wbuf \in [Buf -> [Slots -> Cells]]
      /\ rbuf \in [Buf -> [Slots -> Cells]] /\ ~ghost.overtaken /\ InPhase /\ Filled
  BY DEF ProtocolInvariant, Types, Protocol, host_sends_block, Runs, Astray
<1>2. Receiving
  BY <1>1, WhoseTurn DEF host_sends_block
<1> DEFINE w == [u EXCEPT !.out = None]
           got == host.got + u.length
           phase == IF got = host.cmd.count THEN "csw" ELSE "out"
<1>3. /\ u.out.buf = 1 - u.writebuf_current /\ u.out.size = u.length
      /\ Expected(host.cmd) = host.cmd.count /\ host.cmd.kind = "write"
  BY <1>2, TransferTos DEF Receiving, Expected
<1>4. /\ u' = OutComplete(w, host.cmd)
      /\ wbuf' = [wbuf EXCEPT ![1 - u.writebuf_current] =
                    [k \in Slots |-> IF k < u.length
                                     THEN <<host.cmd.sector + host.got + k, host.sent>>
                                     ELSE @[k]]]
      /\ rbuf' = update_readcache(u, rbuf, wbuf')
      /\ host' = [host EXCEPT !.got = got, !.phase = phase]
      /\ ghost' = [ghost EXCEPT
                   !.wild = WildCopy(u),
                   !.unreported = @ /\ u'.in # Failed,
                   !.hit = StillHit \cup Hits,
                   !.acked = [s \in Sectors |->
                                IF s \in u.sector..u.sector + u.length - 1
                                THEN @[s] \cup {<<s, host.sent>>} ELSE @[s]]]
      /\ storage' = storage /\ worker' = worker
  BY <1>3 DEF host_sends_block
<1>5. /\ w \in Statics /\ w.out = None /\ w.in = u.in /\ w.state = u.state
      /\ w.stalled = u.stalled
      /\ SameRest(w, u) /\ SameCommand(w, u) /\ SameFaults(w, u)
  BY <1>1, TakeOut
<1> HIDE DEF w
<1>6. /\ u.sector \in Nat /\ u.length \in Nat /\ u.length \in 0..BufSectors /\ u.length > 0
      /\ u.writebuf_current \in Buf /\ 1 - u.writebuf_current \in Buf
      /\ u.sector = Here /\ u.count = Rest /\ Here + Rest <= NumSectors
      /\ u.count = u.pending + u.length /\ u.pending \in Nat /\ u.count \in Nat
      /\ host.got \in Nat /\ host.cmd.sector \in Nat /\ host.cmd.count \in Nat
      /\ host.sent \in 0..MaxWork
      /\ \A i \in Buf : u.readbuf_sector[i] \in Sectors
  BY <1>1, <1>2, HostNumbers, StaticsNumbers DEF Receiving, At, ProtocolInvariant
<1> HIDE DEF got, phase
<1>17. /\ u.sector = host.cmd.sector + host.got /\ u.count = host.cmd.count - host.got
       /\ host.cmd.sector + host.cmd.count <= NumSectors
       /\ got = host.got + u.length
  BY <1>6 DEF Here, Rest, got
<1>19. /\ phase \in {"out", "csw"}
       /\ got = host.cmd.count => phase = "csw"
       /\ got # host.cmd.count => phase = "out"
  BY DEF phase
<1>18. /\ u.sector \in Nat /\ u.length \in Nat /\ u.count \in Nat /\ u.pending \in Nat
       /\ u.count = u.pending + u.length /\ host.got \in Nat
       /\ host.cmd.sector \in Nat /\ host.cmd.count \in Nat
  BY <1>6
<1>7. \A k \in Slots : k < u.length => <<host.cmd.sector + host.got + k, host.sent>> \in Cells
  <2>1. \A k \in Slots : k < u.length => host.cmd.sector + host.got + k \in Sectors
    <3> SUFFICES ASSUME NEW k \in Slots, k < u.length
                 PROVE  host.cmd.sector + host.got + k \in Sectors
      OBVIOUS
    <3>1. k \in Nat /\ NumSectors \in Nat
      BY SlotNumber, DiskAssumption
    <3>2. host.cmd.sector + host.got + k \in Nat /\ host.cmd.sector + host.got + k < NumSectors
      BY <1>17, <1>18, <3>1
    <3> QED
      BY <3>2, SectorNumber
  <2> QED
    BY <1>6, <2>1 DEF Cells
<1>8. wbuf' \in [Buf -> [Slots -> Cells]]
  <2> DEFINE W == [k \in Slots |-> IF k < u.length
                                   THEN <<host.cmd.sector + host.got + k, host.sent>>
                                   ELSE wbuf[1 - u.writebuf_current][k]]
  <2>1. W \in [Slots -> Cells]
    BY <1>1, <1>6, <1>7
  <2>2. wbuf' = [wbuf EXCEPT ![1 - u.writebuf_current] = W]
    BY <1>4
  <2> HIDE DEF W
  <2> QED
    BY <1>1, <1>6, <2>1, <2>2
<1>9. rbuf' \in [Buf -> [Slots -> Cells]]
  <2>1. \A i \in Buf, k \in Slots : k \in Updated(u, i) =>
          u.readbuf_sector[i] + k - u.sector \in Slots
    <3> SUFFICES ASSUME NEW i \in Buf, NEW k \in Slots, k \in Updated(u, i)
                 PROVE  u.readbuf_sector[i] + k - u.sector \in Slots
      OBVIOUS
    <3>1. u.readbuf_sector[i] + k \in u.sector..u.sector + u.length - 1
      BY DEF Updated
    <3>2. u.readbuf_sector[i] \in Int /\ k \in Int
      BY <1>6, Constants
    <3>3. u.length \in 0..BufSectors
      BY <1>6
    <3> QED
      BY <1>18, <3>1, <3>2, <3>3, Index
  <2>2. \A i \in Buf : rbuf'[i] \in [Slots -> Cells]
    <3> SUFFICES ASSUME NEW i \in Buf PROVE rbuf'[i] \in [Slots -> Cells]
      OBVIOUS
    <3>1. rbuf'[i] = IF ~Updates(u, i) THEN rbuf[i]
                     ELSE [k \in Slots |->
                             IF k \in Updated(u, i)
                             THEN wbuf'[u.writebuf_current][u.readbuf_sector[i] + k - u.sector]
                             ELSE rbuf[i][k]]
      BY <1>4 DEF update_readcache
    <3>2. wbuf'[u.writebuf_current] \in [Slots -> Cells] /\ rbuf[i] \in [Slots -> Cells]
      BY <1>1, <1>6, <1>8
    <3>3. \A k \in Slots : k \in Updated(u, i) =>
            wbuf'[u.writebuf_current][u.readbuf_sector[i] + k - u.sector] \in Cells
      BY <2>1, <3>2
    <3> QED
      BY <3>1, <3>2, <3>3
  <2>3. rbuf' = [i \in Buf |-> rbuf'[i]]
    BY <1>4 DEF update_readcache
  <2> QED
    BY <2>2, <2>3
<1>10. /\ host' \in Hosts /\ host'.got = got /\ host'.phase = phase
       /\ host'.cmd = host.cmd /\ host'.sent = host.sent
  <2>1. got \in Nat
    BY <1>17, <1>18
  <2>2. phase \in {"idle", "in", "out", "csw"}
    BY <1>19
  <2> QED
    BY <1>1, <1>4, <2>1, <2>2 DEF Hosts
<1>11. /\ ghost' \in Ghosts /\ (ghost'.unreported => ghost.unreported)
       /\ ghost'.overtaken = ghost.overtaken /\ ghost'.relistened = ghost.relistened
  <2> DEFINE H == StillHit \cup Hits
             un == ghost.unreported /\ u'.in # Failed
             wi == WildCopy(u)
             A == [s \in Sectors |->
                     IF s \in u.sector..u.sector + u.length - 1
                     THEN ghost.acked[s] \cup {<<s, host.sent>>} ELSE ghost.acked[s]]
  <2>1. H \in SUBSET (Buf \X Sectors)
    BY StillHitType DEF ProtocolInvariant, Hits
  <2>2. un \in BOOLEAN /\ wi \in BOOLEAN /\ (un => ghost.unreported)
    BY <1>1 DEF Ghosts, WildCopy
  <2>3. A \in [Sectors -> SUBSET Cells]
    <3>1. \A s \in Sectors : <<s, host.sent>> \in Cells
      BY <1>6 DEF Cells
    <3> QED
      BY <1>1, <3>1 DEF Ghosts
  <2>4. ghost' = [ghost EXCEPT !.wild = wi, !.unreported = un, !.hit = H, !.acked = A]
    BY <1>4
  <2> HIDE DEF H, un, wi, A
  <2>5. ghost' \in Ghosts
    BY <1>1, <2>1, <2>2, <2>3, <2>4 DEF Ghosts
  <2>6. ghost'.unreported = un
    BY <1>1, <2>4 DEF Ghosts
  <2>7. ghost'.overtaken = ghost.overtaken /\ ghost'.relistened = ghost.relistened
    BY <1>1, <2>4 DEF Ghosts
  <2> QED
    BY <2>2, <2>5, <2>6, <2>7
<1>12. u' = BlockComplete(w)
  <2>1. w.state = "RECEIVING_BLOCKS"
    BY <1>2, <1>5 DEF Receiving
  <2> QED
    BY <1>4, <2>1 DEF OutComplete
<1>13. /\ ~u.read_blocked /\ ~u.writebuf_overrun /\ u.sat_pending = "SAT_PENDING_NONE"
       /\ u.in = None /\ u.stalled = {} /\ u.direction = "out" /\ Elsewhere
  BY <1>2 DEF Receiving, NothingAsked
<1>14. Elsewhere'
  BY <1>4, <1>13 DEF Elsewhere
<1>15. CASE u.writebuf_busy
  <2> DEFINE v == [w EXCEPT !.writebuf_overrun = TRUE]
  <2>1. u' = enqueue_async(v)
    BY <1>5, <1>12, <1>15 DEF BlockComplete, SameRest, SameWrites
  <2>2. v \in Statics
    BY <1>5 DEF Statics
  <2>3. /\ SameReads(v, w) /\ SameFaults(v, w) /\ SameCommand(v, w) /\ SamePipes(v, w)
        /\ v.sat_pending = w.sat_pending
        /\ v.writebuf_current = w.writebuf_current
        /\ v.writebuf_sector = w.writebuf_sector
        /\ v.writebuf_count = w.writebuf_count
    BY <1>5 DEF Statics, SameReads, SameFaults, SameCommand, SamePipes
  <2>4. v.writebuf_overrun /\ v.writebuf_busy = w.writebuf_busy /\ v.write_rc = w.write_rc
    BY <1>5 DEF Statics
  <2> HIDE DEF v
  <2>5. /\ u' \in Statics /\ SameRest(u', v) /\ SameCommand(u', v) /\ SamePipes(u', v)
        /\ SameFaults(u', v)
    BY <2>1, <2>2, SignalDoes
  <2>6. /\ SameReads(u', u) /\ SameFaults(u', u) /\ SameCommand(u', u)
        /\ u'.sat_pending = u.sat_pending
        /\ u'.writebuf_current = u.writebuf_current
        /\ u'.writebuf_sector = u.writebuf_sector
        /\ u'.writebuf_count = u.writebuf_count
        /\ u'.in = None /\ u'.out = None /\ u'.stalled = {} /\ u'.state = "RECEIVING_BLOCKS"
    BY <1>2, <1>5, <1>13, <2>3, <2>5
       DEF Receiving, SameRest, SameReads, SameWrites, SameFaults, SameCommand, SamePipes
  <2>7. u'.writebuf_overrun /\ u'.writebuf_busy /\ u'.write_rc = u.write_rc
    BY <1>5, <1>15, <2>4, <2>5 DEF SameRest, SameWrites
  <2>8. Types'
    BY <1>4, <1>8, <1>9, <1>10, <1>11, <2>5 DEF ProtocolInvariant, Types
  <2>9. Overrun'
    <3>1. host'.phase = IF Rest' > 0 THEN "out" ELSE "csw"
      <4>1. Rest' = host.cmd.count - got
        BY <1>10 DEF Rest
      <4>2. host.cmd.count - got > 0 \/ got = host.cmd.count
        BY <1>17, <1>18
      <4>3. got = host.cmd.count => ~(host.cmd.count - got > 0)
        BY <1>17, <1>18
      <4>4. host.cmd.count - got > 0 => got # host.cmd.count
        BY <4>3
      <4> QED
        BY <1>10, <1>19, <4>1, <4>2, <4>3, <4>4
    <3>2. /\ u'.sector = u.sector /\ u'.count = u.count /\ u'.length = u.length
          /\ Here' = host.cmd.sector + got /\ Rest' = host.cmd.count - got
      BY <1>10, <2>6 DEF SameCommand, Here, Rest
    <3>3. At(Here - u.length, Rest + u.length)'
      BY <1>17, <1>18, <3>2 DEF At
    <3> QED
      BY <1>3, <1>6, <1>10, <1>13, <1>14, <2>6, <2>7, <3>1, <3>3
         DEF Overrun, SameReads, SameCommand
  <2>10. InsideDisk(u') /\ FillStays(u', u) /\ CachesStay
    BY <1>1, <1>13, <2>6 DEF Filled, InsideDisk, FillStays, CachesStay, SameReads
  <2>11. Filled'
    BY <1>1, <1>4, <1>13, <2>8, <2>10, FilledStays DEF ProtocolInvariant
  <2>12. ErrorExcused' /\ Reported'
    BY <1>11, <2>6, <2>7 DEF ProtocolInvariant, ErrorExcused, Reported, SameFaults
  <2>13. StepReports
    BY <2>6, TransferTos DEF StepReports
  <2> QED
    BY <1>2, <1>10, <1>15, <1>17, <2>6, <2>7, <2>8, <2>9, <2>10, <2>11, <2>12, <2>13
       DEF ProtocolInvariant, Protocol, InPhase, SameReads, SameCommand
<1>16. CASE ~u.writebuf_busy
  <2> DEFINE v == writebuf_push(w)
  <2>1. u' = enqueue_async(v)
    BY <1>5, <1>12, <1>16 DEF BlockComplete, SameRest, SameWrites
  <2>2. w.direction = "out" /\ w.sector + w.count <= NumSectors /\ w.count = w.pending + w.length
    BY <1>5, <1>6, <1>13 DEF SameCommand
  <2>3. v \in Statics /\ Pushes(v, w)
    BY <1>5, <2>2, PushDoes
  <2> HIDE DEF v
  <2>4. /\ u' \in Statics /\ SameRest(u', v) /\ SameCommand(u', v) /\ SamePipes(u', v)
        /\ SameFaults(u', v)
    BY <2>1, <2>3, SignalDoes
  <2>5. Types'
    BY <1>4, <1>8, <1>9, <1>10, <1>11, <2>4 DEF ProtocolInvariant, Types
  <2>6. /\ SameReads(u', u) /\ SameFaults(u', u) /\ u'.sat_pending = u.sat_pending
    BY <1>5, <2>3, <2>4 DEF Pushes, SameRest, SameReads, SameFaults
  <2>7. /\ u'.writebuf_current = 1 - u.writebuf_current
        /\ u'.writebuf_sector = u.sector /\ u'.writebuf_count = u.length
        /\ u'.sector = u.sector + u.length /\ u'.count = u.count - u.length
        /\ u'.direction = "out" /\ u'.stalled = {}
    BY <1>5, <1>13, <2>3, <2>4 DEF Pushes, SameRest, SameWrites, SameCommand, SamePipes
  <2>8. u'.writebuf_busy /\ ~u'.writebuf_overrun /\ u'.write_rc = u.write_rc
    BY <1>5, <1>13, <2>3, <2>4 DEF Pushes, SameRest, SameWrites
  <2>9. At(Here, Rest)' /\ u'.count = host.cmd.count - got
    <3>1. Here' = host.cmd.sector + got /\ Rest' = host.cmd.count - got
      BY <1>10 DEF Here, Rest
    <3>2. u'.sector = host.cmd.sector + got /\ u'.count = host.cmd.count - got
      BY <1>17, <1>18, <2>7
    <3>3. host.cmd.sector + got + (host.cmd.count - got) <= NumSectors
      BY <1>17, <1>18
    <3> QED
      BY <3>1, <3>2, <3>3 DEF At
  <2>10. NothingAsked'
    BY <1>13, <2>6, <2>8 DEF NothingAsked, SameReads
  <2>11. InPhase'
    <3>1. CASE /\ v.count = 0 /\ v.state = "WAITING_FOR_CSW_COMPLETION" /\ v.out = w.out
               /\ v.in = IF w.write_rc THEN Failed ELSE Passed
      <4>1. host'.got = host'.cmd.count
        <5>1. host.cmd.count - got = 0
          BY <2>4, <2>9, <3>1 DEF SameCommand
        <5>2. got = host.cmd.count
          BY <1>17, <1>18, <5>1
        <5> QED
          BY <1>10, <5>2
      <4>2. host'.phase # "idle"
        BY <1>10, <1>19
      <4>3. Status'
        BY <1>5, <1>14, <2>4, <2>7, <2>10, <3>1, <4>1, <4>2 DEF Status, SamePipes
      <4> QED
        BY <4>3 DEF InPhase
    <3>2. CASE /\ v.count > 0 /\ v.state = "RECEIVING_BLOCKS" /\ v.in = w.in
               /\ v.length > 0 /\ v.count = v.pending + v.length
               /\ v.out = Transfer("block", 1 - v.writebuf_current, 0, v.length)
      <4>1. host'.phase = "out" /\ host'.cmd.kind = "write"
        <5>1. host.cmd.count - got > 0
          BY <2>4, <2>9, <3>2 DEF SameCommand
        <5>2. got # host.cmd.count
          BY <1>17, <1>18, <5>1
        <5> QED
          BY <1>3, <1>10, <1>19, <5>2
      <4>2. /\ u'.length > 0 /\ u'.count = u'.pending + u'.length /\ u'.in = None
            /\ u'.state = "RECEIVING_BLOCKS"
            /\ u'.out = Transfer("block", 1 - u'.writebuf_current, 0, u'.length)
        BY <1>5, <1>13, <2>4, <3>2 DEF SameRest, SameWrites, SameCommand, SamePipes
      <4>3. Receiving'
        BY <1>14, <2>7, <2>9, <2>10, <4>1, <4>2 DEF Receiving
      <4> QED
        BY <4>3 DEF InPhase
    <3> QED
      BY <2>3, <3>1, <3>2 DEF Pushes
  <2>12. InsideDisk(u') /\ FillStays(u', u) /\ CachesStay
    BY <1>1, <1>13, <2>6 DEF Filled, InsideDisk, FillStays, CachesStay, SameReads
  <2>13. Filled'
    BY <1>1, <1>4, <1>13, <2>5, <2>12, FilledStays DEF ProtocolInvariant
  <2>14. ErrorExcused' /\ Reported'
    BY <1>11, <2>6, <2>8 DEF ProtocolInvariant, ErrorExcused, Reported, SameFaults
  <2>15. StepReports
    <3>1. u'.in = Passed => ~w.write_rc
      BY <1>5, <1>13, <2>3, <2>4, TransferTos DEF Pushes, SamePipes
    <3> QED
      BY <1>5, <3>1 DEF StepReports, SameRest, SameWrites
  <2> QED
    BY <1>2, <1>10, <1>16, <1>17, <2>5, <2>6, <2>7, <2>8, <2>11, <2>12, <2>13, <2>14, <2>15
       DEF ProtocolInvariant, Protocol, SameReads
<1> QED
  BY <1>15, <1>16

\* The data of a SAT command are in the buffer that the cache has given up.
LEMMA SatDataStep ==
    ASSUME ProtocolInvariant, host_sends_sat
    PROVE  /\ ProtocolInvariant' /\ StepReports /\ CachesStay /\ SameWrites(u', u)
           /\ ~u.writebuf_overrun /\ host.cmd.kind # "write"
           /\ u'.readbuf_count = u.readbuf_count /\ u'.readbuf_sector = u.readbuf_sector
           /\ \A i \in Buf : rbuf'[i] # rbuf[i] => u.readbuf_count[i] = 0
<1>1. /\ u \in Statics /\ host \in Hosts /\ rbuf \in [Buf -> [Slots -> Cells]]
      /\ ~ghost.overtaken /\ InPhase /\ Filled
  BY DEF ProtocolInvariant, Types, Protocol, host_sends_sat, Runs, Astray
<1>2. SatReceiving
  BY <1>1, WhoseTurn DEF host_sends_sat
<1> DEFINE w == [u EXCEPT !.out = None]
           b == 1 - u.readbuf_current
<1>3. b \in Buf /\ u.out.buf = b
  BY <1>1, <1>2, StaticsNumbers, TransferTos DEF SatReceiving
<1>4. /\ u' = OutComplete(w, host.cmd) /\ rbuf' = [rbuf EXCEPT ![b] = [@ EXCEPT ![0] = Foreign]]
      /\ host' = [host EXCEPT !.phase = "csw"]
      /\ wbuf' = wbuf /\ storage' = storage /\ worker' = worker /\ ghost' = ghost
  BY <1>3 DEF host_sends_sat
<1>5. /\ w \in Statics /\ w.out = None /\ w.in = u.in /\ w.state = u.state
      /\ w.stalled = u.stalled
      /\ SameRest(w, u) /\ SameCommand(w, u) /\ SameFaults(w, u)
  BY <1>1, TakeOut
<1> HIDE DEF w
<1> DEFINE y == [w EXCEPT !.state = "PROCESSING"]
           z == [y EXCEPT !.sat_pending = "SAT_PENDING_CMD"]
<1>6. u' = enqueue_async(z)
  <2>1. w.state = "RECEIVING_SAT_WRITE"
    BY <1>2, <1>5 DEF SatReceiving
  <2> QED
    BY <1>4, <2>1 DEF OutComplete, sat_command
<1>7. y \in Statics
  BY <1>5 DEF Statics, States
<1>8. /\ SameRest(y, w) /\ SameFaults(y, w) /\ SameCommand(y, w)
      /\ y.in = w.in /\ y.out = w.out /\ y.stalled = w.stalled /\ y.state = "PROCESSING"
  BY <1>5 DEF Statics, SameRest, SameReads, SameWrites, SameFaults, SameCommand
<1> HIDE DEF y
<1>9. z \in Statics
  BY <1>7 DEF Statics, Requests
<1>10. /\ SameReads(z, y) /\ SameWrites(z, y) /\ SameFaults(z, y) /\ SameCommand(z, y)
       /\ SamePipes(z, y) /\ z.sat_pending = "SAT_PENDING_CMD"
  BY <1>7 DEF Statics, SameReads, SameWrites, SameFaults, SameCommand, SamePipes
<1> HIDE DEF z
<1>11. /\ u' \in Statics /\ SameRest(u', z) /\ SameCommand(u', z) /\ SamePipes(u', z)
       /\ SameFaults(u', z)
  BY <1>6, <1>9, SignalDoes
<1>12. SameReads(u', u)
  BY <1>5, <1>8, <1>10, <1>11 DEF SameRest, SameReads
<1>13. SameWrites(u', u)
  BY <1>5, <1>8, <1>10, <1>11 DEF SameRest, SameWrites
<1>14. /\ u'.state = "PROCESSING" /\ u'.in = u.in /\ u'.out = None /\ u'.stalled = u.stalled
       /\ u'.sat_pending = "SAT_PENDING_CMD" /\ SameFaults(u', u) /\ u'.pending = u.pending
  BY <1>5, <1>8, <1>10, <1>11 DEF SameRest, SamePipes, SameFaults, SameCommand
<1>15. rbuf' \in [Buf -> [Slots -> Cells]]
  <2> DEFINE R == [rbuf[b] EXCEPT ![0] = Foreign]
  <2>1. R \in [Slots -> Cells]
    BY <1>1, <1>3, Ranges
  <2>2. rbuf' = [rbuf EXCEPT ![b] = R]
    BY <1>4
  <2> HIDE DEF R
  <2> QED
    BY <1>1, <1>3, <2>1, <2>2
<1>16. /\ host' \in Hosts /\ host'.phase = "csw" /\ host'.cmd = host.cmd
  BY <1>1, <1>4 DEF Hosts
<1>17. Types'
  BY <1>4, <1>11, <1>15, <1>16 DEF ProtocolInvariant, Types
<1>18. SatWaiting'
  BY <1>2, <1>4, <1>12, <1>13, <1>14, <1>16
     DEF SatWaiting, SatReceiving, NothingAsked, SameReads, SameWrites, Elsewhere
<1>19. ~u.read_blocked /\ ~u.writebuf_overrun /\ host.cmd.kind # "write" /\ u.in = None
       /\ u.readbuf_count[b] = 0
  BY <1>2 DEF SatReceiving, NothingAsked
<1>20. InsideDisk(u') /\ FillStays(u', u) /\ CachesStay
  BY <1>1, <1>12, <1>19 DEF Filled, InsideDisk, FillStays, CachesStay, SameReads
<1>21. Filled'
  BY <1>1, <1>4, <1>17, <1>19, <1>20, FilledStays DEF ProtocolInvariant
<1>22. ErrorExcused' /\ Reported'
  BY <1>4, <1>13, <1>14 DEF ProtocolInvariant, ErrorExcused, Reported, SameFaults, SameWrites
<1>23. StepReports
  BY <1>19 DEF StepReports
<1>24. \A i \in Buf : rbuf'[i] # rbuf[i] => u.readbuf_count[i] = 0
  BY <1>1, <1>4, <1>19
<1> QED
  BY <1>12, <1>13, <1>17, <1>18, <1>19, <1>20, <1>21, <1>22, <1>23, <1>24
     DEF ProtocolInvariant, Protocol, InPhase, SameReads

\* A halt of the IN endpoint is cleared: the status can be taken, or the next command sent.
LEMMA ClearInStep ==
    ASSUME ProtocolInvariant, host_clears_in
    PROVE  /\ ProtocolInvariant' /\ StepReports /\ CachesStay /\ SameWrites(u', u)
           /\ ~u.writebuf_overrun /\ SameReads(u', u)
<1>1. /\ u \in Statics /\ host \in Hosts
      /\ ~ghost.overtaken /\ InPhase /\ Filled
  BY DEF ProtocolInvariant, Types, Protocol, host_clears_in, Runs, Astray
<1>2. Status \/ Quiet
  BY <1>1, WhoseTurn DEF host_clears_in
<1>3. /\ host.phase = "in" /\ "in" \in u.stalled /\ u' = [u EXCEPT !.stalled = @ \ {"in"}]
      /\ host' = [host EXCEPT !.phase = IF u.in.to = "csw" THEN "csw" ELSE "idle"]
      /\ rbuf' = rbuf /\ wbuf' = wbuf /\ storage' = storage /\ worker' = worker /\ ghost' = ghost
  BY DEF host_clears_in
<1>4. u' \in Statics
  BY <1>1, <1>3 DEF Statics
<1>5. /\ SameRest(u', u) /\ SameCommand(u', u) /\ SameFaults(u', u)
      /\ u'.in = u.in /\ u'.out = u.out /\ u'.state = u.state /\ u'.stalled = u.stalled \ {"in"}
  BY <1>1, <1>3 DEF Statics, SameRest, SameReads, SameWrites, SameCommand, SameFaults
<1>6. /\ host' \in Hosts /\ host'.cmd = host.cmd /\ host'.got = host.got
      /\ host'.phase = IF u.in.to = "csw" THEN "csw" ELSE "idle"
  BY <1>1, <1>3 DEF Hosts
<1>7. Types'
  BY <1>3, <1>4, <1>6 DEF ProtocolInvariant, Types
<1>8. NothingAsked /\ NothingAsked' /\ Elsewhere /\ Elsewhere'
  BY <1>2, <1>3, <1>5 DEF Status, Quiet, NothingAsked, Elsewhere, SameRest, SameReads, SameWrites
<1>9. InPhase'
  <2>1. CASE Status
    <3>1. Status'
      BY <1>3, <1>5, <1>6, <1>8, <2>1, TransferTos DEF Status
    <3> QED
      BY <3>1 DEF InPhase
  <2>2. CASE Quiet
    <3>1. Quiet'
      BY <1>3, <1>5, <1>6, <1>8, <2>2, TransferTos DEF Quiet
    <3> QED
      BY <3>1 DEF InPhase
  <2> QED
    BY <1>2, <2>1, <2>2
<1>10. InsideDisk(u') /\ FillStays(u', u) /\ CachesStay
  BY <1>1, <1>5, <1>8
     DEF Filled, InsideDisk, FillStays, CachesStay, SameRest, SameReads, NothingAsked
<1>11. Filled'
  BY <1>1, <1>3, <1>7, <1>8, <1>10, FilledStays DEF ProtocolInvariant, NothingAsked
<1>12. ErrorExcused' /\ Reported'
  BY <1>3, <1>5 DEF ProtocolInvariant, ErrorExcused, Reported, SameFaults, SameRest, SameWrites
<1>13. StepReports
  BY <1>5 DEF StepReports
<1> QED
  BY <1>5, <1>7, <1>8, <1>9, <1>10, <1>11, <1>12, <1>13
     DEF ProtocolInvariant, Protocol, NothingAsked, SameRest

\* A halt of the OUT endpoint is cleared: the application listens for a command, with the
\* status of a refused WRITE still on its way.
LEMMA ClearOutStep ==
    ASSUME ProtocolInvariant, host_clears_out
    PROVE  /\ ProtocolInvariant' /\ StepReports /\ CachesStay /\ SameWrites(u', u)
           /\ ~u.writebuf_overrun /\ SameReads(u', u)
<1>1. /\ u \in Statics /\ host \in Hosts /\ ghost \in Ghosts
      /\ ~ghost.overtaken /\ InPhase /\ Filled
  BY DEF ProtocolInvariant, Types, Protocol, host_clears_out, Runs, Astray
<1>2. Status \/ Quiet
  BY <1>1, WhoseTurn DEF host_clears_out
<1> DEFINE w == ums_listen(u)
<1>3. /\ host.phase \in {"out", "idle"} /\ "out" \in u.stalled /\ "in" \notin u.stalled
      /\ u' = [w EXCEPT !.stalled = @ \ {"out"}]
      /\ host' = [host EXCEPT !.phase = IF host.phase = "out" THEN "csw" ELSE "idle"]
      /\ ghost' = [ghost EXCEPT !.relistened = @ \/ u.state # "PROCESSING"]
      /\ rbuf' = rbuf /\ wbuf' = wbuf /\ storage' = storage /\ worker' = worker
  BY DEF host_clears_out
<1>4. /\ w \in Statics /\ SameRest(w, u) /\ SameCommand(w, u) /\ SameFaults(w, u)
      /\ w.state = "WAITING_FOR_COMMAND" /\ w.out = Command
      /\ w.in = u.in /\ w.stalled = u.stalled
  BY <1>1, ListenDoes DEF Command
<1> HIDE DEF w
<1>5. u' \in Statics
  BY <1>3, <1>4 DEF Statics
<1>6. /\ SameRest(u', w) /\ SameCommand(u', w) /\ SameFaults(u', w)
      /\ u'.in = w.in /\ u'.out = w.out /\ u'.state = w.state /\ u'.stalled = w.stalled \ {"out"}
  BY <1>3, <1>4 DEF Statics, SameRest, SameReads, SameWrites, SameCommand, SameFaults
<1>7. /\ SameRest(u', u) /\ SameFaults(u', u)
      /\ u'.in = u.in /\ u'.out = Command /\ u'.state = "WAITING_FOR_COMMAND"
  BY <1>4, <1>6 DEF SameRest, SameReads, SameWrites, SameFaults
<1>8. u'.stalled = {}
  <2>1. u.stalled \subseteq {"in", "out"}
    BY <1>1 DEF Statics
  <2> QED
    BY <1>3, <1>4, <1>6, <2>1
<1>9. /\ host' \in Hosts /\ host'.cmd = host.cmd /\ host'.got = host.got
      /\ host'.phase = IF host.phase = "out" THEN "csw" ELSE "idle"
  BY <1>1, <1>3 DEF Hosts
<1>10. /\ ghost' \in Ghosts /\ ghost'.unreported = ghost.unreported
       /\ ghost'.overtaken = ghost.overtaken /\ (ghost.relistened => ghost'.relistened)
       /\ u.state # "PROCESSING" => ghost'.relistened
  BY <1>1, <1>3 DEF Ghosts
<1>11. Types'
  BY <1>3, <1>5, <1>9, <1>10 DEF ProtocolInvariant, Types
<1>12. NothingAsked /\ NothingAsked' /\ Elsewhere /\ Elsewhere'
  BY <1>2, <1>3, <1>7 DEF Status, Quiet, NothingAsked, Elsewhere, SameRest, SameReads, SameWrites
<1>13. InPhase'
  <2>1. CASE Status
    <3>1. host.phase = "out" /\ u.in = Failed /\ u.state = "WAITING_FOR_CSW_COMPLETION"
      BY <1>3, <2>1 DEF Status
    <3>2. Relistened'
      BY <1>7, <1>8, <1>9, <1>10, <1>12, <3>1 DEF Relistened
    <3> QED
      BY <3>2 DEF InPhase
  <2>2. CASE Quiet
    <3>1. host.phase = "idle" /\ host.cmd.kind = "badcbw" /\ u.in = None
      BY <1>3, <2>2 DEF Quiet
    <3>2. Listening'
      BY <1>7, <1>8, <1>9, <1>12, <3>1 DEF Listening
    <3> QED
      BY <3>2 DEF InPhase
  <2> QED
    BY <1>2, <2>1, <2>2
<1>14. InsideDisk(u') /\ FillStays(u', u) /\ CachesStay
  BY <1>1, <1>7, <1>12
     DEF Filled, InsideDisk, FillStays, CachesStay, SameRest, SameReads, NothingAsked
<1>15. Filled'
  BY <1>1, <1>3, <1>11, <1>12, <1>14, FilledStays DEF ProtocolInvariant, NothingAsked
<1>16. ErrorExcused' /\ Reported'
  BY <1>7, <1>10 DEF ProtocolInvariant, ErrorExcused, Reported, SameFaults, SameRest, SameWrites
<1>17. StepReports
  BY <1>7 DEF StepReports
<1> QED
  BY <1>7, <1>11, <1>12, <1>13, <1>14, <1>15, <1>16, <1>17
     DEF ProtocolInvariant, Protocol, NothingAsked, SameRest

\* The status is taken: the application listens for the next command.
LEMMA TakesCswStep ==
    ASSUME ProtocolInvariant, host_takes_csw
    PROVE  /\ ProtocolInvariant' /\ StepReports /\ CachesStay /\ SameWrites(u', u)
           /\ ~u.writebuf_overrun /\ SameReads(u', u) /\ ghost'.overtaken = ghost.overtaken
           /\ u.in = Passed /\ host.cmd.kind = "write" => host.got = host.cmd.count
           /\ host'.cmd.kind # "write"
<1>1. /\ u \in Statics /\ host \in Hosts /\ ghost \in Ghosts
      /\ ~ghost.overtaken /\ InPhase /\ Filled
  BY DEF ProtocolInvariant, Types, Protocol, host_takes_csw, Runs, Astray
<1>2. Status \/ Relistened
  BY <1>1, WhoseTurn DEF host_takes_csw
<1> DEFINE w == [u EXCEPT !.in = None]
           A == [s \in Sectors |->
                   IF /\ host.cmd.kind = "write" /\ u.in = Passed
                      /\ s \in host.cmd.sector..host.cmd.sector + host.cmd.count - 1
                   THEN {<<s, host.sent>>}
                        \cup (IF s \in ghost.lost THEN ghost.acked[s] ELSE {})
                   ELSE ghost.acked[s]]
<1>3. NothingAsked /\ Elsewhere /\ ~Overtakes
  BY <1>2 DEF Status, Relistened, Elsewhere, Overtakes
<1>4. /\ host.phase = "csw" /\ "in" \notin u.stalled /\ u' = InComplete(w)
      /\ host' = [host EXCEPT !.phase = "idle", !.cmd = Idle, !.got = 0]
      /\ ghost' = [ghost EXCEPT !.overtaken = @ \/ Overtakes, !.acked = A]
      /\ rbuf' = rbuf /\ wbuf' = wbuf /\ storage' = storage /\ worker' = worker
  BY DEF host_takes_csw
<1>5. /\ w \in Statics /\ w.in = None /\ w.out = u.out /\ w.state = u.state
      /\ w.stalled = u.stalled
      /\ SameRest(w, u) /\ SameCommand(w, u) /\ SameFaults(w, u)
  BY <1>1, TakeIn
<1> HIDE DEF w
<1>6. u.stalled = {}
  <2>1. u.stalled \subseteq {"in", "out"}
    BY <1>1 DEF Statics
  <2> QED
    BY <1>2, <1>4, <2>1 DEF Status, Relistened
<1>7. /\ u' \in Statics /\ SameRest(u', w) /\ u'.state = "WAITING_FOR_COMMAND"
      /\ u'.out = Command /\ u'.in = None /\ u'.stalled = {}
      /\ u'.error => u.error \/ ghost.relistened
  <2>1. CASE Status
    <3>1. u' = ums_listen(w)
      BY <1>4, <1>5, <2>1 DEF InComplete, Status
    <3> QED
      BY <1>5, <1>6, <3>1, ListenDoes DEF Command, SameFaults
  <2>2. CASE Relistened
    <3>1. u' = fail(w)
      BY <1>4, <1>5, <2>2 DEF InComplete, Relistened
    <3> QED
      BY <1>5, <1>6, <2>2, <3>1, FailDoes DEF Relistened, SamePipes
  <2> QED
    BY <1>2, <2>1, <2>2
<1>8. SameReads(u', u) /\ SameWrites(u', u) /\ u'.sat_pending = u.sat_pending
  BY <1>5, <1>7 DEF SameRest, SameReads, SameWrites
<1>9. A \in [Sectors -> SUBSET Cells]
  <2>1. \A s \in Sectors : <<s, host.sent>> \in Cells
    BY <1>1 DEF Cells, Hosts
  <2> QED
    BY <1>1, <2>1 DEF Ghosts
<1> HIDE DEF A
<1>10. /\ ghost' \in Ghosts /\ ghost'.unreported = ghost.unreported
       /\ ghost'.overtaken = ghost.overtaken /\ ghost'.relistened = ghost.relistened
  BY <1>1, <1>3, <1>4, <1>9 DEF Ghosts
<1>11. /\ host' \in Hosts /\ host'.phase = "idle" /\ host'.cmd.kind = "none"
  <2>1. /\ Idle \in [kind : Kinds \cup {"none"}, sector : Sectors, count : 0..NumSectors]
        /\ Idle.kind = "none"
    <3>1. 0 \in Sectors /\ 0 \in 0..NumSectors
      BY Ranges
    <3> QED
      BY <3>1 DEF Idle
  <2> QED
    BY <1>1, <1>4, <2>1 DEF Hosts
<1>12. Types'
  BY <1>4, <1>7, <1>10, <1>11 DEF ProtocolInvariant, Types
<1>13. NothingAsked' /\ Elsewhere'
  BY <1>3, <1>4, <1>8 DEF NothingAsked, Elsewhere, SameReads, SameWrites
<1>14. InPhase'
  BY <1>7, <1>11, <1>13 DEF InPhase, Listening
<1>15. InsideDisk(u') /\ FillStays(u', u) /\ CachesStay
  BY <1>1, <1>3, <1>8
     DEF Filled, InsideDisk, FillStays, CachesStay, SameReads, NothingAsked
<1>16. Filled'
  BY <1>1, <1>3, <1>4, <1>12, <1>15, FilledStays DEF ProtocolInvariant, NothingAsked
<1>17. ErrorExcused' /\ Reported'
  BY <1>7, <1>8, <1>10 DEF ProtocolInvariant, ErrorExcused, Reported, SameWrites
<1>18. StepReports
  BY <1>7, TransferTos DEF StepReports
<1>19. u.in = Passed /\ host.cmd.kind = "write" => host.got = host.cmd.count
  BY <1>2, TransferTos DEF Status, Relistened
<1> QED
  BY <1>3, <1>8, <1>10, <1>11, <1>12, <1>14, <1>15, <1>16, <1>17, <1>18, <1>19
     DEF ProtocolInvariant, Protocol, NothingAsked

\* What happens to a transfer that is over, as far as all phases have it in common.
LEMMA DataTaken ==
    ASSUME ProtocolInvariant, host_takes_data
    PROVE  LET w == [u EXCEPT !.in = None] IN
           /\ u' = InComplete(w)
           /\ w \in Statics /\ w.in = None /\ w.out = u.out /\ w.state = u.state
           /\ w.stalled = u.stalled
           /\ SameRest(w, u) /\ SameCommand(w, u) /\ SameFaults(w, u)
           /\ InPhase /\ Filled /\ ~ghost.overtaken /\ host.phase = "in"
           /\ u.in.to \in {"block", "result"} /\ u.in.size \in Nat
           /\ ghost' \in Ghosts /\ ghost'.unreported = ghost.unreported
           /\ ghost'.overtaken = Overtakes /\ ghost'.relistened = ghost.relistened
           /\ host' \in Hosts /\ host'.cmd = host.cmd /\ host'.got = host.got + u.in.size
           /\ host'.phase \in {"in", "csw"}
           /\ ~(host.got + u.in.size >= Expected(host.cmd)) => host'.phase = "in"
           /\ rbuf' = rbuf /\ wbuf' = wbuf /\ storage' = storage /\ worker' = worker
<1> DEFINE w == [u EXCEPT !.in = None]
           g == host.got + u.in.size
           p == IF g >= Expected(host.cmd) THEN "csw" ELSE "in"
           H == StillHit
           a == ghost.wrapped \/ (u.in.to = "block" /\ Wraps(u, u.in.buf))
           r == IF u.in.to = "block" THEN ghost.wrong \cup Wrong ELSE ghost.wrong
           o == ghost.overtaken \/ Overtakes
<1>1. /\ u \in Statics /\ host \in Hosts /\ ghost \in Ghosts
      /\ ghost.overtaken = FALSE /\ InPhase /\ Filled
  BY DEF ProtocolInvariant, Types, Ghosts, Protocol, host_takes_data, Runs, Astray
<1>2. /\ host.phase = "in" /\ u.in.to \in {"block", "result"} /\ u' = InComplete(w)
      /\ host' = [host EXCEPT !.got = g, !.phase = p]
      /\ ghost' = [ghost EXCEPT !.overtaken = o, !.hit = H, !.wrapped = a, !.wrong = r]
      /\ rbuf' = rbuf /\ wbuf' = wbuf /\ storage' = storage /\ worker' = worker
  BY DEF host_takes_data
<1>3. /\ w \in Statics /\ w.in = None /\ w.out = u.out /\ w.state = u.state
      /\ w.stalled = u.stalled
      /\ SameRest(w, u) /\ SameCommand(w, u) /\ SameFaults(w, u)
  BY <1>1, TakeIn
<1>4. u.in.size \in Nat
  BY <1>1, Ranges DEF Statics, InTransfers, TransfersTo
<1>5. g \in Nat
  BY <1>1, <1>4 DEF Hosts
<1>6. p \in {"in", "csw"} /\ (~(host.got + u.in.size >= Expected(host.cmd)) => p = "in")
  OBVIOUS
<1>7. H \in SUBSET (Buf \X Sectors)
  BY StillHitType DEF ProtocolInvariant
<1>8. a \in BOOLEAN /\ o \in BOOLEAN /\ r \in SUBSET Sectors /\ o = Overtakes
  BY <1>1 DEF Ghosts, Overtakes, Wrong
<1> HIDE DEF w, g, p, H, a, r, o
<1>9. /\ host' \in Hosts /\ host'.cmd = host.cmd /\ host'.got = g /\ host'.phase = p
  BY <1>1, <1>2, <1>5, <1>6 DEF Hosts
<1>10. ghost' \in Ghosts
  BY <1>1, <1>2, <1>7, <1>8 DEF Ghosts
<1>11. /\ ghost'.unreported = ghost.unreported
       /\ ghost'.overtaken = o /\ ghost'.relistened = ghost.relistened
  BY <1>1, <1>2 DEF Ghosts
<1> QED
  BY <1>1, <1>2, <1>3, <1>4, <1>6, <1>8, <1>9, <1>10, <1>11 DEF w, g

\* The data is taken: the status, the next block or the wait for it.  If the thread has not
\* noted what it sent, this is the overtaking.
LEMMA TakesDataStep ==
    ASSUME ProtocolInvariant, host_takes_data
    PROVE  /\ ProtocolInvariant' /\ StepReports /\ SameWrites(u', u)
           /\ ~ghost'.overtaken => CachesStay
           /\ ~u.writebuf_overrun /\ host.cmd.kind # "write"
<1> DEFINE w == [u EXCEPT !.in = None]
<1>1. /\ u' = InComplete(w)
      /\ w \in Statics /\ w.in = None /\ w.out = u.out /\ w.state = u.state
      /\ w.stalled = u.stalled
      /\ SameRest(w, u) /\ SameCommand(w, u) /\ SameFaults(w, u)
      /\ InPhase /\ Filled /\ ~ghost.overtaken /\ host.phase = "in"
      /\ u.in.to \in {"block", "result"} /\ u.in.size \in Nat
      /\ ghost' \in Ghosts /\ ghost'.unreported = ghost.unreported
      /\ ghost'.overtaken = Overtakes /\ ghost'.relistened = ghost.relistened
      /\ host' \in Hosts /\ host'.cmd = host.cmd /\ host'.got = host.got + u.in.size
      /\ host'.phase \in {"in", "csw"}
      /\ ~(host.got + u.in.size >= Expected(host.cmd)) => host'.phase = "in"
      /\ rbuf' = rbuf /\ wbuf' = wbuf /\ storage' = storage /\ worker' = worker
  BY DataTaken
<1> HIDE DEF w
<1>2. u \in Statics
  BY DEF ProtocolInvariant, Types
<1>3. SendingResult \/ SendingBlocks \/ NotingBlock \/ NotingResult
  BY <1>1, <1>2, WhoseTurn
<1>4. ~u.writebuf_overrun /\ host.cmd.kind # "write" /\ ~u.read_blocked
  BY <1>3 DEF SendingResult, SendingBlocks, NotingBlock, NotingResult, Reading, NothingAsked
<1>5. StepReports
  BY <1>4 DEF StepReports
<1>6. ASSUME u' \in Statics PROVE Types'
  BY <1>1, <1>6 DEF ProtocolInvariant, Types
<1>7. ASSUME SameWrites(u', w) PROVE SameWrites(u', u) /\ Reported'
  BY <1>1, <1>7 DEF ProtocolInvariant, Reported, SameRest, SameWrites
<1>8. CASE NotingBlock \/ NotingResult
  <2>1. Overtakes
    BY <1>8 DEF NotingBlock, NotingResult, Overtakes
  <2>2. u' \in Statics /\ SameWrites(u', w)
    <3>1. CASE u.state = "PROCESSING"
      <4>1. u' = fail(w)
        BY <1>1, <3>1 DEF InComplete
      <4> QED
        BY <1>1, <4>1, FailDoes DEF SameRest
    <3>2. CASE u.state # "PROCESSING"
      <4>1. NotingBlock /\ u.state = "SENDING_BLOCKS"
        BY <1>8, <3>2 DEF NotingBlock, NotingResult
      <4>2. w.state = "SENDING_BLOCKS" /\ w.count > 0 /\ Asking(w)
        <5>1. u.count > 0 /\ u.direction = "in" /\ u.sector + u.count <= NumSectors
          <6>1. /\ u.count = u.pending + u.in.size /\ u.in.size > 0 /\ At(Here, Rest)
                /\ u.direction = "in"
            BY <4>1 DEF NotingBlock, BlockSent, Reading
          <6> QED
            BY <1>1, <1>2, <6>1, StaticsNumbers DEF At
        <5> QED
          BY <1>1, <4>1, <5>1 DEF Asking, SameCommand
      <4>3. u' = send_and_read_next(w)
        <5>1. w.count # 0
          BY <1>1, <4>2, StaticsNumbers
        <5> QED
          BY <1>1, <4>2, <5>1 DEF InComplete
      <4>4. InsideDisk(w)
        BY <1>1 DEF Filled, InsideDisk, SameRest, SameReads
      <4> QED
        BY <1>1, <4>2, <4>3, <4>4, NextDoes
    <3> QED
      BY <3>1, <3>2
  <2> QED
    BY <1>1, <1>4, <1>5, <1>6, <1>7, <2>1, <2>2 DEF ProtocolInvariant, Protocol, ErrorExcused
<1>9. CASE ~(NotingBlock \/ NotingResult)
  <2>1. Elsewhere /\ Elsewhere' /\ ~Overtakes
    BY <1>1, <1>3, <1>9 DEF SendingResult, SendingBlocks, Elsewhere, Overtakes
  <2>2. /\ w.out = None /\ w.in = None /\ w.stalled = {} /\ w.direction = "in"
        /\ ~w.writebuf_overrun /\ w.sat_pending = "SAT_PENDING_NONE" /\ ~w.read_blocked
    BY <1>1, <1>3, <1>9
       DEF SendingResult, SendingBlocks, Reading, NothingAsked, SameRest, SameReads, SameWrites,
           SameCommand
  <2>3. InsideDisk(w)
    BY <1>1 DEF Filled, InsideDisk, SameRest, SameReads
  <2>4. ASSUME u' \in Statics, SameWrites(u', w), SameFaults(u', w), Keeps(u', w),
               InsideDisk(u'), FillStays(u', w), InPhase'
        PROVE  ProtocolInvariant' /\ SameWrites(u', u) /\ CachesStay
    <3>1. Types' /\ SameWrites(u', u) /\ Reported'
      BY <1>6, <1>7, <2>4
    <3>2. ErrorExcused'
      BY <1>1, <2>4 DEF ProtocolInvariant, ErrorExcused, SameFaults
    <3>3. FillStays(u', u) /\ CachesStay
      BY <1>1, <2>4 DEF Keeps, CachesStay, FillStays, SameRest, SameReads
    <3>4. Filled'
      BY <1>1, <1>4, <2>4, <3>1, <3>3, FilledStays DEF ProtocolInvariant
    <3> QED
      BY <2>4, <3>1, <3>2, <3>3, <3>4 DEF ProtocolInvariant, Protocol
  <2>5. CASE u' = send_csw(w, Passed)
    <3>1. /\ u' \in Statics /\ SameRest(u', w) /\ SameCommand(u', w) /\ SameFaults(u', w)
          /\ u'.state = "WAITING_FOR_CSW_COMPLETION" /\ u'.in = Passed /\ u'.out = w.out
          /\ u'.stalled = IF w.pending > 0 THEN w.stalled \cup {w.direction} ELSE w.stalled
      <4>1. w \in Statics
        BY <1>1
      <4> QED
        BY <2>5, <4>1, CswDoes, Ranges
    <3>2. "out" \notin u'.stalled
      BY <2>2, <3>1
    <3>3. NothingAsked'
      BY <2>2, <3>1 DEF NothingAsked, SameRest, SameReads, SameWrites
    <3>4. Status'
      BY <1>1, <1>4, <2>1, <2>2, <3>1, <3>2, <3>3 DEF Status
    <3>5. Keeps(u', w) /\ InsideDisk(u') /\ FillStays(u', w)
      BY <2>3, <3>1, <3>3 DEF Keeps, InsideDisk, FillStays, SameRest, SameReads, NothingAsked
    <3> QED
      BY <1>4, <1>5, <2>4, <3>1, <3>4, <3>5 DEF InPhase, SameRest
  <2>6. CASE SendingResult
    <3>1. u' = send_csw(w, Passed)
      BY <1>1, <2>6 DEF InComplete, SendingResult
    <3> QED
      BY <2>5, <3>1
  <2>7. CASE SendingBlocks /\ u.count = 0
    <3>1. u' = send_csw(w, Passed)
      BY <1>1, <2>7 DEF InComplete, SendingBlocks, SameCommand
    <3> QED
      BY <2>5, <3>1
  <2>8. CASE SendingBlocks /\ u.count # 0
    <3>1. u' = send_and_read_next(w)
      BY <1>1, <2>8 DEF InComplete, SendingBlocks, SameCommand
    <3>2. w.pending = w.count /\ w.count > 0 /\ Asking(w)
      <4>1. u.pending = u.count /\ u.sector + u.count <= NumSectors
        BY <2>8 DEF SendingBlocks, At
      <4>2. u.count > 0
        BY <1>2, <2>8, StaticsNumbers
      <4> QED
        BY <1>1, <2>2, <4>1, <4>2 DEF Asking, SameCommand
    <3>3. u' \in Statics /\ SameWrites(u', w) /\ (Waits(u', w) \/ Sends(u', w))
      BY <1>1, <2>3, <3>1, <3>2, NextDoes
    <3>4. Keeps(u', w) /\ InsideDisk(u') /\ FillStays(u', w)
      BY <1>1, <2>3, <3>3, NextKeeps
    <3>5. SameFaults(u', w)
      BY <3>3 DEF Waits, Sends, SendsFrom
    <3>6. /\ w.sector = Here' /\ w.count = Rest' /\ host'.phase = "in" /\ host'.cmd.kind = "read"
      <4>1. u.sector = Here + u.in.size /\ u.count = Rest - u.in.size /\ host.cmd.kind = "read"
        BY <2>8 DEF SendingBlocks, At, Reading
      <4>2. Expected(host.cmd) = host.cmd.count
        BY <4>1 DEF Expected
      <4>3. host.got \in Nat /\ host.cmd.count \in Nat /\ host.cmd.sector \in Nat
        BY HostNumbers DEF ProtocolInvariant
      <4>4. Here' = host.cmd.sector + (host.got + u.in.size)
            /\ Rest' = host.cmd.count - (host.got + u.in.size)
        BY <1>1 DEF Here, Rest
      <4>5. u.sector = Here' /\ u.count = Rest'
        BY <1>1, <4>1, <4>3, <4>4 DEF Here, Rest
      <4>6. ~(host.got + u.in.size >= host.cmd.count)
        <5>1. u.count > 0
          BY <1>1, <3>2 DEF SameCommand
        <5> QED
          BY <1>1, <4>3, <4>4, <4>5, <5>1
      <4> QED
        BY <1>1, <4>1, <4>2, <4>5, <4>6 DEF SameCommand
    <3>7. InPhase'
      <4>1. CASE Waits(u', w)
        <5>1. Reading' /\ u'.in = None /\ u'.read_blocked
          BY <2>2, <3>6, <4>1 DEF Reading, Waits, SamePipes, SameWrites, SameCommand
        <5>2. At(Here, Rest)' /\ u'.count > 0 /\ u'.pending = u'.count
          BY <3>2, <3>6, <4>1 DEF At, Waits, SameCommand, Asking
        <5>3. u'.state = "SENDING_BLOCKS"
          BY <1>1, <2>8, <4>1 DEF Waits, SamePipes, SendingBlocks
        <5> QED
          BY <2>1, <5>1, <5>2, <5>3 DEF InPhase, ReadWait
      <4>2. CASE Sends(u', w)
        <5>1. PICK i \in Buf, n \in 1..NumSectors : SendsFrom(u', w, i, n)
          BY <4>2 DEF Sends
        <5>2. /\ u'.in.to = "block" /\ u'.in.buf = i /\ u'.in.size = n
              /\ u'.in.off = w.sector - w.readbuf_sector[i]
          BY <5>1, TransferTos DEF SendsFrom
        <5>3. Reading' /\ ~u'.read_blocked /\ u'.state = "SENDING_BLOCKS"
          BY <2>2, <3>6, <5>1 DEF Reading, SendsFrom, SameWrites
        <5>4. u'.readbuf_sector[i] = w.readbuf_sector[i] /\ u'.readbuf_count[i] = w.readbuf_count[i]
          <6>1. i # 1 - w.readbuf_current \/ SameReadBuffers(u', w)
            BY <1>1, <5>1, Ranges, StaticsNumbers DEF SendsFrom
          <6> QED
            BY <5>1, <6>1 DEF SendsFrom, OtherTurned, SameReadBuffers
        <5>5. n > 0 /\ n \in Nat
          BY Ranges
        <5>6. /\ host'.cmd = host.cmd /\ host.cmd.sector \in Nat /\ host.cmd.count \in Nat
              /\ host'.got \in Nat
          BY <1>1, HostNumbers DEF ProtocolInvariant
        <5>7. u'.sector = w.sector + n /\ u'.count = w.count - n /\ u'.pending = w.pending - n
              /\ Fits(w, i, n)
          BY <5>1 DEF SendsFrom
        <5>8. BlockSent'
          <6>1. u'.in.off = (Here - u.readbuf_sector[u.in.buf])'
            BY <3>6, <5>2, <5>4
          <6>2. u'.readbuf_count[i] # 0
            BY <5>4, <5>7 DEF Fits
          <6>3. ~Wraps(u', i) => u'.in.off + u'.in.size <= u'.readbuf_count[i]
            BY <5>2, <5>4, <5>7 DEF Fits, Wraps
          <6> QED
            BY <5>2, <5>5, <6>1, <6>2, <6>3 DEF BlockSent
        <5>9. /\ At(Here + u.in.size, Rest - u.in.size)' /\ u'.pending = u'.count
          <6>1. w.sector \in Nat /\ w.count \in Nat /\ w.sector + w.count <= NumSectors
            BY <1>1, <3>2, StaticsNumbers DEF Asking
          <6>2. w.sector + n + (w.count - n) <= NumSectors
            BY <5>5, <6>1, Ranges
          <6> QED
            BY <3>2, <3>6, <5>2, <5>7, <6>2 DEF At
        <5> QED
          BY <2>1, <5>3, <5>8, <5>9 DEF InPhase, SendingBlocks
      <4> QED
        BY <3>3, <4>1, <4>2
    <3> QED
      BY <1>4, <1>5, <2>4, <3>3, <3>4, <3>5, <3>7
  <2> QED
    BY <1>3, <1>9, <2>6, <2>7, <2>8
<1> QED
  BY <1>8, <1>9

-----------------------------------------------------------------------------
(* The theorems about the protocol.                                        *)

\* Every step of the interrupt and of the thread leaves the command with one of them.
LEMMA ProtocolStep ==
    ASSUME ProtocolInvariant, [Next]_vars
    PROVE  ProtocolInvariant' /\ StepReports
<1>1. CASE host_command
  BY <1>1, CommandStep
<1>2. CASE host_sends_block
  BY <1>2, BlockStep
<1>3. CASE host_sends_sat
  BY <1>3, SatDataStep
<1>4. CASE host_takes_data
  BY <1>4, TakesDataStep
<1>5. CASE host_takes_csw
  BY <1>5, TakesCswStep
<1>6. CASE host_clears_in
  BY <1>6, ClearInStep
<1>7. CASE host_clears_out
  BY <1>7, ClearOutStep
<1>8. CASE WorkerNext
  <2>1. Runs
    BY <1>8 DEF WorkerNext
  <2>2. CASE worker_checks
    BY <2>1, <2>2, CheckStep
  <2>3. CASE worker_wakes
    BY <2>1, <2>3, WakeStep
  <2>4. CASE worker_times_out
    BY <2>1, <2>4, TimeoutStep
  <2>5. CASE worker_pushes
    BY <2>1, <2>5, WorkerPushStep
  <2>6. CASE worker_stores
    BY <2>1, <2>6, StoreStep
  <2>7. CASE worker_releases
    BY <2>1, <2>7, ReleaseStep
  <2>8. CASE worker_reads
    BY <2>1, <2>8, ReadStep
  <2>9. CASE worker_fills
    BY <2>1, <2>9, FillStep
  <2>10. CASE worker_commits
    BY <2>1, <2>10, CommitStep
  <2>11. CASE worker_answers
    BY <2>1, <2>11, AnswerStep
  <2>12. CASE worker_sets_state
    BY <2>1, <2>12, NoteStateStep
  <2>13. CASE worker_counts
    BY <2>1, <2>13, CountStep
  <2>14. CASE worker_runs_sat
    BY <2>1, <2>14, SatStep
  <2> QED
    BY <1>8, <2>2, <2>3, <2>4, <2>5, <2>6, <2>7, <2>8, <2>9, <2>10, <2>11, <2>12, <2>13, <2>14
       DEF WorkerNext
<1>9. CASE UNCHANGED vars
  <2>1. StepReports
    BY <1>9 DEF vars, StepReports
  <2>2. Types' /\ ErrorExcused' /\ Reported'
    BY <1>9 DEF vars, ProtocolInvariant, Types, ErrorExcused, Reported
  <2>3. Filled => Filled'
    BY <1>9 DEF vars, Filled, InsideDisk
  <2>4. InPhase => InPhase'
    <3>1. SameTurn /\ (Elsewhere <=> Elsewhere')
      BY <1>9
         DEF vars, SameTurn, SamePipes, SameCommand, Elsewhere
    <3>2. u \in Statics
      BY DEF ProtocolInvariant, Types
    <3>3. CASE Elsewhere
      BY <3>1, <3>2, <3>3, TurnStays
    <3>4. CASE ~Elsewhere
      <4>1. InPhase => NotingBlock \/ NotingResult
        BY <3>2, <3>4, WhoseTurn
      <4>2. NotingBlock => NotingBlock'
        BY <1>9 DEF vars, NotingBlock, Reading, BlockSent, At, Here, Rest, Wraps
      <4>3. NotingResult => NotingResult'
        BY <1>9 DEF vars, NotingResult, NothingAsked, ResultSent
      <4> QED
        BY <4>1, <4>2, <4>3 DEF InPhase
    <3> QED
      BY <3>3, <3>4
  <2> QED
    BY <1>9, <2>1, <2>2, <2>3, <2>4 DEF vars, ProtocolInvariant, Protocol
<1> QED
  BY <1>1, <1>2, <1>3, <1>4, <1>5, <1>6, <1>7, <1>8, <1>9 DEF Next, HostContinues

\* The interrupt (ums_xfer_complete) and the thread (ums_handle_async) never both have the next
\* step of a command to do: the statics are always in one of the phases above.
THEOREM ProtocolHolds == Spec => []ProtocolInvariant
<1>1. ProtocolInvariant /\ [Next]_vars => ProtocolInvariant'
  BY ProtocolStep
<1> QED
  BY <1>1, DiskInit, PTL DEF Spec

\* The statics of ums.c, the buffers, the medium and the endpoints stay what their types say,
\* whatever the interrupt does between two steps of the thread.
THEOREM DiskTypes == Spec => []TypeOK
<1>1. ProtocolInvariant => TypeOK
  <2> SUFFICES ASSUME ProtocolInvariant PROVE TypeOK
    OBVIOUS
  <2>1. /\ u \in Statics /\ host \in Hosts
        /\ rbuf \in [Buf -> [Slots -> Cells]] /\ wbuf \in [Buf -> [Slots -> Cells]]
        /\ storage \in [Sectors -> Cells]
    BY DEF ProtocolInvariant, Types
  <2>2. /\ u.count \in 0..NumSectors /\ u.pending \in 0..NumSectors + 1
        /\ u.readbuf_current \in Buf /\ u.writebuf_current \in Buf
        /\ \A i \in Buf : u.readbuf_sector[i] \in Sectors /\ u.readbuf_count[i] \in -1..BufSectors
    BY <2>1, StaticsNumbers
  <2>3. u.state \in States /\ u.stalled \subseteq {"in", "out"}
    BY <2>1 DEF Statics
  <2>4. u.in \in InTransfers /\ u.out \in OutTransfers
    BY <2>1 DEF Statics
  <2>5. /\ u.in.to \in {"none", "csw", "block", "result"}
        /\ u.out.to \in {"none", "cmd", "block", "sat"}
    BY <2>4 DEF InTransfers, OutTransfers, TransfersTo
  <2>6. host.phase \in {"idle", "in", "out", "csw"}
    BY <2>1 DEF Hosts
  <2> QED
    BY <2>1, <2>2, <2>3, <2>5, <2>6 DEF TypeOK
<1> QED
  BY <1>1, ProtocolHolds, PTL

\* The thread never fills a read buffer that USB is sending from or receiving into, nor stores
\* a write buffer that USB is filling: umsbuf has two buffers for each and no lock.
THEOREM BuffersApart == Spec => []NoBufferRace
<1>1. ProtocolInvariant => NoBufferRace
  <2> SUFFICES ASSUME ProtocolInvariant, ~ghost.overtaken PROVE NoBufferRace
    BY DEF NoBufferRace
  <2>1. u \in Statics /\ worker \in Workers /\ InPhase /\ Filled
    BY DEF ProtocolInvariant, Types, Protocol
  <2>2. /\ u.readbuf_current \in Buf /\ u.writebuf_current \in Buf
        /\ 1 - u.readbuf_current # u.readbuf_current /\ 1 - u.writebuf_current # u.writebuf_current
        /\ tb \notin Buf
    BY <2>1, StaticsNumbers, Ranges DEF tb
  <2>3. ASSUME worker.pc = "reading"
        PROVE  /\ Elsewhere /\ worker.c \in Buf /\ u.readbuf_count[worker.c] = 0
               /\ ~u.read_blocked => worker.c = u.readbuf_current
    BY <2>1, <2>3 DEF Elsewhere, Filled, Workers
  <2>4. worker.pc = "reading" /\ u.in.to = "block" => u.in.buf # worker.c
    <3> SUFFICES ASSUME worker.pc = "reading", u.in.to = "block" PROVE u.in.buf # worker.c
      OBVIOUS
    <3>1. SendingBlocks
      BY <2>1, <2>3, WhoseTurn DEF NotingBlock, Elsewhere
    <3> QED
      BY <2>3, <3>1 DEF SendingBlocks, BlockSent
  <2>5. worker.pc = "reading" /\ u.in.to = "result" => u.in.buf # worker.c
    <3> SUFFICES ASSUME worker.pc = "reading", u.in.to = "result" PROVE u.in.buf # worker.c
      OBVIOUS
    <3>1. SendingResult
      BY <2>1, <2>3, WhoseTurn DEF NotingResult, Elsewhere
    <3> QED
      BY <2>2, <2>3, <3>1 DEF SendingResult, ResultSent, NothingAsked
  <2>6. worker.pc = "reading" /\ u.out.to = "sat" => u.out.buf # worker.c
    <3> SUFFICES ASSUME worker.pc = "reading", u.out.to = "sat" PROVE u.out.buf # worker.c
      OBVIOUS
    <3>1. SatReceiving
      BY <2>1, WhoseTurn
    <3> QED
      BY <2>2, <2>3, <3>1, TransferTos DEF SatReceiving, NothingAsked
  <2>7. u.out.to = "block" => u.out.buf # u.writebuf_current
    BY <2>1, <2>2, WhoseTurn, TransferTos DEF Receiving
  <2> QED
    BY <2>4, <2>5, <2>6, <2>7 DEF NoBufferRace
<1> QED
  BY <1>1, ProtocolHolds, PTL

\* ums.c's error() is reached in two ways only: a completion overtook the thread's
\* bookkeeping, or the halt of a refused WRITE was cleared while its status was on the way.
THEOREM FailuresExcused == Spec => []FailsOnlyThen
<1>1. ProtocolInvariant => FailsOnlyThen
  BY DEF ProtocolInvariant, ErrorExcused, FailsOnlyThen
<1> QED
  BY <1>1, ProtocolHolds, PTL

\* write_rc keeps an error of the storage until a WRITE has failed for it.
THEOREM ErrorsReported == Spec => ErrorIsReported
<1>1. ProtocolInvariant /\ [Next]_vars =>
        [(u'.in = Passed /\ u.in # Passed /\ host.cmd.kind = "write" /\ host.cmd.count > 0)
           => ~ghost.unreported]_vars
  BY ProtocolStep DEF ProtocolInvariant, Reported, StepReports
<1> QED
  BY <1>1, ProtocolHolds, PTL DEF Spec, ErrorIsReported

=============================================================================
