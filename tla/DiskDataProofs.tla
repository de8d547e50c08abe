---------------------------- MODULE DiskDataProofs ----------------------------
(***************************************************************************)
(* What the disk mode application (DiskMode) stores and returns, for any    *)
(* number of sectors, size of the buffers and number of commands: an       *)
(* acknowledged write is kept, and a READ returns what was written last.   *)
(*                                                                         *)
(* ProtocolInvariant (DiskProofs) says who may touch what.  The invariant  *)
(* here says what is in it: for each sector of the WRITE that is being     *)
(* received, which of the waiting block, the busy buffer and the medium    *)
(* has its newest content, and for each cell of the read cache that it is  *)
(* that content.                                                           *)
(***************************************************************************)
EXTENDS DiskProofs

\* The sectors of the current WRITE that the host has sent, and what it sent for them.
Received(s) == /\ host.cmd.kind = "write"
               /\ host.cmd.sector <= s /\ s < host.cmd.sector + host.got
New(s) == <<s, host.sent>>

\* The sectors of the busy write buffer, and of the block that waits for it.
Busy(s) == u.writebuf_busy /\ u.writebuf_sector <= s /\ s < u.writebuf_sector + u.writebuf_count
Late(s) == u.writebuf_overrun /\ u.sector <= s /\ s < u.sector + u.length
BusyCell(s) == wbuf[u.writebuf_current][s - u.writebuf_sector]
LateCell(s) == wbuf[1 - u.writebuf_current][s - u.sector]

\* Where the newest content of a sector is: in the block that waits, else in the busy
\* buffer, else on the medium unless its store has failed.
Placed(s) ==
    /\ Busy(s) => BusyCell(s) \in ghost.acked[s]
    /\ worker.pc = "release" /\ Busy(s) /\ s \notin ghost.lost => storage[s] = BusyCell(s)
    /\ Received(s) /\ Late(s) => LateCell(s) = New(s)
    /\ Received(s) /\ ~Late(s) /\ Busy(s) => BusyCell(s) = New(s)
    /\ Received(s) /\ ~Late(s) /\ ~Busy(s) => s \in ghost.lost \/ storage[s] = New(s)
    /\ ~(Busy(s) /\ s \notin ghost.lost) => storage[s] \in ghost.acked[s]

Kept ==
    /\ u.writebuf_sector + u.writebuf_count <= NumSectors
    /\ worker.pc = "release" /\ ~ghost.dropped => u.writebuf_busy
    /\ \A s \in Sectors : /\ Late(s) => Received(s)
                          /\ Received(s) => New(s) \in ghost.acked[s]
                          /\ ~ghost.dropped => Placed(s)

\* A cell that is read ahead for sector s by buffer i is what the host last wrote, unless
\* the host has written to the sector since.
Sound(i, s, cell) ==
    s \in Sectors =>
        \/ <<i, s>> \in ghost.hit
        \/ /\ cell \in ghost.acked[s]
           /\ Received(s) => ~Busy(s) /\ ~Late(s) /\ (s \in ghost.lost \/ cell = New(s))

Counted ==
    \A i \in Buf, k \in Slots :
      k < u.readbuf_count[i] => Sound(i, u.readbuf_sector[i] + k, rbuf[i][k])

\* The same of what the thread has just read, and of what it is about to read.
Cached ==
    /\ Counted
    /\ worker.pc = "filled" =>
         \A k \in Slots : k < worker.count =>
            Sound(worker.c, worker.sector + k, rbuf[worker.c][k])
    /\ worker.pc = "reading" =>
         \A k \in Slots : worker.sector + k < NumSectors =>
            Sound(worker.c, worker.sector + k, storage[worker.sector + k])

CachedSound == ~ghost.overtaken /\ ~ghost.dropped => Cached

-----------------------------------------------------------------------------
(* Steps that touch neither the write buffers nor the medium.              *)

SameHistory == /\ ghost'.acked = ghost.acked /\ ghost'.lost = ghost.lost
               /\ ghost'.dropped = ghost.dropped

BlocksStay ==
    /\ SameWrites(u', u) /\ wbuf' = wbuf
    /\ (u'.sector = u.sector /\ u'.length = u.length) \/ ~u.writebuf_overrun

\* The host goes on with the same part of its WRITE, or has sent nothing of a new command.
HostStays ==
    \/ host'.cmd = host.cmd /\ host'.got = host.got /\ host'.sent = host.sent
    \/ ~u.writebuf_overrun /\ (host'.cmd.kind # "write" \/ host'.got = 0)

Aside == BlocksStay /\ SameHistory /\ HostStays

\* Such a step changes neither what is in the write buffers nor what has been received.
LEMMA AsideSame ==
    ASSUME Aside, Types, Types', NEW s \in Sectors
    PROVE  /\ Busy(s)' <=> Busy(s)
           /\ Late(s)' <=> Late(s)
           /\ Received(s)' => Received(s) /\ New(s)' = New(s)
           /\ Late(s) => (Received(s)' <=> Received(s))
           /\ BusyCell(s)' = BusyCell(s)
           /\ Late(s) => LateCell(s)' = LateCell(s)
<1>1. (Busy(s)' <=> Busy(s)) /\ BusyCell(s)' = BusyCell(s)
  BY DEF Aside, BlocksStay, SameWrites, Busy, BusyCell
<1>2. (Late(s)' <=> Late(s)) /\ (Late(s) => LateCell(s)' = LateCell(s))
  BY DEF Aside, BlocksStay, SameWrites, Late, LateCell
<1>3. CASE host'.cmd = host.cmd /\ host'.got = host.got /\ host'.sent = host.sent
  <2>1. (Received(s)' <=> Received(s)) /\ New(s)' = New(s)
    BY <1>3 DEF Received, New
  <2> QED
    BY <1>1, <1>2, <2>1
<1>4. CASE ~u.writebuf_overrun /\ (host'.cmd.kind # "write" \/ host'.got = 0)
  <2>1. ~Received(s)'
    <3>1. CASE host'.cmd.kind # "write"
      BY <3>1 DEF Received
    <3>2. CASE host'.got = 0
      <4>1. host'.cmd.sector \in Nat
        <5>1. host' \in Hosts
          BY DEF Types
        <5>2. host'.cmd \in [kind : Kinds \cup {"none"}, sector : Sectors, count : 0..NumSectors]
          BY <5>1 DEF Hosts
        <5> QED
          BY <5>2, SectorNumber
      <4>2. s \in Nat
        BY SectorNumber
      <4> QED
        BY <3>2, <4>1, <4>2 DEF Received
    <3> QED
      BY <1>4, <3>1, <3>2
  <2>2. ~Late(s)
    BY <1>4 DEF Late
  <2> QED
    BY <1>1, <1>2, <2>1, <2>2
<1> QED
  BY <1>3, <1>4 DEF Aside, HostStays

\* And it keeps Kept.
LEMMA KeptStays ==
    ASSUME Aside, Types, Types', Kept, storage' = storage,
           worker'.pc = "release" => worker.pc = "release"
    PROVE  Kept'
<1>1. (u.writebuf_sector + u.writebuf_count <= NumSectors)'
  BY DEF Kept, Aside, BlocksStay, SameWrites
<1>2. (worker.pc = "release" /\ ~ghost.dropped => u.writebuf_busy)'
  BY DEF Kept, Aside, BlocksStay, SameHistory, SameWrites
<1>3. ASSUME NEW s \in Sectors
      PROVE  /\ Late(s)' => Received(s)'
             /\ Received(s)' => New(s)' \in ghost'.acked[s]
             /\ ~ghost'.dropped => Placed(s)'
  <2>1. /\ Late(s) => Received(s)
        /\ Received(s) => New(s) \in ghost.acked[s]
        /\ ~ghost.dropped => Placed(s)
    BY <1>3 DEF Kept
  <2>2. /\ Busy(s)' <=> Busy(s)
        /\ Late(s)' <=> Late(s)
        /\ Received(s)' => Received(s) /\ New(s)' = New(s)
        /\ Late(s) => (Received(s)' <=> Received(s))
        /\ BusyCell(s)' = BusyCell(s)
        /\ Late(s) => LateCell(s)' = LateCell(s)
    BY <1>3, AsideSame
  <2>3. SameHistory
    BY DEF Aside
  <2>4. Placed(s) => Placed(s)'
    BY <2>2, <2>3 DEF Placed, SameHistory
  <2> QED
    BY <2>1, <2>2, <2>3, <2>4 DEF SameHistory
<1> QED
  BY <1>1, <1>2, <1>3 DEF Kept

\* Which steps these are: of the host all but a block and a status that it takes.
LEMMA HostAside ==
    ASSUME ProtocolInvariant,
           host_command \/ host_sends_sat \/ host_takes_data \/ host_clears_in \/ host_clears_out
    PROVE  Aside /\ storage' = storage /\ worker' = worker
<1>1. ghost \in Ghosts /\ host \in Hosts
  BY DEF ProtocolInvariant, Types
<1>2. CASE host_command
  <2>1. SameWrites(u', u) /\ ~u.writebuf_overrun /\ host'.got = 0
    BY <1>2, CommandStep
  <2>2. /\ wbuf' = wbuf /\ storage' = storage /\ worker' = worker
        /\ \E n, h : ghost' = [ghost EXCEPT !.hit = h, !.odd = n]
    BY <1>2 DEF host_command
  <2>3. SameHistory
    BY <1>1, <2>2 DEF Ghosts, SameHistory
  <2> QED
    BY <2>1, <2>2, <2>3 DEF Aside, BlocksStay, HostStays
<1>3. CASE host_sends_sat
  <2>1. SameWrites(u', u) /\ ~u.writebuf_overrun
    BY <1>3, SatDataStep
  <2>2. /\ wbuf' = wbuf /\ storage' = storage /\ worker' = worker /\ ghost' = ghost
        /\ host' = [host EXCEPT !.phase = "csw"]
    BY <1>3 DEF host_sends_sat
  <2>3. host'.cmd = host.cmd /\ host'.got = host.got /\ host'.sent = host.sent
    BY <1>1, <2>2 DEF Hosts
  <2> QED
    BY <2>1, <2>2, <2>3 DEF Aside, BlocksStay, HostStays, SameHistory
<1>4. CASE host_takes_data
  <2>1. SameWrites(u', u) /\ ~u.writebuf_overrun /\ host.cmd.kind # "write"
    BY <1>4, TakesDataStep
  <2>2. /\ wbuf' = wbuf /\ storage' = storage /\ worker' = worker
        /\ \E o, h, a, r : ghost' = [ghost EXCEPT !.overtaken = o, !.hit = h, !.wrapped = a, !.wrong = r]
        /\ host'.cmd = host.cmd
    BY <1>1, <1>4 DEF host_takes_data, Hosts
  <2>3. SameHistory
    BY <1>1, <2>2 DEF Ghosts, SameHistory
  <2> QED
    BY <2>1, <2>2, <2>3 DEF Aside, BlocksStay, HostStays
<1>5. CASE host_clears_in
  <2>1. SameWrites(u', u) /\ ~u.writebuf_overrun
    BY <1>5, ClearInStep
  <2>2. /\ wbuf' = wbuf /\ storage' = storage /\ worker' = worker /\ ghost' = ghost
        /\ host'.cmd = host.cmd /\ host'.got = host.got /\ host'.sent = host.sent
    BY <1>1, <1>5 DEF host_clears_in, Hosts
  <2> QED
    BY <2>1, <2>2 DEF Aside, BlocksStay, HostStays, SameHistory
<1>6. CASE host_clears_out
  <2>1. SameWrites(u', u) /\ ~u.writebuf_overrun
    BY <1>6, ClearOutStep
  <2>2. /\ wbuf' = wbuf /\ storage' = storage /\ worker' = worker
        /\ host'.cmd = host.cmd /\ host'.got = host.got /\ host'.sent = host.sent
        /\ \E r : ghost' = [ghost EXCEPT !.relistened = r]
    BY <1>1, <1>6 DEF host_clears_out, Hosts
  <2>3. SameHistory
    BY <1>1, <2>2 DEF Ghosts, SameHistory
  <2> QED
    BY <2>1, <2>2, <2>3 DEF Aside, BlocksStay, HostStays
<1> QED
  BY <1>2, <1>3, <1>4, <1>5, <1>6

\* And of the thread all but those that push, store and release a block.
LEMMA WorkerAside ==
    ASSUME ProtocolInvariant, Runs,
           \/ worker_checks \/ worker_wakes \/ worker_times_out \/ worker_reads \/ worker_fills
           \/ worker_commits \/ worker_answers \/ worker_sets_state \/ worker_counts
           \/ worker_runs_sat
    PROVE  Aside /\ storage' = storage /\ worker'.pc # "release"
<1>1. ghost \in Ghosts /\ worker \in Workers /\ u \in Statics
  BY DEF ProtocolInvariant, Types
<1>2. CASE worker_checks
  BY <1>1, <1>2 DEF worker_checks, Goto, Workers, Aside, BlocksStay, HostStays, SameHistory, SameWrites
<1>3. CASE worker_wakes
  <2>1. /\ u' = [u EXCEPT !.signalled = FALSE] /\ worker'.pc = "push"
        /\ wbuf' = wbuf /\ storage' = storage /\ host' = host /\ ghost' = ghost
    BY <1>1, <1>3 DEF worker_wakes, Goto, Workers
  <2>2. SameWrites(u', u) /\ u'.sector = u.sector /\ u'.length = u.length
    BY <1>1, <2>1 DEF Statics, SameWrites
  <2> QED
    BY <2>1, <2>2 DEF Aside, BlocksStay, HostStays, SameHistory
<1>4. CASE worker_times_out
  BY <1>1, <1>4 DEF worker_times_out, Goto, Workers, Aside, BlocksStay, HostStays, SameHistory, SameWrites
<1>5. CASE worker_reads
  <2>1. /\ u' = u /\ wbuf' = wbuf /\ storage' = storage /\ host' = host
        /\ \E h : ghost' = [ghost EXCEPT !.hit = h]
        /\ worker'.pc \in {"answer", "reading"}
    BY <1>1, <1>5 DEF worker_reads, Workers
  <2>2. SameHistory
    BY <1>1, <2>1 DEF Ghosts, SameHistory
  <2> QED
    BY <2>1, <2>2 DEF Aside, BlocksStay, HostStays, SameWrites
<1>6. CASE worker_fills
  <2>1. /\ u' = u /\ wbuf' = wbuf /\ storage' = storage /\ host' = host
        /\ \E n : ghost' = [ghost EXCEPT !.odd = n]
        /\ worker'.pc = "filled"
    <3>1. ghost = [ghost EXCEPT !.odd = ghost.odd]
      BY <1>1, GhostShape DEF GhostFields
    <3> QED
      BY <1>1, <1>6, <3>1 DEF worker_fills, Workers
  <2>2. SameHistory
    BY <1>1, <2>1 DEF Ghosts, SameHistory
  <2> QED
    BY <2>1, <2>2 DEF Aside, BlocksStay, HostStays, SameWrites
<1>7. CASE worker_commits
  <2>1. /\ wbuf' = wbuf /\ storage' = storage /\ host' = host /\ ghost' = ghost
        /\ worker'.pc = "answer"
    BY <1>1, <1>7 DEF worker_commits, Goto, Workers
  <2>2. SameWrites(u', u) /\ u'.sector = u.sector /\ u'.length = u.length
    BY <1>7, CommitStep
  <2> QED
    BY <2>1, <2>2 DEF Aside, BlocksStay, HostStays, SameHistory
<1>8. CASE worker_answers
  <2>1. /\ wbuf' = wbuf /\ storage' = storage /\ host' = host
        /\ \E h : ghost' = [ghost EXCEPT !.hit = h]
    BY <1>8 DEF worker_answers
  <2>2. worker'.pc \in {"sat", "sent"}
    <3>1. \E p \in {"sat", "sent"} : \E s, n :
             worker' = [worker EXCEPT !.pc = p, !.state = s, !.size = n]
      <4>1. CASE ~u.read_blocked
        <5>1. worker' = [worker EXCEPT !.pc = "sat"]
          BY <1>8, <4>1 DEF worker_answers, Goto
        <5>2. worker' = [worker EXCEPT !.pc = "sat", !.state = worker.state, !.size = worker.size]
          BY <1>1, <5>1 DEF Workers
        <5> QED
          BY <5>2
      <4>2. CASE u.read_blocked
        BY <1>8, <4>2 DEF worker_answers
      <4> QED
        BY <4>1, <4>2
    <3> QED
      BY <1>1, <3>1 DEF Workers
  <2>3. SameWrites(u', u) /\ (u' = u \/ ~u.writebuf_overrun)
    BY <1>8, AnswerStep
  <2>4. SameHistory
    BY <1>1, <2>1 DEF Ghosts, SameHistory
  <2> QED
    BY <2>1, <2>2, <2>3, <2>4 DEF Aside, BlocksStay, HostStays
<1>9. CASE worker_sets_state
  <2>1. /\ wbuf' = wbuf /\ storage' = storage /\ host' = host /\ ghost' = ghost
        /\ worker'.pc \in {"counted", "check"}
    BY <1>1, <1>9 DEF worker_sets_state, Goto, Workers
  <2>2. SameWrites(u', u) /\ u'.sector = u.sector /\ u'.length = u.length
    BY <1>9, NoteStateStep
  <2> QED
    BY <2>1, <2>2 DEF Aside, BlocksStay, HostStays, SameHistory
<1>10. CASE worker_counts
  <2>1. /\ wbuf' = wbuf /\ storage' = storage /\ host' = host /\ ghost' = ghost
        /\ worker'.pc = "sat"
    BY <1>1, <1>10 DEF worker_counts, Goto, Workers
  <2>2. SameWrites(u', u) /\ ~u.writebuf_overrun
    BY <1>10, CountStep
  <2> QED
    BY <2>1, <2>2 DEF Aside, BlocksStay, HostStays, SameHistory
<1>11. CASE worker_runs_sat
  <2>1. /\ wbuf' = wbuf /\ storage' = storage /\ host' = host /\ ghost' = ghost
    BY <1>11 DEF worker_runs_sat
  <2>2. worker'.pc \in {"check", "sent"}
    <3>1. CASE u.sat_pending = "SAT_PENDING_NONE"
      BY <1>1, <1>11, <3>1 DEF worker_runs_sat, Goto, Workers
    <3>2. CASE u.sat_pending # "SAT_PENDING_NONE"
      <4>1. \E p \in {"check", "sent"} : \E s : worker' = [worker EXCEPT !.pc = p, !.state = s]
        BY <1>11, <3>2 DEF worker_runs_sat
      <4> QED
        BY <1>1, <4>1 DEF Workers
    <3> QED
      BY <3>1, <3>2
  <2>3. SameWrites(u', u) /\ (u' = u \/ ~u.writebuf_overrun)
    BY <1>11, SatStep
  <2> QED
    BY <2>1, <2>2, <2>3 DEF Aside, BlocksStay, HostStays, SameHistory
<1> QED
  BY <1>2, <1>3, <1>4, <1>5, <1>6, <1>7, <1>8, <1>9, <1>10, <1>11

-----------------------------------------------------------------------------
(* The steps of a block on its way from the host to the medium.            *)

\* The sectors and counts that are compared with each other are natural numbers.
LEMMA Numbers ==
    ASSUME Types
    PROVE  /\ \A s \in Sectors : s \in Nat /\ s < NumSectors
           /\ host.cmd.sector \in Nat /\ host.cmd.count \in Nat /\ host.got \in Nat
           /\ u.sector \in Nat /\ u.length \in Nat /\ u.count \in Nat
           /\ u.writebuf_sector \in Nat /\ u.writebuf_count \in Nat
           /\ u.length \in 0..BufSectors /\ u.writebuf_count \in 0..BufSectors
           /\ u.writebuf_current \in Buf /\ 1 - u.writebuf_current \in Buf
           /\ u.writebuf_current # 1 - u.writebuf_current
           /\ 1 - (1 - u.writebuf_current) = u.writebuf_current
           /\ NumSectors \in Nat
<1>1. u \in Statics
  BY DEF Types
<1>2. \A b \in Buf : b # 1 - b /\ 1 - (1 - b) = b
  BY DEF Buf
<1> QED
  BY <1>1, <1>2, HostNumbers, StaticsNumbers, SectorNumber, DiskAssumption

\* A sector of a block has a slot of the buffer.
LEMMA SlotOf ==
    ASSUME NEW a \in Nat, NEW n \in 0..BufSectors, NEW s \in Nat, a <= s, s < a + n
    PROVE  s - a \in Slots
BY DiskAssumption DEF Slots

\* A block arrives: the sectors it is for are now received, and are those of the busy buffer
\* or of the block that waits.
LEMMA BlockKept ==
    ASSUME ProtocolInvariant, Kept, host_sends_block
    PROVE  Kept'
<1>1. /\ Types /\ u \in Statics /\ wbuf \in [Buf -> [Slots -> Cells]] /\ ghost \in Ghosts
  BY DEF ProtocolInvariant, Types
<1>2. /\ Receiving
      /\ host'.got = host.got + u.length /\ host'.cmd = host.cmd /\ host'.sent = host.sent
      /\ IF u.writebuf_busy
         THEN /\ u'.writebuf_overrun /\ u'.writebuf_busy
              /\ u'.writebuf_current = u.writebuf_current
              /\ u'.writebuf_sector = u.writebuf_sector
              /\ u'.writebuf_count = u.writebuf_count
              /\ u'.sector = u.sector /\ u'.length = u.length
         ELSE /\ ~u'.writebuf_overrun /\ u'.writebuf_busy
              /\ u'.writebuf_current = 1 - u.writebuf_current
              /\ u'.writebuf_sector = u.sector /\ u'.writebuf_count = u.length
  BY BlockStep
<1>3. /\ host.cmd.kind = "write" /\ ~u.writebuf_overrun
      /\ u.sector = host.cmd.sector + host.got /\ u.sector + u.count <= NumSectors
      /\ u.count = u.pending + u.length
      /\ u.out.buf = 1 - u.writebuf_current /\ u.out.size = u.length
  BY <1>2, TransferTos DEF Receiving, NothingAsked, At, Here
<1>4. /\ wbuf' = [wbuf EXCEPT ![1 - u.writebuf_current] =
                    [k \in Slots |-> IF k < u.length
                                     THEN <<host.cmd.sector + host.got + k, host.sent>>
                                     ELSE @[k]]]
      /\ storage' = storage /\ worker' = worker
  BY <1>3 DEF host_sends_block
<1>5. /\ ghost'.lost = ghost.lost /\ ghost'.dropped = ghost.dropped
      /\ ghost'.acked = [s \in Sectors |->
                           IF s \in u.sector..u.sector + u.length - 1
                           THEN ghost.acked[s] \cup {<<s, host.sent>>}
                           ELSE ghost.acked[s]]
  <2> DEFINE A == [s \in Sectors |->
                     IF s \in u.sector..u.sector + u.length - 1
                     THEN ghost.acked[s] \cup {<<s, host.sent>>} ELSE ghost.acked[s]]
  <2>1. \E w, n, h : ghost' = [ghost EXCEPT !.wild = w, !.unreported = n, !.hit = h, !.acked = A]
    BY Zenon DEF host_sends_block
  <2> HIDE DEF A
  <2>2. ghost'.lost = ghost.lost /\ ghost'.dropped = ghost.dropped /\ ghost'.acked = A
    BY <1>1, <2>1, GhostShape DEF GhostFields
  <2> QED
    BY <2>2 DEF A
<1>6. /\ \A s \in Sectors : s \in Nat /\ s < NumSectors
      /\ host.cmd.sector \in Nat /\ host.got \in Nat
      /\ u.sector \in Nat /\ u.length \in Nat /\ u.count \in Nat /\ u.pending \in Nat
      /\ u.writebuf_sector \in Nat /\ u.writebuf_count \in Nat
      /\ u.writebuf_current \in Buf /\ 1 - u.writebuf_current \in Buf
      /\ u.writebuf_current # 1 - u.writebuf_current
      /\ 1 - (1 - u.writebuf_current) = u.writebuf_current
      /\ u.length \in 0..BufSectors /\ NumSectors \in Nat
  BY <1>1, Numbers, StaticsNumbers
<1> DEFINE Arrived(s) == u.sector <= s /\ s < u.sector + u.length
<1>7. /\ wbuf'[u.writebuf_current] = wbuf[u.writebuf_current]
      /\ \A k \in Slots : k < u.length =>
           wbuf'[1 - u.writebuf_current][k] = <<host.cmd.sector + host.got + k, host.sent>>
  BY <1>1, <1>4, <1>6
<1>8. ASSUME NEW s \in Sectors, Arrived(s)
      PROVE  wbuf'[1 - u.writebuf_current][s - u.sector] = New(s) /\ New(s) \in ghost'.acked[s]
  <2>1. s \in Nat
    BY <1>6
  <2>2. s - u.sector \in Slots
    BY <1>6, <1>8, <2>1, SlotOf
  <2>3. s - u.sector < u.length /\ host.cmd.sector + host.got + (s - u.sector) = s
    BY <1>3, <1>6, <1>8, <2>1
  <2>4. wbuf'[1 - u.writebuf_current][s - u.sector] = <<s, host.sent>>
    BY <1>7, <2>2, <2>3
  <2>5. s \in u.sector..u.sector + u.length - 1
    BY <1>6, <1>8, <2>1
  <2> QED
    BY <1>5, <2>4, <2>5 DEF New
<1>9. ASSUME NEW s \in Sectors
      PROVE  /\ ghost.acked[s] \subseteq ghost'.acked[s] /\ New(s)' = New(s)
             /\ Received(s)' <=> Received(s) \/ Arrived(s)
             /\ ~Late(s)
  <2>1. s \in Nat
    BY <1>6
  <2>2. Received(s)' <=> Received(s) \/ Arrived(s)
    <3>1. Received(s)' <=> host.cmd.sector <= s /\ s < host.cmd.sector + (host.got + u.length)
      BY <1>2, <1>3 DEF Received
    <3>2. Received(s) <=> host.cmd.sector <= s /\ s < host.cmd.sector + host.got
      BY <1>3 DEF Received
    <3>3. Arrived(s) <=> /\ host.cmd.sector + host.got <= s
                         /\ s < host.cmd.sector + host.got + u.length
      BY <1>3
    <3> QED
      BY <1>6, <2>1, <3>1, <3>2, <3>3
  <2> QED
    BY <1>2, <1>3, <1>5, <2>2 DEF New, Late
<1> HIDE DEF Arrived
<1>10. ASSUME NEW s \in Sectors
       PROVE  /\ Late(s) => Received(s)
              /\ Received(s) => New(s) \in ghost.acked[s]
              /\ ~ghost.dropped => Placed(s)
              /\ worker.pc = "release" /\ ~ghost.dropped => u.writebuf_busy
  BY <1>10 DEF Kept
<1>11. CASE u.writebuf_busy
  <2>1. ASSUME NEW s \in Sectors
        PROVE  /\ Busy(s)' <=> Busy(s)
               /\ BusyCell(s)' = BusyCell(s)
               /\ Late(s)' <=> Arrived(s)
               /\ LateCell(s)' = wbuf'[1 - u.writebuf_current][s - u.sector]
    BY <1>2, <1>7, <1>11 DEF Busy, BusyCell, Late, LateCell, Arrived
  <2>2. ASSUME NEW s \in Sectors, Placed(s) PROVE Placed(s)'
    BY <1>4, <1>5, <1>8, <1>9, <2>1, <2>2, Zenon DEF Placed
  <2>3. ASSUME NEW s \in Sectors
        PROVE  /\ Late(s)' => Received(s)'
               /\ Received(s)' => New(s)' \in ghost'.acked[s]
               /\ ~ghost'.dropped => Placed(s)'
    BY <1>5, <1>8, <1>9, <1>10, <2>1, <2>2
  <2>4. (u.writebuf_sector + u.writebuf_count <= NumSectors)'
    BY <1>2, <1>11 DEF Kept
  <2> QED
    BY <1>2, <1>11, <2>3, <2>4 DEF Kept
<1>12. CASE ~u.writebuf_busy
  <2>1. ASSUME NEW s \in Sectors
        PROVE  /\ Busy(s)' <=> Arrived(s)
               /\ BusyCell(s)' = wbuf'[1 - u.writebuf_current][s - u.sector]
               /\ ~Late(s)' /\ ~Busy(s)
    BY <1>2, <1>12 DEF Busy, BusyCell, Late, Arrived
  <2>2. ASSUME NEW s \in Sectors, Placed(s), worker.pc # "release" PROVE Placed(s)'
    BY <1>4, <1>5, <1>8, <1>9, <2>1, <2>2, Zenon DEF Placed
  <2>3. ASSUME NEW s \in Sectors
        PROVE  /\ Late(s)' => Received(s)'
               /\ Received(s)' => New(s)' \in ghost'.acked[s]
               /\ ~ghost'.dropped => Placed(s)'
    BY <1>5, <1>8, <1>9, <1>10, <1>12, <2>1, <2>2
  <2>4. (u.writebuf_sector + u.writebuf_count <= NumSectors)'
    <3>1. u.sector + u.length <= NumSectors
      BY <1>3, <1>6
    <3> QED
      BY <1>2, <1>12, <3>1
  <2> QED
    BY <1>2, <1>12, <2>3, <2>4 DEF Kept
<1> QED
  BY <1>11, <1>12

\* The status is taken: a sector of a WRITE that passed has been received.
LEMMA CswKept ==
    ASSUME ProtocolInvariant, Kept, host_takes_csw
    PROVE  Kept'
<1>1. Types /\ u \in Statics /\ ghost \in Ghosts /\ host \in Hosts
  BY DEF ProtocolInvariant, Types
<1>2. /\ SameWrites(u', u) /\ ~u.writebuf_overrun /\ host'.cmd.kind # "write"
      /\ u.in = Passed /\ host.cmd.kind = "write" => host.got = host.cmd.count
  BY TakesCswStep
<1>3. wbuf' = wbuf /\ storage' = storage /\ worker' = worker
  BY DEF host_takes_csw
<1> DEFINE Ended(s) == /\ host.cmd.kind = "write" /\ u.in = Passed
                       /\ s \in host.cmd.sector..host.cmd.sector + host.cmd.count - 1
<1>4. /\ ghost'.lost = ghost.lost /\ ghost'.dropped = ghost.dropped
      /\ ghost'.acked = [s \in Sectors |->
                           IF Ended(s)
                           THEN {New(s)} \cup (IF s \in ghost.lost THEN ghost.acked[s] ELSE {})
                           ELSE ghost.acked[s]]
  <2> DEFINE A == [s \in Sectors |->
                     IF Ended(s)
                     THEN {New(s)} \cup (IF s \in ghost.lost THEN ghost.acked[s] ELSE {})
                     ELSE ghost.acked[s]]
  <2>1. \E o : ghost' = [ghost EXCEPT !.overtaken = o, !.acked = A]
    BY Zenon DEF host_takes_csw, New
  <2> HIDE DEF A
  <2>2. ghost'.lost = ghost.lost /\ ghost'.dropped = ghost.dropped /\ ghost'.acked = A
    BY <1>1, <2>1, GhostShape DEF GhostFields
  <2> QED
    BY <2>2 DEF A
<1>5. ASSUME NEW s \in Sectors PROVE Ended(s) => Received(s)
  <2>1. s \in Nat /\ host.cmd.sector \in Nat /\ host.cmd.count \in Nat
    BY <1>1, Numbers
  <2> QED
    BY <1>2, <2>1 DEF Received
<1> HIDE DEF Ended
<1>6. ASSUME NEW s \in Sectors
      PROVE  /\ ~Received(s)' /\ ~Late(s) /\ ~Late(s)'
             /\ Busy(s)' <=> Busy(s)
             /\ BusyCell(s)' = BusyCell(s)
  BY <1>2, <1>3 DEF Received, Late, Busy, BusyCell, SameWrites
<1>7. ASSUME NEW s \in Sectors, Placed(s) PROVE Placed(s)'
  <2>1. /\ Busy(s) => BusyCell(s) \in ghost'.acked[s]
        /\ ~(Busy(s) /\ s \notin ghost.lost) => storage[s] \in ghost'.acked[s]
    <3>1. CASE Ended(s)
      <4>1. ghost'.acked[s] = {New(s)} \cup (IF s \in ghost.lost THEN ghost.acked[s] ELSE {})
        BY <1>4, <3>1
      <4>2. Received(s)
        BY <1>5, <3>1
      <4> QED
        BY <1>6, <1>7, <4>1, <4>2 DEF Placed
    <3>2. CASE ~Ended(s)
      <4>1. ghost'.acked[s] = ghost.acked[s]
        BY <1>4, <3>2
      <4> QED
        BY <1>7, <4>1 DEF Placed
    <3> QED
      BY <3>1, <3>2
  <2> QED
    BY <1>3, <1>4, <1>6, <1>7, <2>1 DEF Placed
<1>8. ASSUME NEW s \in Sectors
      PROVE  /\ Late(s)' => Received(s)'
             /\ Received(s)' => New(s)' \in ghost'.acked[s]
             /\ ~ghost'.dropped => Placed(s)'
  BY <1>4, <1>6, <1>7 DEF Kept
<1>9. /\ (u.writebuf_sector + u.writebuf_count <= NumSectors)'
      /\ (worker.pc = "release" /\ ~ghost.dropped => u.writebuf_busy)'
  BY <1>2, <1>3, <1>4 DEF Kept, SameWrites
<1> QED
  BY <1>8, <1>9 DEF Kept

\* The thread makes the block that waits the busy one; if there is one already, that one is
\* dropped.
LEMMA PushKept ==
    ASSUME ProtocolInvariant, Runs, Kept, worker_pushes
    PROVE  Kept'
<1>1. Types /\ Types' /\ u \in Statics /\ ghost \in Ghosts /\ worker \in Workers
  BY WorkerPushStep DEF ProtocolInvariant, Types
<1>2. /\ wbuf' = wbuf /\ storage' = storage /\ host' = host /\ worker'.pc = "store"
      /\ \E n : ghost' = [ghost EXCEPT !.unreported = n,
                          !.dropped = ghost.dropped \/ (u.writebuf_overrun /\ u.writebuf_busy)]
  BY <1>1 DEF worker_pushes, Goto, Workers
<1>3. /\ ghost'.acked = ghost.acked /\ ghost'.lost = ghost.lost
      /\ ghost'.dropped = (ghost.dropped \/ (u.writebuf_overrun /\ u.writebuf_busy))
  BY <1>1, <1>2, GhostShape DEF GhostFields
<1>4. CASE ~u.writebuf_overrun
  <2>1. u' = u
    BY <1>4, WorkerPushStep
  <2>2. ghost'.dropped = ghost.dropped
    <3>1. ghost.dropped \in BOOLEAN
      BY <1>1 DEF Ghosts
    <3> QED
      BY <1>3, <1>4, <3>1
  <2>3. Aside
    BY <1>2, <1>3, <2>1, <2>2 DEF Aside, BlocksStay, HostStays, SameHistory, SameWrites
  <2> QED
    BY <1>1, <1>2, <2>3, KeptStays
<1>5. CASE u.writebuf_overrun
  <2> DEFINE w == [u EXCEPT !.writebuf_overrun = FALSE]
  <2>1. Overrun /\ Pushes(u', w)
    BY <1>5, WorkerPushStep
  <2>2. /\ w.sector = u.sector /\ w.length = u.length /\ w.writebuf_overrun = FALSE
        /\ w.writebuf_current = u.writebuf_current
    BY <1>1 DEF Statics
  <2> HIDE DEF w
  <2>3. /\ u'.writebuf_current = 1 - u.writebuf_current
        /\ u'.writebuf_sector = u.sector /\ u'.writebuf_count = u.length
        /\ u'.writebuf_busy /\ ~u'.writebuf_overrun
    BY <2>1, <2>2 DEF Pushes
  <2>4. ASSUME NEW s \in Sectors
        PROVE  /\ Busy(s)' <=> Late(s)
               /\ BusyCell(s)' = LateCell(s)
               /\ ~Late(s)' /\ (Received(s)' <=> Received(s)) /\ New(s)' = New(s)
    BY <1>2, <1>5, <2>3 DEF Busy, BusyCell, Late, LateCell, Received, New
  <2>5. (u.writebuf_sector + u.writebuf_count <= NumSectors)'
    <3>1. u.sector + u.count <= NumSectors /\ u.count = u.pending + u.length
      BY <2>1 DEF Overrun, At
    <3>2. /\ u.sector \in Nat /\ u.count \in Nat /\ u.pending \in Nat /\ u.length \in Nat
          /\ NumSectors \in Nat
      BY <1>1, StaticsNumbers, DiskAssumption
    <3>3. u.sector + u.length <= NumSectors
      BY <3>1, <3>2
    <3> QED
      BY <2>3, <3>3
  <2>6. ASSUME NEW s \in Sectors
        PROVE  /\ Late(s) => Received(s)
               /\ Received(s) => New(s) \in ghost.acked[s]
               /\ ~ghost.dropped => Placed(s)
    BY <2>6 DEF Kept
  <2>7. ASSUME NEW s \in Sectors, ~ghost'.dropped PROVE Placed(s)'
    <3>1. ~ghost.dropped /\ ~u.writebuf_busy
      BY <1>3, <1>5, <2>7
    <3>2. ~Busy(s)
      BY <3>1 DEF Busy
    <3>3. Placed(s)
      BY <2>6, <3>1
    <3> QED
      BY <1>2, <1>3, <2>4, <2>6, <3>2, <3>3 DEF Placed
  <2> QED
    BY <1>2, <1>3, <2>3, <2>4, <2>5, <2>6, <2>7 DEF Kept
<1> QED
  BY <1>4, <1>5

\* The busy buffer is stored, or the storage fails and each of its sectors may hold either.
LEMMA StoreKept ==
    ASSUME ProtocolInvariant, Runs, Kept, worker_stores
    PROVE  Kept'
<1>1. Types /\ u \in Statics /\ ghost \in Ghosts /\ worker \in Workers
      /\ storage \in [Sectors -> Cells]
  BY DEF ProtocolInvariant, Types
<1>2. /\ u'.writebuf_current = u.writebuf_current /\ u'.writebuf_busy = u.writebuf_busy
      /\ u'.writebuf_sector = u.writebuf_sector /\ u'.writebuf_count = u.writebuf_count
      /\ u'.writebuf_overrun = u.writebuf_overrun
      /\ u'.sector = u.sector /\ u'.length = u.length
  BY StoreStep
<1>3. /\ wbuf' = wbuf /\ host' = host /\ worker'.pc = "release" /\ u.writebuf_busy
  BY <1>1 DEF worker_stores, Goto, Workers
<1> DEFINE stored == [s \in Sectors |->
                        IF s \in Storing
                        THEN wbuf[u.writebuf_current][s - u.writebuf_sector] ELSE storage[s]]
           more == [s \in Sectors |-> ghost.acked[s] \cup {storage'[s]}]
<1>4. /\ ghost'.dropped = ghost.dropped
      /\ \/ /\ storage' = stored
            /\ ghost'.lost = ghost.lost \ Storing /\ ghost'.acked = ghost.acked
         \/ /\ storage' \in {storage, stored}
            /\ ghost'.lost = ghost.lost \cup Storing
            /\ ghost'.acked = [s \in Sectors |-> ghost.acked[s] \cup {storage'[s]}]
  <2>1. CASE storage' = stored /\ ghost' = [ghost EXCEPT !.lost = ghost.lost \ Storing]
    <3> DEFINE L == ghost.lost \ Storing
    <3>1. ghost' = [ghost EXCEPT !.lost = L]
      BY <2>1
    <3> HIDE DEF L, stored
    <3>2. ghost'.lost = L /\ ghost'.acked = ghost.acked /\ ghost'.dropped = ghost.dropped
      BY <1>1, <3>1, GhostShape DEF GhostFields
    <3> QED
      BY <2>1, <3>2 DEF L
  <2>2. CASE /\ storage' \in {storage, stored}
             /\ \E n : ghost' = [ghost EXCEPT !.odd = n, !.unreported = TRUE,
                                  !.lost = ghost.lost \cup Storing, !.acked = more]
    <3> DEFINE L == ghost.lost \cup Storing
    <3>1. \E n : ghost' = [ghost EXCEPT !.odd = n, !.unreported = TRUE, !.lost = L, !.acked = more]
      BY <2>2, Zenon
    <3> HIDE DEF L, stored, more
    <3>2. ghost'.lost = L /\ ghost'.acked = more /\ ghost'.dropped = ghost.dropped
      BY <1>1, <3>1, GhostShape DEF GhostFields
    <3> QED
      BY <2>2, <3>2 DEF L, more
  <2>3. \/ storage' = stored /\ ghost' = [ghost EXCEPT !.lost = ghost.lost \ Storing]
        \/ /\ storage' \in {storage, stored}
           /\ \E n : ghost' = [ghost EXCEPT !.odd = n, !.unreported = TRUE,
                                !.lost = ghost.lost \cup Storing, !.acked = more]
    BY DEF worker_stores
  <2> HIDE DEF stored, more
  <2> QED
    BY <2>1, <2>2, <2>3
<1>5. ASSUME NEW s \in Sectors PROVE s \in Storing <=> Busy(s)
  <2>1. s \in Nat /\ u.writebuf_sector \in Nat /\ u.writebuf_count \in Nat
    BY <1>1, Numbers
  <2> QED
    BY <1>3, <2>1 DEF Storing, Busy
<1>6. ASSUME NEW s \in Sectors
      PROVE  /\ Busy(s)' <=> Busy(s)
             /\ Late(s)' <=> Late(s)
             /\ BusyCell(s)' = BusyCell(s) /\ LateCell(s)' = LateCell(s)
             /\ Received(s)' <=> Received(s)
             /\ New(s)' = New(s)
             /\ stored[s] = IF Busy(s) THEN BusyCell(s) ELSE storage[s]
  BY <1>2, <1>3, <1>5 DEF Busy, BusyCell, Late, LateCell, Received, New
<1> HIDE DEF stored, more
<1>7. ASSUME NEW s \in Sectors
      PROVE  /\ ghost.acked[s] \subseteq ghost'.acked[s]
             /\ ~Busy(s) => storage'[s] = storage[s] /\ (s \in ghost.lost <=> s \in ghost'.lost)
             /\ Busy(s) => \/ storage'[s] = BusyCell(s) /\ s \notin ghost'.lost
                           \/ s \in ghost'.lost /\ storage'[s] \in ghost'.acked[s]
  <2>1. CASE /\ storage' = stored
             /\ ghost'.lost = ghost.lost \ Storing /\ ghost'.acked = ghost.acked
    BY <1>5, <1>6, <2>1
  <2>2. CASE /\ storage' \in {storage, stored}
             /\ ghost'.lost = ghost.lost \cup Storing
             /\ ghost'.acked = [x \in Sectors |-> ghost.acked[x] \cup {storage'[x]}]
    BY <1>5, <1>6, <2>2
  <2> QED
    BY <1>4, <2>1, <2>2
<1>8. ASSUME NEW s \in Sectors
      PROVE  /\ Late(s) => Received(s)
             /\ Received(s) => New(s) \in ghost.acked[s]
             /\ ~ghost.dropped => Placed(s)
  BY <1>8 DEF Kept
<1>9. ASSUME NEW s \in Sectors, Placed(s) PROVE Placed(s)'
  BY <1>6, <1>7, <1>9 DEF Placed
<1>10. (u.writebuf_sector + u.writebuf_count <= NumSectors)'
  BY <1>2 DEF Kept
<1> QED
  BY <1>2, <1>3, <1>4, <1>6, <1>7, <1>8, <1>9, <1>10 DEF Kept

\* The busy buffer is given back after its store.
LEMMA ReleaseKept ==
    ASSUME ProtocolInvariant, Runs, Kept, worker_releases
    PROVE  Kept'
<1>1. Types /\ u \in Statics /\ ghost \in Ghosts /\ worker \in Workers
  BY DEF ProtocolInvariant, Types
<1>2. /\ u'.writebuf_current = u.writebuf_current
      /\ u'.writebuf_sector = u.writebuf_sector /\ u'.writebuf_count = u.writebuf_count
      /\ u'.writebuf_overrun = u.writebuf_overrun
      /\ u'.sector = u.sector /\ u'.length = u.length
      /\ ~u'.writebuf_busy
  BY ReleaseStep
<1>3. /\ wbuf' = wbuf /\ storage' = storage /\ host' = host /\ ghost' = ghost
      /\ worker'.pc = "read" /\ (worker.pc = "release" \/ ~u.writebuf_busy)
  BY <1>1 DEF worker_releases, Goto, Workers
<1>4. ASSUME NEW s \in Sectors
      PROVE  /\ ~Busy(s)'
             /\ Late(s)' <=> Late(s)
             /\ LateCell(s)' = LateCell(s)
             /\ Received(s)' <=> Received(s)
             /\ New(s)' = New(s)
             /\ Busy(s) => worker.pc = "release"
  BY <1>2, <1>3 DEF Busy, Late, LateCell, Received, New
<1>5. ASSUME NEW s \in Sectors
      PROVE  /\ Late(s) => Received(s)
             /\ Received(s) => New(s) \in ghost.acked[s]
             /\ ~ghost.dropped => Placed(s)
  BY <1>5 DEF Kept
<1>6. ASSUME NEW s \in Sectors, Placed(s) PROVE Placed(s)'
  BY <1>3, <1>4, <1>6 DEF Placed
<1>7. (u.writebuf_sector + u.writebuf_count <= NumSectors)'
  BY <1>2 DEF Kept
<1> QED
  BY <1>3, <1>4, <1>5, <1>6, <1>7 DEF Kept

\* At first nothing has been written, and the medium is what it was.
LEMMA KeptInit == Init => Kept
<1> SUFFICES ASSUME Init PROVE Kept
  OBVIOUS
<1>1. /\ ~u.writebuf_busy /\ ~u.writebuf_overrun /\ u.writebuf_sector = 0 /\ u.writebuf_count = 0
      /\ host.cmd.kind = "none" /\ worker.pc = "wait"
      /\ storage = [s \in Sectors |-> <<s, 0>>] /\ ghost.acked = [s \in Sectors |-> {<<s, 0>>}]
  BY DEF Init, Idle
<1>2. ASSUME NEW s \in Sectors PROVE ~Late(s) /\ ~Received(s) /\ Placed(s)
  BY <1>1 DEF Late, Received, Busy, Placed
<1>3. u.writebuf_sector + u.writebuf_count <= NumSectors
  BY <1>1, DiskAssumption
<1> QED
  BY <1>1, <1>2, <1>3 DEF Kept

\* No step of the interrupt or of the thread breaks Kept.
LEMMA KeptStep ==
    ASSUME ProtocolInvariant, Kept, [Next]_vars
    PROVE  Kept'
<1>1. Types /\ Types'
  BY ProtocolStep DEF ProtocolInvariant
<1>2. CASE Aside /\ storage' = storage /\ (worker' = worker \/ worker'.pc # "release")
  BY <1>1, <1>2, KeptStays
<1>3. CASE host_command \/ host_sends_sat \/ host_takes_data \/ host_clears_in \/ host_clears_out
  BY <1>2, <1>3, HostAside
<1>4. CASE host_sends_block
  BY <1>4, BlockKept
<1>5. CASE host_takes_csw
  BY <1>5, CswKept
<1>6. CASE WorkerNext
  <2>1. Runs
    BY <1>6 DEF WorkerNext
  <2>2. CASE \/ worker_checks \/ worker_wakes \/ worker_times_out \/ worker_reads \/ worker_fills
             \/ worker_commits \/ worker_answers \/ worker_sets_state \/ worker_counts
             \/ worker_runs_sat
    BY <1>2, <2>1, <2>2, WorkerAside
  <2>3. CASE worker_pushes
    BY <2>1, <2>3, PushKept
  <2>4. CASE worker_stores
    BY <2>1, <2>4, StoreKept
  <2>5. CASE worker_releases
    BY <2>1, <2>5, ReleaseKept
  <2> QED
    BY <1>6, <2>2, <2>3, <2>4, <2>5 DEF WorkerNext
<1>7. CASE UNCHANGED vars
  <2>1. Aside /\ storage' = storage /\ worker' = worker
    BY <1>7 DEF vars, Aside, BlocksStay, HostStays, SameHistory, SameWrites
  <2> QED
    BY <1>2, <2>1
<1> QED
  BY <1>3, <1>4, <1>5, <1>6, <1>7 DEF Next, HostContinues

-----------------------------------------------------------------------------
(* The read cache.                                                         *)

\* What is current of a sector stays so: it stays acknowledged, and no part of the WRITE that
\* is being received reaches the sector, or its place in the buffers, anew.
StaysCurrent(s) ==
    /\ \A cell \in ghost.acked[s] :
         \/ cell \in ghost'.acked[s]
         \/ Received(s) /\ s \notin ghost.lost /\ cell # New(s)
    /\ Received(s)' =>
         /\ Received(s) /\ New(s)' = New(s)
         /\ ~Busy(s) /\ ~Late(s) => ~Busy(s)' /\ ~Late(s)'
         /\ ~Busy(s) /\ ~Late(s) /\ s \in ghost.lost => s \in ghost'.lost

\* A sound cell stays sound while its history and its sector stay current.
LEMMA SoundStays ==
    ASSUME NEW i, NEW s, NEW cell, Sound(i, s, cell),
           s \in Sectors => /\ <<i, s>> \in ghost.hit => <<i, s>> \in ghost'.hit
                            /\ StaysCurrent(s)
    PROVE  Sound(i, s, cell)'
BY DEF Sound, StaysCurrent

\* The history of a buffer is kept while the buffer is for the same sectors.
HitsStay ==
    \A x \in ghost.hit : u'.readbuf_sector[x[1]] = u.readbuf_sector[x[1]] => x \in ghost'.hit

HistoryStays == HitsStay /\ \A s \in Sectors : StaysCurrent(s)

\* The same for a cell of a buffer that is not pointed elsewhere.
LEMMA SoundKept ==
    ASSUME HistoryStays, NEW i, NEW s, NEW cell, Sound(i, s, cell),
           u'.readbuf_sector[i] = u.readbuf_sector[i]
    PROVE  Sound(i, s, cell)'
<1>1. <<i, s>> \in ghost.hit => <<i, s>> \in ghost'.hit
  BY DEF HistoryStays, HitsStay
<1> QED
  BY <1>1, SoundStays DEF HistoryStays

\* The cells of the cache stay; and those of the medium, and what the thread is filling.
CountedStay ==
    \A i \in Buf, k \in Slots : k < u'.readbuf_count[i] =>
      /\ k < u.readbuf_count[i] /\ u'.readbuf_sector[i] = u.readbuf_sector[i]
      /\ rbuf'[i][k] = rbuf[i][k]
FillingStay ==
    worker'.pc \in {"reading", "filled"} =>
      /\ worker' = worker /\ u'.readbuf_sector[worker.c] = u.readbuf_sector[worker.c]
      /\ rbuf'[worker.c] = rbuf[worker.c]
      /\ \A s \in Sectors : storage'[s] = storage[s]
CellsStay == CountedStay /\ FillingStay

\* Then what counts as read ahead stays sound,
LEMMA CountedStays ==
    ASSUME Cached, CountedStay, HistoryStays
    PROVE  Counted'
<1>1. ASSUME NEW i \in Buf, NEW k \in Slots, k < u'.readbuf_count[i]
      PROVE  Sound(i, u.readbuf_sector[i] + k, rbuf[i][k])'
  <2>1. /\ k < u.readbuf_count[i] /\ u'.readbuf_sector[i] = u.readbuf_sector[i]
        /\ rbuf'[i][k] = rbuf[i][k]
    BY <1>1 DEF CountedStay
  <2>2. Sound(i, u.readbuf_sector[i] + k, rbuf[i][k])
    BY <2>1 DEF Cached, Counted
  <2> QED
    BY <2>1, <2>2, SoundKept
<1> QED
  BY <1>1 DEF Counted

\* and so does what the thread is filling.
LEMMA CachedStays ==
    ASSUME Types, Types', Cached, CellsStay, HistoryStays
    PROVE  Cached'
<1>1. ASSUME NEW i, NEW s, NEW cell, Sound(i, s, cell),
             u'.readbuf_sector[i] = u.readbuf_sector[i]
      PROVE  Sound(i, s, cell)'
  BY <1>1, SoundKept
<1>2. Counted'
  BY CountedStays DEF CellsStay
<1>3. CASE worker'.pc = "filled"
  <2>1. /\ worker' = worker /\ u'.readbuf_sector[worker.c] = u.readbuf_sector[worker.c]
        /\ rbuf'[worker.c] = rbuf[worker.c]
    BY <1>3 DEF CellsStay, FillingStay
  <2>2. ASSUME NEW k \in Slots, k < worker'.count
        PROVE  Sound(worker.c, worker.sector + k, rbuf[worker.c][k])'
    <3>1. Sound(worker.c, worker.sector + k, rbuf[worker.c][k])
      BY <1>3, <2>1, <2>2 DEF Cached
    <3> QED
      BY <1>1, <2>1, <3>1
  <2> QED
    BY <1>2, <1>3, <2>2 DEF Cached
<1>4. CASE worker'.pc = "reading"
  <2>1. /\ worker' = worker /\ u'.readbuf_sector[worker.c] = u.readbuf_sector[worker.c]
        /\ \A s \in Sectors : storage'[s] = storage[s]
    BY <1>4 DEF CellsStay, FillingStay
  <2>2. ASSUME NEW k \in Slots, worker'.sector + k < NumSectors
        PROVE  Sound(worker.c, worker.sector + k, storage[worker.sector + k])'
    <3>1. Sound(worker.c, worker.sector + k, storage[worker.sector + k])
      BY <1>4, <2>1, <2>2 DEF Cached
    <3>2. worker.sector + k \in Sectors => storage'[worker.sector + k] = storage[worker.sector + k]
      BY <2>1
    <3>3. worker.sector + k \in Sectors
      <4>1. worker.sector \in Sectors
        BY DEF Types, Workers
      <4> QED
        BY <2>1, <2>2, <4>1, SectorNumber, SlotNumber
    <3> QED
      BY <1>1, <2>1, <3>1, <3>2, <3>3
  <2> QED
    BY <1>2, <1>4, <2>2 DEF Cached
<1> QED
  BY <1>2, <1>3, <1>4 DEF Cached

\* A step that is no part of a write leaves every sector current.
LEMMA AsideCurrent ==
    ASSUME Aside, Types, Types', NEW s \in Sectors
    PROVE  StaysCurrent(s)
<1>1. SameHistory
  BY DEF Aside
<1> QED
  BY <1>1, AsideSame DEF StaysCurrent, SameHistory

\* What the thread is filling is for the same sectors before and after a step that is not its.
LEMMA FillingStays ==
    ASSUME Filled, Filled', worker' = worker, worker.pc \in {"reading", "filled"}
    PROVE  u'.readbuf_sector[worker.c] = u.readbuf_sector[worker.c]
BY DEF Filled

\* A buffer that is not empty after a step, and was not copied to, has the cells it had.
LEMMA CountedCells ==
    ASSUME CachesStay, \A i \in Buf : u.readbuf_count[i] # 0 => rbuf'[i] = rbuf[i]
    PROVE  CountedStay
<1>1. ASSUME NEW i \in Buf, NEW k \in Slots, k < u'.readbuf_count[i]
      PROVE  /\ k < u.readbuf_count[i] /\ u'.readbuf_sector[i] = u.readbuf_sector[i]
             /\ rbuf'[i][k] = rbuf[i][k]
  <2>1. ~(k < 0)
    BY SlotNumber
  <2>2. u'.readbuf_count[i] # 0
    BY <1>1, <2>1
  <2> QED
    BY <1>1, <2>2 DEF CachesStay
<1> QED
  BY <1>1 DEF CountedStay

\* A buffer that is for the same sectors keeps its history.
LEMMA StillHits ==
    ASSUME ghost'.hit = StillHit \/ ghost'.hit = ghost.hit
    PROVE  HitsStay
BY DEF HitsStay, StillHit

\* Steps of the interrupt other than a block that arrives and a status that is taken: a SAT
\* command writes only to an empty buffer.
LEMMA HostCached ==
    ASSUME ProtocolInvariant, Cached, Filled, Filled',
           host_command \/ host_sends_sat \/ host_takes_data \/ host_clears_in \/ host_clears_out,
           ~ghost'.overtaken
    PROVE  Cached'
<1>1. Types /\ Types' /\ u \in Statics /\ ghost \in Ghosts
  BY ProtocolStep DEF ProtocolInvariant, Types, Next, HostContinues
<1>2. Aside /\ storage' = storage /\ worker' = worker
  BY HostAside
<1>3. CachesStay
  BY CommandStep, SatDataStep, TakesDataStep, ClearInStep, ClearOutStep
<1>4. HitsStay
  <2>1. ghost'.hit = StillHit \/ ghost'.hit = ghost.hit
    <3>1. CASE host_command
      <4> DEFINE H == StillHit
      <4>1. \E n : ghost' = [ghost EXCEPT !.hit = H, !.odd = n]
        BY <3>1 DEF host_command
      <4> HIDE DEF H
      <4>2. ghost'.hit = H
        BY <1>1, <4>1, GhostShape DEF GhostFields
      <4> QED
        BY <4>2 DEF H
    <3>2. CASE host_takes_data
      <4> DEFINE H == StillHit
      <4>1. \E o, a, r : ghost' = [ghost EXCEPT !.overtaken = o, !.hit = H, !.wrapped = a, !.wrong = r]
        BY <3>2 DEF host_takes_data
      <4> HIDE DEF H
      <4>2. ghost'.hit = H
        BY <1>1, <4>1, GhostShape DEF GhostFields
      <4> QED
        BY <4>2 DEF H
    <3>3. CASE host_sends_sat \/ host_clears_in
      BY <3>3 DEF host_sends_sat, host_clears_in
    <3>4. CASE host_clears_out
      <4>1. \E r : ghost' = [ghost EXCEPT !.relistened = r]
        BY <3>4 DEF host_clears_out
      <4> QED
        BY <1>1, <4>1, GhostShape DEF GhostFields
    <3> QED
      BY <3>1, <3>2, <3>3, <3>4
  <2> QED
    BY <2>1, StillHits
<1>5. /\ \A i \in Buf : u.readbuf_count[i] # 0 => rbuf'[i] = rbuf[i]
      /\ worker.pc \in {"reading", "filled"} => rbuf'[worker.c] = rbuf[worker.c]
  <2>1. CASE host_sends_sat
    <3>1. SatReceiving
      BY <1>1, <2>1, WhoseTurn DEF host_sends_sat, ProtocolInvariant, Protocol, Runs, Astray
    <3>2. /\ u.out.buf = 1 - u.readbuf_current /\ u.readbuf_count[u.out.buf] = 0
          /\ ~u.read_blocked
      BY <3>1, TransferTos DEF SatReceiving, NothingAsked
    <3>3. rbuf' = [rbuf EXCEPT ![u.out.buf] = [@ EXCEPT ![0] = Foreign]] /\ rbuf \in [Buf -> [Slots -> Cells]]
      BY <1>1, <2>1 DEF host_sends_sat, Types
    <3>4. worker.pc \in {"reading", "filled"} => worker.c = u.readbuf_current
      BY <3>2 DEF Filled
    <3>5. u.readbuf_current \in Buf /\ u.readbuf_current # 1 - u.readbuf_current
      BY <1>1, StaticsNumbers, Ranges
    <3> QED
      BY <3>2, <3>3, <3>4, <3>5
  <2>2. CASE ~host_sends_sat
    BY <2>2 DEF host_command, host_takes_data, host_clears_in, host_clears_out
  <2> QED
    BY <2>1, <2>2
<1>6. CellsStay
  <2>1. CountedStay
    BY <1>3, <1>5, CountedCells
  <2> QED
    BY <1>2, <1>5, <2>1, FillingStays DEF CellsStay, FillingStay
<1> QED
  BY <1>1, <1>2, <1>4, <1>6, AsideCurrent, CachedStays DEF HistoryStays

\* The status is taken: of the sectors of a WRITE that passed only the new content is left, and
\* that is what the cache has of them.
LEMMA CswCached ==
    ASSUME ProtocolInvariant, Kept, Cached, Filled, Filled', host_takes_csw
    PROVE  Cached'
<1>1. Types /\ Types' /\ u \in Statics /\ ghost \in Ghosts
  BY ProtocolStep DEF ProtocolInvariant, Types, Next, HostContinues
<1>2. /\ SameReads(u', u) /\ ~u.writebuf_overrun /\ host'.cmd.kind # "write"
      /\ u.in = Passed /\ host.cmd.kind = "write" => host.got = host.cmd.count
  BY TakesCswStep
<1>3. rbuf' = rbuf /\ storage' = storage /\ worker' = worker
  BY DEF host_takes_csw
<1> DEFINE Ended(s) == /\ host.cmd.kind = "write" /\ u.in = Passed
                       /\ s \in host.cmd.sector..host.cmd.sector + host.cmd.count - 1
           A == [s \in Sectors |->
                   IF Ended(s)
                   THEN {New(s)} \cup (IF s \in ghost.lost THEN ghost.acked[s] ELSE {})
                   ELSE ghost.acked[s]]
<1>4. ghost'.hit = ghost.hit /\ ghost'.acked = A
  <2>1. \E o : ghost' = [ghost EXCEPT !.overtaken = o, !.acked = A]
    BY Zenon DEF host_takes_csw, New
  <2> HIDE DEF A
  <2> QED
    BY <1>1, <2>1, GhostShape DEF GhostFields
<1>5. ASSUME NEW s \in Sectors PROVE Ended(s) => Received(s)
  <2>1. s \in Nat /\ host.cmd.sector \in Nat /\ host.cmd.count \in Nat
    BY <1>1, Numbers
  <2> QED
    BY <1>2, <2>1 DEF Received
<1> HIDE DEF Ended
<1>6. ASSUME NEW s \in Sectors PROVE StaysCurrent(s)
  <2>1. ~Received(s)'
    BY <1>2 DEF Received
  <2>2. ASSUME NEW cell \in ghost.acked[s]
        PROVE  \/ cell \in ghost'.acked[s]
               \/ Received(s) /\ s \notin ghost.lost /\ cell # New(s)
    <3>1. ghost'.acked[s] = IF Ended(s)
                            THEN {New(s)} \cup (IF s \in ghost.lost THEN ghost.acked[s] ELSE {})
                            ELSE ghost.acked[s]
      BY <1>4
    <3> QED
      BY <1>5, <3>1
  <2> QED
    BY <2>1, <2>2 DEF StaysCurrent
<1>7. HitsStay
  BY <1>4 DEF HitsStay
<1>8. CellsStay
  BY <1>2, <1>3 DEF CellsStay, CountedStay, FillingStay, SameReads
<1> QED
  BY <1>1, <1>6, <1>7, <1>8, CachedStays DEF HistoryStays

\* A block arrives: the cells for its sectors are hit, and are the only ones that the copy to
\* the cache changes.
LEMMA BlockCached ==
    ASSUME ProtocolInvariant, Kept, Cached, Filled, Filled', host_sends_block
    PROVE  Cached'
<1>1. /\ Types /\ Types' /\ u \in Statics /\ ghost \in Ghosts /\ worker \in Workers
      /\ rbuf \in [Buf -> [Slots -> Cells]]
  BY ProtocolStep DEF ProtocolInvariant, Types, Next, HostContinues
<1>2. /\ Receiving
      /\ u'.readbuf_sector = u.readbuf_sector /\ u'.readbuf_count = u.readbuf_count
      /\ host'.got = host.got + u.length /\ host'.cmd = host.cmd /\ host'.sent = host.sent
      /\ IF u.writebuf_busy
         THEN /\ u'.writebuf_overrun /\ u'.writebuf_busy
              /\ u'.writebuf_current = u.writebuf_current
              /\ u'.writebuf_sector = u.writebuf_sector
              /\ u'.writebuf_count = u.writebuf_count
              /\ u'.sector = u.sector /\ u'.length = u.length
         ELSE /\ ~u'.writebuf_overrun /\ u'.writebuf_busy
              /\ u'.writebuf_current = 1 - u.writebuf_current
              /\ u'.writebuf_sector = u.sector /\ u'.writebuf_count = u.length
  BY BlockStep
<1>3. /\ host.cmd.kind = "write" /\ ~u.writebuf_overrun /\ ~u.read_blocked
      /\ u.sector = host.cmd.sector + host.got
  BY <1>2 DEF Receiving, NothingAsked, At, Here
<1> DEFINE H == StillHit \cup Hits
           A == [s \in Sectors |->
                  IF s \in u.sector..u.sector + u.length - 1
                  THEN ghost.acked[s] \cup {<<s, host.sent>>} ELSE ghost.acked[s]]
<1>4. /\ storage' = storage /\ worker' = worker /\ rbuf' = update_readcache(u, rbuf, wbuf')
      /\ ghost'.hit = H /\ ghost'.acked = A /\ ghost'.lost = ghost.lost
  <2>1. \E w, n : ghost' = [ghost EXCEPT !.wild = w, !.unreported = n, !.hit = H, !.acked = A]
    BY Zenon DEF host_sends_block
  <2>2. /\ storage' = storage /\ worker' = worker /\ rbuf' = update_readcache(u, rbuf, wbuf')
    BY DEF host_sends_block
  <2> HIDE DEF H, A
  <2> QED
    BY <1>1, <2>1, <2>2, GhostShape DEF GhostFields
<1> DEFINE Arrived(s) == u.sector <= s /\ s < u.sector + u.length
<1>5. /\ \A s \in Sectors : s \in Nat
      /\ host.cmd.sector \in Nat /\ host.got \in Nat /\ u.sector \in Nat /\ u.length \in Nat
      /\ u.writebuf_sector \in Nat /\ u.writebuf_count \in Nat
  BY <1>1, Numbers
<1>6. ASSUME NEW s \in Sectors, ~Arrived(s) PROVE StaysCurrent(s)
  <2>1. s \in Nat
    BY <1>5
  <2>2. s \notin u.sector..u.sector + u.length - 1
    BY <1>5, <1>6, <2>1
  <2>3. ghost'.acked[s] = ghost.acked[s]
    BY <1>4, <2>2
  <2>4. Received(s)' => Received(s) /\ New(s)' = New(s)
    <3>1. Received(s)' <=> host.cmd.sector <= s /\ s < host.cmd.sector + (host.got + u.length)
      BY <1>2, <1>3 DEF Received
    <3>2. Received(s) <=> host.cmd.sector <= s /\ s < host.cmd.sector + host.got
      BY <1>3 DEF Received
    <3>3. ~(/\ host.cmd.sector + host.got <= s
            /\ s < host.cmd.sector + host.got + u.length)
      BY <1>3, <1>6
    <3>4. Received(s)' => Received(s)
      BY <1>5, <2>1, <3>1, <3>2, <3>3
    <3> QED
      BY <1>2, <3>4 DEF New
  <2>5. ~Busy(s) /\ ~Late(s) => ~Busy(s)' /\ ~Late(s)'
    <3>1. CASE u.writebuf_busy
      BY <1>2, <1>6, <3>1 DEF Busy, Late
    <3>2. CASE ~u.writebuf_busy
      BY <1>2, <1>6, <3>2 DEF Busy, Late
    <3> QED
      BY <3>1, <3>2
  <2> QED
    BY <1>4, <2>3, <2>4, <2>5 DEF StaysCurrent
<1>7. ASSUME NEW i \in Buf, NEW k \in Slots, NEW s \in Sectors, Arrived(s),
             s = u.readbuf_sector[i] + k, u.readbuf_count[i] # 0 \/ Filling(i)
      PROVE  <<i, s>> \in ghost'.hit
  <2>1. u.readbuf_sector[i] \in Nat /\ k \in Nat /\ k < BufSectors /\ s \in Nat /\ BufSectors \in Nat
    BY <1>1, <1>5, StaticsNumbers, SectorNumber, SlotNumber, DiskAssumption
  <2>2. /\ s \in u.readbuf_sector[i]..u.readbuf_sector[i] + BufSectors - 1
        /\ s \in u.sector..u.sector + u.length - 1
    BY <1>5, <1>7, <2>1
  <2>3. <<i, s>> \in Hits
    BY <1>7, <2>2 DEF Hits
  <2> QED
    BY <1>4, <2>3
<1>8. ASSUME NEW i \in Buf, NEW s \in Sectors, <<i, s>> \in ghost.hit PROVE <<i, s>> \in ghost'.hit
  BY <1>2, <1>4, <1>8 DEF StillHit
<1> HIDE DEF Arrived, H, A
<1>9. ASSUME NEW i \in Buf, NEW k \in Slots, u.readbuf_count[i] # 0 \/ Filling(i), NEW s,
             s = u.readbuf_sector[i] + k, NEW cell, NEW kept, Sound(i, s, cell),
             ~Arrived(s) => kept = cell
      PROVE  Sound(i, s, kept)'
  <2>1. CASE s \notin Sectors
    BY <2>1 DEF Sound
  <2>2. CASE s \in Sectors /\ Arrived(s)
    <3>1. <<i, s>> \in ghost'.hit
      BY <1>7, <1>9, <2>2
    <3> QED
      BY <3>1 DEF Sound
  <2>3. CASE s \in Sectors /\ ~Arrived(s)
    <3>1. StaysCurrent(s) /\ (<<i, s>> \in ghost.hit => <<i, s>> \in ghost'.hit)
      BY <1>6, <1>8, <2>3
    <3>2. Sound(i, s, cell)'
      BY <1>9, <3>1, SoundStays
    <3> QED
      BY <1>9, <2>3, <3>2
  <2> QED
    BY <2>1, <2>2, <2>3
<1>10. ASSUME NEW i \in Buf, NEW k \in Slots, ~Arrived(u.readbuf_sector[i] + k)
       PROVE  rbuf'[i][k] = rbuf[i][k]
  <2>1. u.readbuf_sector[i] \in Nat /\ k \in Nat
    BY <1>1, StaticsNumbers, SectorNumber, SlotNumber
  <2>2. k \notin Updated(u, i)
    <3> SUFFICES ASSUME k \in Updated(u, i) PROVE FALSE
      OBVIOUS
    <3>1. u.readbuf_sector[i] + k \in u.sector..u.sector + u.length - 1
      BY DEF Updated
    <3> QED
      BY <1>5, <1>10, <2>1, <3>1 DEF Arrived
  <2>3. rbuf'[i] = IF ~Updates(u, i) THEN rbuf[i]
                   ELSE [j \in Slots |->
                           IF j \in Updated(u, i)
                           THEN wbuf'[u.writebuf_current][u.readbuf_sector[i] + j - u.sector]
                           ELSE rbuf[i][j]]
    BY <1>4 DEF update_readcache
  <2> QED
    BY <2>2, <2>3
<1>11. ASSUME NEW i \in Buf, NEW k \in Slots, k < u'.readbuf_count[i]
       PROVE  Sound(i, u.readbuf_sector[i] + k, rbuf[i][k])'
  <2>1. k \in Nat /\ k < u.readbuf_count[i]
    BY <1>2, <1>11, SlotNumber
  <2>2. u.readbuf_count[i] # 0
    <3>1. ~(k < 0)
      BY <2>1
    <3> QED
      BY <2>1, <3>1
  <2>3. Sound(i, u.readbuf_sector[i] + k, rbuf[i][k])
    BY <2>1 DEF Cached, Counted
  <2>4. ~Arrived(u.readbuf_sector[i] + k) => rbuf'[i][k] = rbuf[i][k]
    BY <1>10
  <2>5. u'.readbuf_sector[i] = u.readbuf_sector[i]
    BY <1>2
  <2> QED
    BY <1>9, <2>2, <2>3, <2>4, <2>5
<1>12. ASSUME worker.pc \in {"reading", "filled"}
       PROVE  /\ worker.c \in Buf /\ Filling(worker.c)
              /\ worker.sector = u.readbuf_sector[worker.c]
  BY <1>1, <1>3, <1>12 DEF Filled, Filling, Workers
<1>13. CASE worker'.pc = "filled"
  <2>1. ASSUME NEW k \in Slots, k < worker'.count
        PROVE  Sound(worker.c, worker.sector + k, rbuf[worker.c][k])'
    <3>1. Sound(worker.c, worker.sector + k, rbuf[worker.c][k])
      BY <1>4, <1>13, <2>1 DEF Cached
    <3>2. /\ worker.c \in Buf /\ Filling(worker.c)
          /\ worker.sector + k = u.readbuf_sector[worker.c] + k
      BY <1>4, <1>12, <1>13
    <3>3. ~Arrived(worker.sector + k) => rbuf'[worker.c][k] = rbuf[worker.c][k]
      BY <1>10, <3>2
    <3> QED
      BY <1>4, <1>9, <3>1, <3>2, <3>3
  <2> QED
    BY <1>11, <1>13, <2>1 DEF Cached, Counted
<1>14. CASE worker'.pc = "reading"
  <2>1. ASSUME NEW k \in Slots, worker'.sector + k < NumSectors
        PROVE  Sound(worker.c, worker.sector + k, storage[worker.sector + k])'
    <3>1. Sound(worker.c, worker.sector + k, storage[worker.sector + k])
      BY <1>4, <1>14, <2>1 DEF Cached
    <3>2. /\ worker.c \in Buf /\ Filling(worker.c)
          /\ worker.sector + k = u.readbuf_sector[worker.c] + k
      BY <1>4, <1>12, <1>14
    <3> QED
      BY <1>4, <1>9, <3>1, <3>2
  <2> QED
    BY <1>11, <1>14, <2>1 DEF Cached, Counted
<1> QED
  BY <1>11, <1>13, <1>14 DEF Cached, Counted

\* The thread's steps that do not go on with filling a buffer.
LEMMA ThreadCached ==
    ASSUME ProtocolInvariant, Runs, Cached,
           \/ worker_checks \/ worker_wakes \/ worker_times_out \/ worker_answers
           \/ worker_sets_state \/ worker_counts \/ worker_runs_sat
    PROVE  Cached'
<1>1. Types /\ Types' /\ ghost \in Ghosts /\ worker \in Workers
  BY CheckStep, WakeStep, TimeoutStep, AnswerStep, NoteStateStep, CountStep, SatStep
     DEF ProtocolInvariant, Types
<1>2. Aside /\ storage' = storage
  BY WorkerAside
<1>3. CachesStay
  BY CheckStep, WakeStep, TimeoutStep, AnswerStep, NoteStateStep, CountStep, SatStep
<1>4. HitsStay
  <2>1. ghost'.hit = StillHit \/ ghost'.hit = ghost.hit
    <3>1. CASE worker_answers
      <4> DEFINE H == StillHit
      <4>1. ghost' = [ghost EXCEPT !.hit = H]
        BY <3>1 DEF worker_answers
      <4> HIDE DEF H
      <4>2. ghost'.hit = H
        BY <1>1, <4>1, GhostShape DEF GhostFields
      <4> QED
        BY <4>2 DEF H
    <3>2. CASE ~worker_answers
      BY <3>2 DEF worker_checks, worker_wakes, worker_times_out, worker_sets_state, worker_counts,
                  worker_runs_sat
    <3> QED
      BY <3>1, <3>2
  <2> QED
    BY <2>1, StillHits
<1>5. \A i \in Buf : u.readbuf_count[i] # 0 => rbuf'[i] = rbuf[i]
  <2>1. CASE worker_runs_sat
    BY <2>1, SatStep
  <2>2. CASE ~worker_runs_sat
    BY <2>2 DEF worker_checks, worker_wakes, worker_times_out, worker_answers, worker_sets_state,
                worker_counts
  <2> QED
    BY <2>1, <2>2
<1>6. worker'.pc \notin {"reading", "filled"}
  <2>1. CASE \/ worker_checks \/ worker_wakes \/ worker_times_out \/ worker_sets_state
             \/ worker_counts
    BY <1>1, <2>1 DEF worker_checks, worker_wakes, worker_times_out, worker_sets_state,
                      worker_counts, Goto, Workers
  <2>2. CASE worker_answers
    <3>1. CASE ~u.read_blocked
      BY <1>1, <2>2, <3>1 DEF worker_answers, Goto, Workers
    <3>2. CASE u.read_blocked
      <4>1. \E p \in {"sat", "sent"} : \E s, n :
               worker' = [worker EXCEPT !.pc = p, !.state = s, !.size = n]
        BY <2>2, <3>2 DEF worker_answers
      <4> QED
        BY <1>1, <4>1 DEF Workers
    <3> QED
      BY <3>1, <3>2
  <2>3. CASE worker_runs_sat
    <3>1. CASE u.sat_pending = "SAT_PENDING_NONE"
      BY <1>1, <2>3, <3>1 DEF worker_runs_sat, Goto, Workers
    <3>2. CASE u.sat_pending # "SAT_PENDING_NONE"
      <4>1. \E p \in {"check", "sent"} : \E s : worker' = [worker EXCEPT !.pc = p, !.state = s]
        BY <2>3, <3>2 DEF worker_runs_sat
      <4> QED
        BY <1>1, <4>1 DEF Workers
    <3> QED
      BY <3>1, <3>2
  <2> QED
    BY <2>1, <2>2, <2>3
<1>7. CountedStay
  BY <1>3, <1>5, CountedCells
<1> QED
  BY <1>1, <1>2, <1>4, <1>6, <1>7, AsideCurrent, CachedStays
     DEF HistoryStays, CellsStay, FillingStay

\* A waiting block that becomes the busy one, a block that is stored or whose store fails, and a
\* buffer that is given back: what was current of a sector in no buffer stays so.
LEMMA WritesCached ==
    ASSUME ProtocolInvariant, Runs, Cached, worker_pushes \/ worker_stores \/ worker_releases
    PROVE  Cached'
<1>1. Types /\ Types' /\ u \in Statics /\ ghost \in Ghosts /\ worker \in Workers
  BY WorkerPushStep, StoreStep, ReleaseStep DEF ProtocolInvariant, Types
<1>2. CachesStay
  BY WorkerPushStep, StoreStep, ReleaseStep
<1>3. rbuf' = rbuf /\ host' = host /\ worker'.pc \notin {"reading", "filled"}
  BY <1>1, Zenon DEF worker_pushes, worker_stores, worker_releases, Goto, Workers
<1>4. CountedStay
  BY <1>2, <1>3, CountedCells
<1>5. ASSUME NEW s \in Sectors PROVE (Received(s)' <=> Received(s)) /\ New(s)' = New(s)
  BY <1>3 DEF Received, New
<1>6. /\ ghost'.hit = ghost.hit
      /\ \A s \in Sectors : /\ ghost.acked[s] \subseteq ghost'.acked[s]
                            /\ ~Busy(s) /\ s \in ghost.lost => s \in ghost'.lost
  <2>1. CASE worker_pushes
    <3>1. \E n, d : ghost' = [ghost EXCEPT !.unreported = n, !.dropped = d]
      BY <2>1 DEF worker_pushes
    <3> QED
      BY <1>1, <3>1, GhostShape DEF GhostFields
  <2>2. CASE worker_stores
    <3> DEFINE more == [s \in Sectors |-> ghost.acked[s] \cup {storage'[s]}]
    <3>1. ASSUME NEW s \in Sectors, ~Busy(s) PROVE s \notin Storing
      <4>1. s \in Nat /\ u.writebuf_sector \in Nat /\ u.writebuf_count \in Nat
        BY <1>1, Numbers
      <4>2. u.writebuf_busy
        BY <2>2, Zenon DEF worker_stores
      <4> QED
        BY <3>1, <4>1, <4>2 DEF Storing, Busy
    <3>2. CASE ghost' = [ghost EXCEPT !.lost = ghost.lost \ Storing]
      <4> DEFINE L == ghost.lost \ Storing
      <4>1. ghost' = [ghost EXCEPT !.lost = L]
        BY <3>2
      <4> HIDE DEF L
      <4>2. ghost'.lost = L /\ ghost'.acked = ghost.acked /\ ghost'.hit = ghost.hit
        BY <1>1, <4>1, GhostShape DEF GhostFields
      <4> QED
        BY <3>1, <4>2 DEF L
    <3>3. CASE \E n : ghost' = [ghost EXCEPT !.odd = n, !.unreported = TRUE,
                                 !.lost = ghost.lost \cup Storing, !.acked = more]
      <4> DEFINE L == ghost.lost \cup Storing
      <4>1. PICK n : ghost' = [ghost EXCEPT !.odd = n, !.unreported = TRUE, !.lost = L, !.acked = more]
        BY <3>3, Zenon
      <4> HIDE DEF L, more
      <4>2. DOMAIN ghost = GhostFields
        BY <1>1, GhostShape
      <4>3. ghost'.lost = L /\ ghost'.acked = more /\ ghost'.hit = ghost.hit
        BY <4>1, <4>2 DEF GhostFields
      <4> QED
        BY <4>3 DEF L, more
    <3>4. \/ ghost' = [ghost EXCEPT !.lost = ghost.lost \ Storing]
          \/ \E n : ghost' = [ghost EXCEPT !.odd = n, !.unreported = TRUE,
                               !.lost = ghost.lost \cup Storing, !.acked = more]
      BY <2>2, Zenon DEF worker_stores
    <3> QED
      BY <3>2, <3>3, <3>4
  <2>3. CASE worker_releases
    BY <2>3 DEF worker_releases
  <2> QED
    BY <2>1, <2>2, <2>3
<1>7. ASSUME NEW s \in Sectors, ~Busy(s), ~Late(s) PROVE ~Busy(s)' /\ ~Late(s)'
  <2>1. CASE worker_pushes
    <3>1. CASE ~u.writebuf_overrun
      <4>1. u' = u
        BY <2>1, <3>1, WorkerPushStep
      <4> QED
        BY <1>7, <4>1 DEF Busy, Late
    <3>2. CASE u.writebuf_overrun
      <4> DEFINE w == [u EXCEPT !.writebuf_overrun = FALSE]
      <4>1. Pushes(u', w)
        BY <2>1, <3>2, WorkerPushStep
      <4>2. /\ w.sector = u.sector /\ w.length = u.length /\ w.writebuf_overrun = FALSE
        BY <1>1 DEF Statics
      <4> HIDE DEF w
      <4>3. u'.writebuf_sector = u.sector /\ u'.writebuf_count = u.length /\ ~u'.writebuf_overrun
        BY <4>1, <4>2 DEF Pushes
      <4> QED
        BY <1>7, <3>2, <4>3 DEF Busy, Late
    <3> QED
      BY <3>1, <3>2
  <2>2. CASE worker_stores
    BY <1>7, <2>2, StoreStep DEF Busy, Late
  <2>3. CASE worker_releases
    BY <1>7, <2>3, ReleaseStep DEF Busy, Late
  <2> QED
    BY <2>1, <2>2, <2>3
<1>8. HistoryStays
  BY <1>5, <1>6, <1>7 DEF HistoryStays, HitsStay, StaysCurrent
<1> QED
  BY <1>1, <1>3, <1>4, <1>8, CachedStays DEF CellsStay, FillingStay

\* The thread begins to fill the newest buffer, if that is empty: of each sector that is not in
\* a write buffer, the medium has the newest content.
LEMMA ReadCached ==
    ASSUME ProtocolInvariant, Runs, Kept, ~ghost.dropped, Cached, worker_reads
    PROVE  Cached'
<1>1. Types /\ Types' /\ u \in Statics /\ ghost \in Ghosts /\ worker \in Workers
  BY ReadStep DEF ProtocolInvariant, Types
<1> DEFINE c == u.readbuf_current
           H == ghost.hit \cup {u.readbuf_current} \X NotStored
<1>2. /\ u' = u /\ rbuf' = rbuf /\ storage' = storage
      /\ worker'.pc \in {"answer", "reading"} /\ worker.pc = "read"
      /\ worker'.pc = "reading" => worker'.c = c /\ worker'.sector = u.readbuf_sector[c]
  BY <1>1 DEF worker_reads, Workers
<1>3. Aside
  BY WorkerAside
<1>4. ghost'.hit = H
  <2>1. ghost' = [ghost EXCEPT !.hit = H]
    BY DEF worker_reads
  <2> HIDE DEF H
  <2> QED
    BY <1>1, <2>1, GhostShape DEF GhostFields
<1>5. HistoryStays
  BY <1>1, <1>3, <1>4, AsideCurrent DEF HistoryStays, HitsStay
<1>6. CountedStay
  BY <1>2 DEF CountedStay
<1>7. Counted'
  BY <1>5, <1>6, CountedStays
<1>8. ASSUME NEW s \in Sectors, <<c, s>> \notin H
      PROVE  /\ ~Busy(s) /\ ~Late(s) /\ storage[s] \in ghost.acked[s]
             /\ Received(s) => s \in ghost.lost \/ storage[s] = New(s)
  <2>1. s \notin NotStored
    BY <1>8
  <2>2. /\ s \in Nat /\ u.writebuf_sector \in Nat /\ u.writebuf_count \in Nat
        /\ u.sector \in Nat /\ u.length \in Nat
    BY <1>1, Numbers
  <2>3. ~Busy(s)
    BY <2>1, <2>2 DEF NotStored, Busy, Storing
  <2>4. ~Late(s)
    BY <2>1, <2>2 DEF NotStored, Late
  <2>5. Placed(s)
    BY DEF Kept
  <2> QED
    BY <2>3, <2>4, <2>5 DEF Placed
<1>9. ASSUME NEW s, NEW cell, s \in Sectors => cell = storage[s]
      PROVE  Sound(c, s, cell)
             \/ <<c, s>> \in H
  BY <1>8, <1>9 DEF Sound
<1>10. ASSUME NEW s, NEW cell, s \in Sectors => cell = storage[s]
       PROVE  Sound(c, s, cell)'
  <2>1. CASE <<c, s>> \in H
    BY <1>2, <1>4, <2>1 DEF Sound
  <2>2. CASE <<c, s>> \notin H
    <3>1. Sound(c, s, cell)
      BY <1>9, <1>10, <2>2
    <3>2. u'.readbuf_sector[c] = u.readbuf_sector[c]
      BY <1>2
    <3> QED
      BY <1>2, <1>5, <3>1, <3>2, SoundKept
  <2> QED
    BY <2>1, <2>2
<1>11. ASSUME worker'.pc = "reading", NEW k \in Slots, worker'.sector + k < NumSectors
       PROVE  Sound(worker.c, worker.sector + k, storage[worker.sector + k])'
  <2>1. worker'.c = c /\ u'.readbuf_current = c
    BY <1>2, <1>11
  <2>2. storage'[worker'.sector + k] = storage[worker'.sector + k]
    BY <1>2
  <2> QED
    BY <1>10, <2>1, <2>2
<1> QED
  BY <1>2, <1>7, <1>11 DEF Cached

\* The thread has read the sectors, or the storage has failed and nothing counts as read.
LEMMA FillCached ==
    ASSUME ProtocolInvariant, Runs, Cached, worker_fills
    PROVE  Cached'
<1>1. /\ Types /\ Types' /\ u \in Statics /\ worker \in Workers
      /\ rbuf \in [Buf -> [Slots -> Cells]] /\ Filled
  BY FillStep DEF ProtocolInvariant, Types, Protocol, Runs, Astray
<1>2. Aside
  BY WorkerAside
<1>3. /\ u' = u /\ storage' = storage /\ worker.pc = "reading" /\ worker'.pc = "filled"
      /\ worker'.c = worker.c /\ worker'.sector = worker.sector
      /\ \A i \in Buf : i # worker.c => rbuf'[i] = rbuf[i]
      /\ worker.c \in Buf /\ u.readbuf_count[worker.c] = 0 /\ worker.sector \in Sectors
  BY <1>1 DEF worker_fills, Workers, Filled
<1>4. HistoryStays
  <2>1. ghost'.hit = ghost.hit
    <3>1. ghost \in Ghosts
      BY DEF ProtocolInvariant, Types
    <3>2. ghost' = ghost \/ ghost' = [ghost EXCEPT !.odd = ghost.odd + 1]
      BY DEF worker_fills
    <3> QED
      BY <3>1, <3>2, GhostShape DEF GhostFields
  <2> QED
    BY <1>1, <1>2, <2>1, AsideCurrent DEF HistoryStays, HitsStay
<1>5. CountedStay
  <2>1. ASSUME NEW i \in Buf, NEW k \in Slots, k < u'.readbuf_count[i]
        PROVE  i # worker.c
    <3>1. ~(k < 0)
      BY SlotNumber
    <3> QED
      BY <1>3, <2>1, <3>1
  <2> QED
    BY <1>3, <2>1 DEF CountedStay
<1>6. Counted'
  BY <1>4, <1>5, CountedStays
<1>7. ASSUME NEW k \in Slots, k < worker'.count
      PROVE  worker.sector + k < NumSectors /\ rbuf'[worker.c][k] = storage[worker.sector + k]
  <2>1. k \in Nat /\ k < BufSectors /\ worker.sector \in Nat /\ worker.sector < NumSectors
    BY <1>3, SlotNumber, SectorNumber
  <2>2. CASE worker'.count = -1
    <3>1. ~(k < -1)
      BY <2>1
    <3> QED
      BY <1>7, <2>2, <3>1
  <2>3. CASE /\ rbuf' = [rbuf EXCEPT ![worker.c] =
                          [j \in Slots |-> IF j < Fill THEN storage[worker.sector + j]
                                                       ELSE rbuf[worker.c][j]]]
             /\ worker'.count = Fill
    <3>1. k < Fill
      BY <1>7, <2>3
    <3>2. rbuf'[worker.c][k] = storage[worker.sector + k]
      BY <1>1, <1>3, <2>3, <3>1
    <3>3. worker.sector + k < NumSectors
      <4>1. Fill <= NumSectors - worker.sector
        BY <2>1, DiskAssumption DEF Fill, Lesser
      <4>2. Fill \in Int /\ NumSectors \in Int
        BY <2>1, DiskAssumption DEF Fill, Lesser
      <4> QED
        BY <2>1, <3>1, <4>1, <4>2
    <3> QED
      BY <3>2, <3>3
  <2>4. \/ worker'.count = -1
        \/ /\ rbuf' = [rbuf EXCEPT ![worker.c] =
                        [j \in Slots |-> IF j < Fill THEN storage[worker.sector + j]
                                                     ELSE rbuf[worker.c][j]]]
           /\ worker'.count = Fill
    <3>1. CASE worker' = [worker EXCEPT !.pc = "filled", !.count = -1]
      BY <1>1, <3>1 DEF Workers
    <3>2. CASE /\ rbuf' = [rbuf EXCEPT ![worker.c] =
                            [j \in Slots |-> IF j < Fill THEN storage[worker.sector + j]
                                                         ELSE rbuf[worker.c][j]]]
               /\ worker' = [worker EXCEPT !.pc = "filled", !.count = Fill]
      <4>1. worker'.count = Fill
        BY <1>1, <3>2 DEF Workers
      <4> QED
        BY <3>2, <4>1
    <3> QED
      BY <3>1, <3>2 DEF worker_fills
  <2> QED
    BY <2>2, <2>3, <2>4
<1>8. ASSUME NEW k \in Slots, k < worker'.count
      PROVE  Sound(worker.c, worker.sector + k, rbuf[worker.c][k])'
  <2>1. Sound(worker.c, worker.sector + k, storage[worker.sector + k])
    BY <1>3, <1>7, <1>8 DEF Cached
  <2>2. rbuf'[worker.c][k] = storage[worker.sector + k]
    BY <1>7, <1>8
  <2>3. u'.readbuf_sector[worker.c] = u.readbuf_sector[worker.c]
    BY <1>3
  <2> QED
    BY <1>3, <1>4, <2>1, <2>2, <2>3, SoundKept
<1> QED
  BY <1>3, <1>6, <1>8 DEF Cached

\* What was read counts as read ahead.
LEMMA CommitCached ==
    ASSUME ProtocolInvariant, Runs, Cached, worker_commits
    PROVE  Cached'
<1>1. Types /\ Types' /\ worker \in Workers /\ Filled
  BY CommitStep DEF ProtocolInvariant, Types, Protocol, Runs, Astray
<1>2. Aside
  BY WorkerAside
<1>3. /\ rbuf' = rbuf /\ ghost' = ghost /\ worker.pc = "filled" /\ worker'.pc = "answer"
      /\ worker.sector = u.readbuf_sector[worker.c]
      /\ u'.readbuf_sector = u.readbuf_sector
      /\ \A i \in Buf : u'.readbuf_count[i] = IF i = worker.c THEN worker.count
                                              ELSE u.readbuf_count[i]
  BY <1>1, CommitStep DEF worker_commits, Goto, Workers, Filled
<1>4. HistoryStays
  BY <1>1, <1>2, <1>3, AsideCurrent DEF HistoryStays, HitsStay
<1>5. ASSUME NEW i \in Buf, NEW k \in Slots, k < u'.readbuf_count[i]
      PROVE  Sound(i, u.readbuf_sector[i] + k, rbuf[i][k])'
  <2>1. Sound(i, u.readbuf_sector[i] + k, rbuf[i][k])
    <3>1. CASE i = worker.c
      <4>1. k < worker.count /\ u.readbuf_sector[i] + k = worker.sector + k
        BY <1>3, <1>5, <3>1
      <4>2. Sound(worker.c, worker.sector + k, rbuf[worker.c][k])
        BY <1>3, <4>1 DEF Cached
      <4> QED
        BY <3>1, <4>1, <4>2
    <3>2. CASE i # worker.c
      BY <1>3, <1>5, <3>2 DEF Cached, Counted
    <3> QED
      BY <3>1, <3>2
  <2>2. u'.readbuf_sector[i] = u.readbuf_sector[i] /\ rbuf'[i][k] = rbuf[i][k]
    BY <1>3
  <2> QED
    BY <1>4, <2>1, <2>2, SoundKept
<1> QED
  BY <1>3, <1>5 DEF Cached, Counted

\* At first both read buffers are empty.
LEMMA CachedInit == Init => Cached
<1> SUFFICES ASSUME Init PROVE Cached
  OBVIOUS
<1>1. worker.pc = "wait" /\ \A i \in Buf : u.readbuf_count[i] = 0
  BY DEF Init
<1>2. ASSUME NEW k \in Slots PROVE ~(k < 0)
  BY SlotNumber
<1> QED
  BY <1>1, <1>2 DEF Cached, Counted

\* The cache stays sound as long as no completion overtakes the thread and no block is dropped.
LEMMA CachedStep ==
    ASSUME ProtocolInvariant, Kept, Cached, [Next]_vars, ~ghost'.overtaken, ~ghost.dropped
    PROVE  Cached'
<1>1. CASE WorkerNext
  <2>1. Runs
    BY <1>1 DEF WorkerNext
  <2>2. CASE \/ worker_checks \/ worker_wakes \/ worker_times_out \/ worker_answers
             \/ worker_sets_state \/ worker_counts \/ worker_runs_sat
    BY <2>1, <2>2, ThreadCached
  <2>3. CASE worker_pushes \/ worker_stores \/ worker_releases
    BY <2>1, <2>3, WritesCached
  <2>4. CASE worker_reads
    BY <2>1, <2>4, ReadCached
  <2>5. CASE worker_fills
    BY <2>1, <2>5, FillCached
  <2>6. CASE worker_commits
    BY <2>1, <2>6, CommitCached
  <2> QED
    BY <1>1, <2>2, <2>3, <2>4, <2>5, <2>6 DEF WorkerNext
<1>2. CASE host_command \/ HostContinues
  <2>1. Filled
    BY <1>2 DEF HostContinues, host_command, host_sends_block, host_sends_sat, host_takes_data,
                host_takes_csw, host_clears_in, host_clears_out, Runs, Astray,
                ProtocolInvariant, Protocol
  <2>2. Filled'
    BY ProtocolStep DEF ProtocolInvariant, Protocol
  <2>3. CASE host_sends_block
    BY <2>1, <2>2, <2>3, BlockCached
  <2>4. CASE host_takes_csw
    BY <2>1, <2>2, <2>4, CswCached
  <2>5. CASE host_command \/ host_sends_sat \/ host_takes_data \/ host_clears_in \/ host_clears_out
    BY <2>1, <2>2, <2>5, HostCached
  <2> QED
    BY <1>2, <2>3, <2>4, <2>5 DEF HostContinues
<1>3. CASE UNCHANGED vars
  BY <1>3 DEF vars, Cached, Counted, Sound, Received, New, Busy, Late
<1> QED
  BY <1>1, <1>2, <1>3 DEF Next

-----------------------------------------------------------------------------
(* The theorems.                                                           *)

\* Only data that the host takes can be wrong, and a dropped block is not forgotten.
LEMMA HistoryGrows ==
    ASSUME ghost \in Ghosts, [Next]_vars
    PROVE  /\ ghost.dropped => ghost'.dropped
           /\ ~host_takes_data => ghost'.wrong = ghost.wrong
<1>1. CASE host_command \/ worker_answers \/ worker_reads
  <2>1. \E h, n : ghost' = [ghost EXCEPT !.hit = h, !.odd = n]
    <3>1. CASE host_command
      BY <3>1 DEF host_command
    <3>2. CASE worker_answers \/ worker_reads
      <4>1. \E h : ghost' = [ghost EXCEPT !.hit = h]
        BY <3>2 DEF worker_answers, worker_reads
      <4>2. \A h : [ghost EXCEPT !.hit = h] = [ghost EXCEPT !.hit = h, !.odd = ghost.odd]
        BY DEF Ghosts
      <4> QED
        BY <4>1, <4>2
    <3> QED
      BY <1>1, <3>1, <3>2
  <2> QED
    BY <2>1, GhostShape DEF GhostFields
<1>2. CASE host_sends_block
  <2>1. \E w, n, h, a : ghost' = [ghost EXCEPT !.wild = w, !.unreported = n, !.hit = h, !.acked = a]
    BY <1>2, Zenon DEF host_sends_block
  <2> QED
    BY <2>1, GhostShape DEF GhostFields
<1>3. CASE host_takes_data
  <2>1. \E o, h, a, r : ghost' = [ghost EXCEPT !.overtaken = o, !.hit = h, !.wrapped = a, !.wrong = r]
    BY <1>3 DEF host_takes_data
  <2> QED
    BY <1>3, <2>1, GhostShape DEF GhostFields
<1>4. CASE host_takes_csw
  <2>1. \E o, a : ghost' = [ghost EXCEPT !.overtaken = o, !.acked = a]
    BY <1>4, Zenon DEF host_takes_csw
  <2> QED
    BY <2>1, GhostShape DEF GhostFields
<1>5. CASE host_clears_out
  <2>1. \E r : ghost' = [ghost EXCEPT !.relistened = r]
    BY <1>5 DEF host_clears_out
  <2> QED
    BY <2>1, GhostShape DEF GhostFields
<1>6. CASE worker_pushes
  <2>1. \E n, b : ghost' = [ghost EXCEPT !.unreported = n, !.dropped = ghost.dropped \/ b]
    BY <1>6 DEF worker_pushes
  <2> QED
    BY <2>1, GhostShape DEF GhostFields
<1>7. CASE worker_stores
  <2> DEFINE fewer == ghost.lost \ Storing
             more == ghost.lost \cup Storing
             either == [s \in Sectors |-> ghost.acked[s] \cup {storage'[s]}]
  <2>1. \/ ghost' = [ghost EXCEPT !.lost = fewer]
        \/ \E n : ghost' = [ghost EXCEPT !.odd = n, !.unreported = TRUE, !.lost = more,
                                         !.acked = either]
    BY <1>7 DEF worker_stores
  <2> HIDE DEF fewer, more, either
  <2> QED
    BY <2>1, GhostShape DEF GhostFields
<1>8. CASE worker_fills
  <2>1. ghost' = ghost \/ \E n : ghost' = [ghost EXCEPT !.odd = n]
    BY <1>8 DEF worker_fills
  <2> QED
    BY <2>1, GhostShape DEF GhostFields
<1>9. CASE \/ host_sends_sat \/ host_clears_in \/ worker_checks \/ worker_wakes
           \/ worker_times_out \/ worker_releases \/ worker_commits \/ worker_sets_state
           \/ worker_counts \/ worker_runs_sat \/ UNCHANGED vars
  BY <1>9 DEF host_sends_sat, host_clears_in, worker_checks, worker_wakes, worker_times_out,
              worker_releases, worker_commits, worker_sets_state, worker_counts,
              worker_runs_sat, vars
<1> QED
  BY <1>1, <1>2, <1>3, <1>4, <1>5, <1>6, <1>7, <1>8, <1>9 DEF Next, HostContinues, WorkerNext

\* A block of a READ comes from sound cells of one read buffer.
LEMMA NothingWrong ==
    ASSUME ProtocolInvariant, Cached, host_takes_data, ~ghost'.overtaken,
           u.in.to = "block", ~Wraps(u, u.in.buf)
    PROVE  Wrong = {}
<1>1. u \in Statics /\ ghost \in Ghosts /\ Types /\ InPhase
  BY DEF ProtocolInvariant, Types, Protocol, host_takes_data, Runs, Astray
<1>2. SendingBlocks
  <2>1. ~Overtakes
    <3>1. \E h, a, r : ghost' = [ghost EXCEPT !.overtaken = ghost.overtaken \/ Overtakes, !.hit = h,
                                              !.wrapped = a, !.wrong = r]
      BY DEF host_takes_data
    <3> QED
      BY <1>1, <3>1, GhostShape DEF GhostFields
  <2>2. ~NotingBlock
    BY <2>1 DEF NotingBlock, Overtakes
  <2> QED
    BY <1>1, <2>2, WhoseTurn
<1> DEFINE i == u.in.buf
<1>3. /\ i \in Buf /\ u.in.off = Here - u.readbuf_sector[i]
      /\ u.in.off + u.in.size <= u.readbuf_count[i]
  BY <1>2 DEF SendingBlocks, BlockSent
<1>4. /\ u.in.off \in Slots /\ u.in.size \in 0..NumSectors
      /\ host.cmd.sector \in Nat /\ host.got \in Nat
  <2>1. u.in \in InTransfers
    BY <1>1 DEF Statics
  <2> QED
    BY <1>1, <2>1, HostNumbers DEF InTransfers, TransfersTo
<1>5. /\ u.in.off \in Nat /\ u.in.size \in Int /\ u.readbuf_sector[i] \in Nat
      /\ u.readbuf_count[i] \in Int /\ u.readbuf_count[i] <= BufSectors /\ BufSectors \in Int
  <2>1. u.readbuf_sector[i] \in Sectors /\ u.readbuf_count[i] \in -1..BufSectors
    BY <1>1, <1>3, StaticsNumbers
  <2>2. BufSectors \in Int /\ NumSectors \in Int
    BY DiskAssumption
  <2> QED
    BY <1>4, <2>1, <2>2, SlotNumber, SectorNumber
<1> SUFFICES ASSUME NEW s \in Wrong PROVE FALSE
  OBVIOUS
<1> DEFINE k == s - (host.cmd.sector + host.got)
           j == u.in.off + k
<1>6. /\ s \in Sectors /\ k \in 0..u.in.size - 1 /\ <<i, s>> \notin ghost.hit
      /\ j \in Slots => rbuf[i][j] \notin ghost.acked[s]
  BY DEF Wrong
<1>7. s \in Nat
  BY <1>6, SectorNumber
<1>8. j \in Int /\ 0 <= j /\ j < u.readbuf_count[i] /\ u.readbuf_sector[i] + j = s
  <2>1. k \in Int /\ 0 <= k /\ k <= u.in.size - 1
    BY <1>4, <1>5, <1>6, <1>7
  <2>2. Here = host.cmd.sector + host.got /\ Here \in Nat
    BY <1>4 DEF Here
  <2>3. k = s - Here
    BY <2>2
  <2> HIDE DEF k
  <2> QED
    BY <1>3, <1>4, <1>5, <1>7, <2>1, <2>2, <2>3
<1>9. j \in Slots
  BY <1>5, <1>8, DiskAssumption DEF Slots
<1>10. Sound(i, s, rbuf[i][j])
  BY <1>3, <1>8, <1>9 DEF Cached, Counted
<1> QED
  BY <1>6, <1>9, <1>10 DEF Sound

DataInvariant ==
    /\ Kept
    /\ ~ghost.overtaken /\ ~ghost.dropped => Cached
    /\ ReadsCurrent

\* No step breaks the invariant of the data.
LEMMA DataStep ==
    ASSUME ProtocolInvariant, DataInvariant, [Next]_vars
    PROVE  DataInvariant'
<1>1. ghost \in Ghosts
  BY DEF ProtocolInvariant, Types
<1>2. ghost.dropped => ghost'.dropped
  BY <1>1, HistoryGrows
<1>3. ~ghost'.overtaken => ~ghost.overtaken
  <2>1. CASE Next
    BY <2>1 DEF Next, HostContinues, WorkerNext, host_command, host_sends_block, host_sends_sat,
       host_takes_data, host_takes_csw, host_clears_in, host_clears_out, Runs, Astray
  <2>2. CASE UNCHANGED vars
    BY <2>2 DEF vars
  <2> QED
    BY <2>1, <2>2
<1>4. Kept'
  BY KeptStep DEF DataInvariant
<1>5. (~ghost.overtaken /\ ~ghost.dropped => Cached)'
  BY <1>2, <1>3, CachedStep DEF DataInvariant
<1>6. ReadsCurrent'
  <2> SUFFICES ASSUME ~ghost'.overtaken, ~ghost'.wrapped, ~ghost'.dropped PROVE ghost'.wrong = {}
    BY DEF ReadsCurrent
  <2>1. CASE host_takes_data
    <3>1. ghost.wrong = {} /\ Cached
      BY <1>2, <2>1 DEF host_takes_data, Runs, Astray, DataInvariant, ReadsCurrent
    <3> DEFINE W == IF u.in.to = "block" THEN ghost.wrong \cup Wrong ELSE ghost.wrong
               P == ghost.wrapped \/ (u.in.to = "block" /\ Wraps(u, u.in.buf))
    <3>2. \E o, h : ghost' = [ghost EXCEPT !.overtaken = o, !.hit = h, !.wrapped = P, !.wrong = W]
      BY <2>1 DEF host_takes_data
    <3> HIDE DEF W, P
    <3>3. ghost'.wrong = W /\ ghost'.wrapped = P
      BY <1>1, <3>2, GhostShape DEF GhostFields
    <3>4. u.in.to = "block" => Wrong = {}
      BY <2>1, <3>1, <3>3, NothingWrong DEF P
    <3> QED
      BY <3>1, <3>3, <3>4 DEF W
  <2>2. CASE ~host_takes_data
    <3>1. ghost'.wrong = ghost.wrong
      BY <1>1, <2>2, HistoryGrows
    <3>2. ~ghost.wrapped \/ UNCHANGED vars
      BY DEF Next, HostContinues, WorkerNext, host_command, host_sends_block, host_sends_sat,
       host_takes_data, host_takes_csw, host_clears_in, host_clears_out, Runs, Astray
    <3>3. UNCHANGED vars => ghost' = ghost
      BY DEF vars
    <3> QED
      BY <1>2, <1>3, <3>1, <3>2, <3>3 DEF DataInvariant, ReadsCurrent
  <2> QED
    BY <2>1, <2>2
<1> QED
  BY <1>4, <1>5, <1>6 DEF DataInvariant

\* Who may touch what, and what is in it, whatever the interrupt does between two steps of the
\* thread.
THEOREM DataHolds == Spec => [](ProtocolInvariant /\ DataInvariant)
<1>1. Init => ProtocolInvariant /\ DataInvariant
  <2>1. Init => ReadsCurrent
    BY DEF Init, ReadsCurrent
  <2> QED
    BY <2>1, DiskInit, KeptInit, CachedInit DEF DataInvariant
<1>2. ProtocolInvariant /\ DataInvariant /\ [Next]_vars => (ProtocolInvariant /\ DataInvariant)'
  BY ProtocolStep, DataStep
<1> QED
  BY <1>1, <1>2, PTL DEF Spec

\* An acknowledged write is on the medium or in the busy buffer, unless a store of it failed or
\* worker_pushes dropped a block: writebuf_push and the thread hand the two write buffers over
\* without losing one.
THEOREM AckedKept == Spec => []AckedIsKept
<1>1. ProtocolInvariant /\ DataInvariant => AckedIsKept
  <2> SUFFICES ASSUME ProtocolInvariant, DataInvariant, ~ghost.dropped, NEW s \in Sectors
               PROVE  \/ storage[s] \in ghost.acked[s]
                      \/ /\ u.writebuf_busy
                         /\ s \in Storing
                         /\ wbuf[u.writebuf_current][s - u.writebuf_sector] \in ghost.acked[s]
    BY DEF AckedIsKept, NoBlockIsLost
  <2>1. Placed(s)
    BY DEF DataInvariant, Kept
  <2>2. Busy(s) => s \in Storing
    <3>1. s \in Nat /\ u.writebuf_sector \in Nat /\ u.writebuf_count \in Nat
      BY Numbers DEF ProtocolInvariant
    <3> QED
      BY <3>1 DEF Busy, Storing
  <2> QED
    BY <2>1, <2>2 DEF Placed, Busy, BusyCell
<1> QED
  BY <1>1, DataHolds, PTL

\* A READ returns what the host last wrote: update_readcache, the two read buffers and the
\* thread's order (store, then read ahead) never answer for a sector with older content, except
\* in the four cases that ReadsCurrent names.
THEOREM CurrentReads == Spec => []ReadsCurrent
<1>1. ProtocolInvariant /\ DataInvariant => ReadsCurrent
  BY DEF DataInvariant
<1> QED
  BY <1>1, DataHolds, PTL
=============================================================================
