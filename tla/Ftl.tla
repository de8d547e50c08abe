--------------------------------- MODULE Ftl ---------------------------------
(***************************************************************************)
(* The flash translation layer of the iPod nano 2G                         *)
(* (emcore/target/ipodnano2g/ftl.c): page writes go to scattered ("log")   *)
(* blocks, which are later compacted or committed to whole blocks; the     *)
(* block map, the erase counters and the FTL context go to a ring of three *)
(* control blocks; an unclean mount rebuilds everything by a scan.         *)
(*                                                                         *)
(* Every exposed function holds ftl_mtx from its first access to the       *)
(* state to its last, so a call is one step of the state machine.  What    *)
(* may come between is a loss of power, at any flash operation: a call is  *)
(* an operator from the FTL's state to its next one, which also collects   *)
(* in "trace" the erases and programs it did, and a cut keeps a prefix of  *)
(* them.  Operators bear the names of the functions they model.            *)
(*                                                                         *)
(* The NAND and the VFL below are external: they do what they are asked    *)
(* to, a VFL context commit is atomic, and a page or block hit by a power  *)
(* cut may become unreadable.  There is one bank, one block map page and   *)
(* one erase counter page.  A sector's contents are the number of the      *)
(* write that put them there.                                              *)
(***************************************************************************)
EXTENDS Integers, Sequences, FiniteSets, FiniteSetsExt

CONSTANTS UserBlocks,  \* ftl_nand_type->userblocks, the logical blocks
          Ppb,         \* pages per block
          Logs,        \* size of ftl_log; 0x11 in the code
          Chunk,       \* FTL_WRITESPARE_SIZE
          SwapWrite,   \* the swapcounter at which a write, ...
          SwapSync,    \* ... and a sync, swaps two blocks: 300 and 20
          SwapStep,    \* what a swap takes off the counter: 20
          MinSpread,   \* the wear spread below which nothing is swapped: 5
          DirtMax,     \* erases after which the counters are saved: 100
          TopUsn,      \* the meta data usn of a new flash, 0xFFFFFFFF
          Written,     \* the logical blocks which have contents at first
          Workloads    \* what is done to it, see WorkloadType

Pages == 0 .. Ppb - 1
Lbns == 0 .. UserBlocks - 1
Sectors == 0 .. UserBlocks * Ppb - 1
PoolSize == Logs + 3                         \* 0x14
Blocks == 0 .. UserBlocks + PoolSize + 2     \* userblocks + 0x17 of them
LogIds == 0 .. Logs - 1
None == -1                                   \* 0xFFFF
Unreadable == -1                             \* what a read error returns

\* A workload: the <<sector, count>> pairs that are written; bounds on the writes and on the
\* losses of power or reboots; whether what is cut short may leave unreadable pages;
\* and whether power may be lost while mounting.
WorkloadType ==
    [writes : SUBSET (Sectors \X (1 .. UserBlocks * Ppb)), maxWrites : Nat, maxCuts : Nat,
     tearing : BOOLEAN, repairCuts : BOOLEAN]

ASSUME FtlAssumption ==
    /\ {UserBlocks, Ppb, Logs, Chunk, DirtMax, TopUsn} \subseteq Nat \ {0}
    /\ {SwapWrite, SwapSync, SwapStep, MinSpread} \subseteq Nat
    /\ UserBlocks > Logs /\ Ppb % Chunk = 0
    /\ Written \subseteq Lbns
    /\ Workloads \subseteq WorkloadType
    /\ \A l \in Workloads : \A w \in l.writes : w[1] + w[2] - 1 \in Sectors

VARIABLES f,       \* the flash and, while the FTL is mounted, its RAM
          mode,    \* "up", "off", "panicked" or "unmountable"
          stored,  \* history: what the last acknowledged write put in a sector
          flight,  \* history: what a write cut short was putting there
          work,    \* the workload
          writes, cuts,
          wasClean, repaired, \* history: power went when clean; ftl_repair ran
          misled   \* history: a mount met a flash that misleads it, see Mount

vars == <<f, mode, stored, flight, work, writes, cuts, wasClean, repaired, misled>>

(***************************************************************************)
(* Flash pages.  "user" is type 0x40, "last" 0x41 (last page of a block    *)
(* whose pages are all in place), "cxt" 0x43, "map" 0x44, "ctr" 0x46 and   *)
(* "dirty" 0x47; "empty" is erased, "bad" unreadable.                      *)
(***************************************************************************)
MetaTypes == {"cxt", "map", "ctr", "dirty"}

Page(type, usn, lpn, data, meta) ==
    [type |-> type, usn |-> usn, lpn |-> lpn, data |-> data, meta |-> meta]
UserPage(last, usn, lpn, data) ==
    Page(IF last THEN "last" ELSE "user", usn, lpn, data, <<>>)
MetaPage(type, usn, meta) == Page(type, usn, 0, 0, meta)
Empty == Page("empty", 0, 0, 0, <<>>)
Bad == Page("bad", 0, 0, 0, <<>>)

Readable(pg) == pg.type \notin {"empty", "bad"}
Contents(pg) == CASE pg.type \in {"user", "last"} -> pg.data
                  [] pg.type = "empty" -> 0
                  [] OTHER -> Unreadable

At(s, a) == s.fl[a \div Ppb][a % Ppb]

\* for (i = 0; i < n; i++) acc = op(acc, i)
For(op(_, _), acc, n) ==
    LET go[i \in 0 .. n] == IF i = 0 THEN acc ELSE op(go[i - 1], i - 1)
    IN go[n]

\* The elements of a set of numbers from the least to the greatest
Ascending(S) ==
    [k \in 1 .. Cardinality(S) |->
        CHOOSE x \in S : Cardinality({y \in S : y < x}) = k - 1]

\* ftl_initialized = false, or an error return nothing recovers from
Panic(s) == [s EXCEPT !.broken = TRUE]

\* History: the control block in which meta data was written last
NewestAfter(s, a, pg) ==
    IF pg.type \in MetaTypes /\ \E i \in 0 .. 2 : s.vcb[i] = a \div Ppb
    THEN a \div Ppb ELSE s.newest

\* A page that became unreadable stays so until its block is erased.
ftl_vfl_write(s, a, pg) ==
    IF s.broken THEN s ELSE
    LET left == IF At(s, a).type = "bad" THEN Bad ELSE pg
    IN [s EXCEPT !.fl[a \div Ppb][a % Ppb] = left,
                 !.newest = NewestAfter(s, a, left),
                 !.unmarked = @ \/ (pg.type \in MetaTypes /\ At(s, a).type = "bad"),
                 !.trace = Append(@, [op |-> "program", at |-> a, page |-> left]),
                 !.twice = @ \/ Readable(At(s, a))]

\* Mutant: the erase is counted but not done.
CountErase(s, b) ==
    [s EXCEPT !.ec[b] = @ + 1,
              !.c.erasedirty = @ \/ s.dirt = DirtMax,
              !.dirt = IF @ = DirtMax THEN @ ELSE @ + 1]

ftl_erase_block(s, b) ==
    IF s.broken THEN s ELSE
    [s EXCEPT !.ec[b] = @ + 1,
              !.c.erasedirty = @ \/ s.dirt = DirtMax,
              !.dirt = IF @ = DirtMax THEN @ ELSE @ + 1,
              !.fl[b] = [p \in Pages |-> Empty],
              !.trace = Append(@, [op |-> "erase", at |-> b])]

(***************************************************************************)
(* The pool of free blocks, a ring buffer.                                 *)
(***************************************************************************)
Slot(s, i) == (s.c.idx + i) % PoolSize

\* Takes the i-th free block, which first changes places with the one at idx.
TakeBlock(s, i) ==
    LET block == s.c.pool[Slot(s, i)]
    IN [s |-> [ftl_erase_block(
                  [s EXCEPT !.c.pool[Slot(s, i)] = s.c.pool[s.c.idx],
                            !.c.pool[s.c.idx] = block], block)
                  EXCEPT !.c.idx = (@ + 1) % PoolSize, !.c.free = @ - 1],
        block |-> block]

\* The least worn free block, the first of them in ring order; vBlock 0
\* is taken for an unused slot.
ftl_allocate_pool_block(s) ==
    LET wear(i) == s.ec[s.c.pool[Slot(s, i)]]
        free == {i \in 0 .. s.c.free - 1 : s.c.pool[Slot(s, i)] # 0}
    IN IF free = {} \/ s.broken
       THEN [s |-> Panic(s), block |-> 0]
       ELSE TakeBlock(s, CHOOSE i \in free : \A j \in free :
                            wear(i) < wear(j) \/ (wear(i) = wear(j) /\ i <= j))

\* Mutant: the freed block goes one slot too far.
ReleaseTooFar(s, b) ==
    IF s.broken THEN s ELSE
    [s EXCEPT !.c.pool[Slot(s, s.c.free + 1)] = b, !.c.free = @ + 1]

ftl_release_pool_block(s, b) ==
    IF s.broken THEN s ELSE
    [s EXCEPT !.c.pool[Slot(s, s.c.free)] = b, !.c.free = @ + 1]

(***************************************************************************)
(* The control blocks.                                                     *)
(***************************************************************************)
ftl_store_ctrl_block_list(s) ==
    [s EXCEPT !.vcb = s.c.ctrl,
              !.trace = Append(@, [op |-> "list", ctrl |-> s.c.ctrl])]

ftl_save_erasectr_page(s) ==
    [ftl_vfl_write(s, s.c.page, MetaPage("ctr", s.c.usn, s.ec))
        EXCEPT !.c.ctrPage = s.c.page, !.dirt = 0]

\* The page after the current one, with the erase counters in it if they
\* were in the block "old" that has been replaced.
MoveErasectr(s, old) ==
    IF s.c.ctrPage \div Ppb # old THEN s
    ELSE [ftl_save_erasectr_page([s EXCEPT !.c.usn = @ - 1]) EXCEPT !.c.page = @ + 1]

\* Block a takes the place of control block i.
ReplaceCtrlBlock(a, i) ==
    LET old == a.s.c.ctrl[i]
    IN ftl_store_ctrl_block_list(ftl_release_pool_block(
          MoveErasectr([a.s EXCEPT !.c.ctrl[i] = a.block, !.c.page = a.block * Ppb],
                       old), old))

\* At the end of a control block the next of the three is replaced by a
\* block of the pool; the erase counters move out of it if they were there.
ftl_next_ctrl_pool_page(s) ==
    LET next == s.c.page + 1
        full == {i \in 0 .. 2 : (s.c.ctrl[i] + 1) * Ppb = next}
    IN IF next % Ppb # 0
       THEN [s EXCEPT !.c.page = next]
       ELSE ReplaceCtrlBlock(ftl_allocate_pool_block(s), (Min(full \cup {3}) + 1) % 3)

\* Mutant: the clean flag is set after the context was written.
WriteContextLate(s) ==
    [ftl_vfl_write(s, s.c.page, MetaPage("cxt", s.c.usn, <<s.c>>))
        EXCEPT !.c.clean = TRUE]

\* What follows the last page of a context commit: ftl_cxt itself.
WriteContext(s) ==
    LET clean == [s EXCEPT !.c.clean = TRUE]
    IN ftl_vfl_write(clean, s.c.page, MetaPage("cxt", s.c.usn, <<clean.c>>))

SaveMap(s) ==
    [ftl_vfl_write(s, s.c.page, MetaPage("map", s.c.usn, s.map))
        EXCEPT !.c.mapPage = s.c.page]

\* One erase counter page, one map page and the context page; the rest of
\* the block is skipped when they do not fit.
ftl_commit_cxt(s) ==
    LET block == s.c.page \div Ppb
        fits == s.c.page + 3 < (block + 1) * Ppb
    IN WriteContext(ftl_next_ctrl_pool_page(
          SaveMap(ftl_next_ctrl_pool_page(
             ftl_save_erasectr_page(ftl_next_ctrl_pool_page(
                IF fits THEN s ELSE [s EXCEPT !.c.page = block * Ppb + Ppb - 1]))))))

(***************************************************************************)
(* Log entries and reads.                                                  *)
(***************************************************************************)
FreeEntry == [sv |-> None, lv |-> None, off |-> [p \in Pages |-> None],
              used |-> 0, cur |-> 0, seq |-> TRUE, usn |-> 0]

Active(s) == {l \in LogIds : s.log[l].sv # None}

\* The index of the entry of a logical block, or None
ftl_get_log_entry(s, lb) ==
    LET found == {l \in Active(s) : s.log[l].lv = lb}
    IN IF found = {} THEN None ELSE Min(found)

\* The page a read of the sector goes to
Locate(s, sector) ==
    LET lb == sector \div Ppb
        page == sector % Ppb
        l == ftl_get_log_entry(s, lb)
    IN IF l # None /\ s.log[l].off[page] # None
       THEN s.log[l].sv * Ppb + s.log[l].off[page]
       ELSE s.map[lb] * Ppb + page

ftl_read(s, sector) == Contents(At(s, Locate(s, sector)))

(***************************************************************************)
(* Committing scattered blocks.                                            *)
(***************************************************************************)
ftl_copy_page(s, source, destination, lpn, seq) ==
    LET last == seq /\ destination % Ppb = Ppb - 1
    IN ftl_vfl_write([s EXCEPT !.c.next = @ + 1], destination,
                     UserPage(last, s.c.next + 1, lpn, Contents(At(s, source))))

\* Mutant: copies the block of the map, without its scattered pages.
CopyMapBlock(s, lb, destination) ==
    For(LAMBDA t, i : ftl_vfl_write(t, destination * Ppb + i,
                          UserPage(i = Ppb - 1, t.c.next, lb * Ppb + i,
                                   Contents(At(s, s.map[lb] * Ppb + i)))),
        [s EXCEPT !.c.next = @ + 1], Ppb)

\* All pages of the copy get the same usn.
ftl_copy_block(s, lb, destination) ==
    For(LAMBDA t, i : ftl_vfl_write(t, destination * Ppb + i,
                          UserPage(i = Ppb - 1, t.c.next, lb * Ppb + i,
                                   ftl_read(s, lb * Ppb + i))),
        [s EXCEPT !.c.next = @ + 1], Ppb)

ftl_check_still_sequential(e, page) ==
    [e EXCEPT !.seq = @ /\ e.used = e.cur /\ e.off[page] = page]

\* Copies the current pages of a scattered block to a new one.
ftl_compact_scattered(s, l) ==
    LET old == s.log[l].sv
        a == ftl_allocate_pool_block(s)
        fresh == [a.s EXCEPT !.log[l].sv = a.block, !.log[l].used = 0,
                             !.log[l].cur = 0, !.log[l].seq = TRUE]
        copy(t, j) ==
            LET e == t.log[l]
                to == a.block * Ppb + e.used
                moved == [e EXCEPT !.off[j] = e.used, !.used = @ + 1, !.cur = @ + 1]
            IN IF e.off[j] = None THEN t ELSE
               [ftl_copy_page(t, old * Ppb + e.off[j], to, e.lv * Ppb + j, e.seq)
                    EXCEPT !.log[l] = ftl_check_still_sequential(moved, j)]
        copied == For(copy, fresh, Ppb)
    IN IF s.log[l].cur = 0
       THEN ftl_release_pool_block([s EXCEPT !.log[l].sv = None], old)
       ELSE IF copied.log[l].cur # s.log[l].cur THEN Panic(s)
       ELSE ftl_release_pool_block(copied, old)

\* Copies the logical block, scattered pages and all, to a new block.
ftl_commit_scattered(s, l) ==
    LET e == s.log[l]
        a == ftl_allocate_pool_block(s)
        copied == ftl_copy_block(a.s, e.lv, a.block)
        freed == ftl_release_pool_block([copied EXCEPT !.log[l].sv = None], e.sv)
    IN [ftl_release_pool_block(freed, freed.map[e.lv]) EXCEPT !.map[e.lv] = a.block]

\* Fills the rest of a block written in sequence and makes it the block.
ftl_commit_sequential(s, l) ==
    LET e == s.log[l]
        fill(t, i) ==
            LET p == e.used + i
            IN ftl_vfl_write([t EXCEPT !.c.next = @ + 1], e.sv * Ppb + p,
                   UserPage(p = Ppb - 1, t.c.next + 1, e.lv * Ppb + p,
                            ftl_read(t, e.lv * Ppb + p)))
        filled == For(fill, s, Ppb - e.used)
    IN IF ~e.seq \/ e.cur # e.used THEN Panic(s)
       ELSE IF \E p \in e.used .. Ppb - 1 : e.off[p] # None
       THEN ftl_commit_scattered(s, l)
       ELSE [ftl_release_pool_block(filled, s.map[e.lv])
                EXCEPT !.map[e.lv] = e.sv, !.log[l].sv = None]

Commit(s, l) == IF s.log[l].seq THEN ftl_commit_sequential(s, l)
                                ELSE ftl_commit_scattered(s, l)

CountSwap(s) == [s EXCEPT !.c.swap = @ + 1]

\* ftl_remove_scattered_block(entry): compact a block with little current
\* data, commit any other.
RemoveEntry(s, l) ==
    IF s.log[l].cur < Ppb \div 2
    THEN ftl_compact_scattered(CountSwap(s), l)
    ELSE Commit(CountSwap(s), l)

\* Mutant: no scattered block is committed to make room.
KeepOldest(s) == s

\* ftl_remove_scattered_block(NULL): commit the oldest, of those with the
\* same age the one with most current pages.
RemoveOldest(s) ==
    LET older(k, l) == \/ s.log[k].usn < s.log[l].usn
                       \/ s.log[k].usn = s.log[l].usn /\ s.log[k].cur > s.log[l].cur
                       \/ /\ s.log[k].usn = s.log[l].usn
                          /\ s.log[k].cur = s.log[l].cur /\ k <= l
        oldest == CHOOSE k \in Active(s) : \A l \in Active(s) : older(k, l)
    IN IF Active(s) = {} \/ \E l \in Active(s) : s.log[l].used = 0 \/ s.log[l].cur = 0
       THEN Panic(s) ELSE Commit(CountSwap(s), oldest)

NewEntry(s, sv, lb) ==
    [FreeEntry EXCEPT !.sv = sv, !.lv = lb, !.usn = s.c.next - 1]

\* Puts block a in the first log entry that is not in use.
TakeEntry(a, lb) ==
    LET none == LogIds \ Active(a.s)
    IN IF none = {} THEN [s |-> Panic(a.s), l |-> 0]
       ELSE [s |-> [a.s EXCEPT !.log[Min(none)] = NewEntry(a.s, a.block, lb)],
             l |-> Min(none)]

\* The log entry for a block, made if need be; at most Logs at a time.
ftl_allocate_log_entry(s, lb) ==
    LET mine == ftl_get_log_entry(s, lb)
        unused == {l \in Active(s) : s.log[l].used = 0}
    IN IF mine # None
       THEN [s |-> [s EXCEPT !.log[mine].usn = s.c.next - 1], l |-> mine]
       ELSE IF unused # {}
       THEN [s |-> [s EXCEPT !.log[Min(unused)] = NewEntry(s, @.sv, lb)],
             l |-> Min(unused)]
       ELSE TakeEntry(ftl_allocate_pool_block(
                         IF s.c.free < 3 THEN Panic(s)
                         ELSE IF s.c.free = 3 THEN RemoveOldest(s) ELSE s), lb)

(***************************************************************************)
(* Writing.                                                                *)
(***************************************************************************)
\* The least and the most worn block change places.  Wear is compared with
\* erase counters that are looked up by slot and by logical block number.
ftl_swap_blocks(s) ==
    LET wear(b) == s.ec[b]
        pick(acc, i) ==
            LET b == s.c.pool[Slot(s, i)]
            IN IF wear(b) > acc.max
               THEN [idx |-> Slot(s, i), max |-> wear(Slot(s, i))] ELSE acc
        most == For(pick, [idx |-> PoolSize, max |-> 0], s.c.free)
        maxvb == s.c.pool[most.idx]
        least(acc, i) ==
            LET b == s.map[i]
            IN [max |-> IF wear(b) > acc.max THEN wear(b) ELSE acc.max,
                lb |-> IF ftl_get_log_entry(s, i) = None
                          /\ (acc.lb = None \/ wear(b) < acc.min)
                       THEN i ELSE acc.lb,
                min |-> IF ftl_get_log_entry(s, i) = None
                           /\ (acc.lb = None \/ wear(b) < acc.min)
                        THEN wear(i) ELSE acc.min]
        found == For(least, [max |-> most.max, lb |-> None, min |-> 0], UserBlocks)
        minvb == s.map[found.lb]
        copied == ftl_copy_block(ftl_erase_block(s, maxvb), found.lb, maxvb)
    IN IF \/ most.idx = PoolSize
          \/ found.max >= found.min /\ found.max - found.min < MinSpread
          \/ minvb = maxvb
       THEN s
       ELSE [copied EXCEPT !.c.pool[most.idx] = minvb, !.map[found.lb] = maxvb]

\* Mutant: the dirty mark is not written.
MarkInRam(s) == [s EXCEPT !.c.clean = FALSE]

MarkDirty(s) ==
    IF ~s.c.clean THEN s
    ELSE LET t == ftl_next_ctrl_pool_page(s)
         IN [ftl_vfl_write(t, t.c.page, MetaPage("dirty", t.c.usn, <<>>))
                EXCEPT !.c.clean = FALSE]

\* A whole block: into the block of a new entry, or another if it is in use
WriteBlock(s, l, lb, v) ==
    LET e == s.log[l]
        out == [s EXCEPT !.log[l].sv = None]
        a == IF e.used = 0 THEN [s |-> out, block |-> e.sv]
             ELSE ftl_allocate_pool_block(ftl_release_pool_block(out, e.sv))
        write(t, p) ==
            ftl_vfl_write(t, a.block * Ppb + p,
                UserPage((p \div Chunk) * Chunk = Ppb - 1, t.c.next, lb * Ppb + p, v))
        written == For(write, [a.s EXCEPT !.c.next = @ + 1], Ppb)
    IN [ftl_release_pool_block(written, s.map[lb]) EXCEPT !.map[lb] = a.block]

ChunkSize(e, page, count) == Min({Chunk, count, Ppb - e.used, Ppb - page})

\* Up to Chunk pages of a block, appended to its scattered block
WriteChunk(s, l, lb, page, cnt, v) ==
    LET e == s.log[l]
        write(t, j) ==
            ftl_vfl_write([t EXCEPT !.c.next = @ + 1], e.sv * Ppb + e.used + j,
                UserPage(e.used + j = Ppb - 1 /\ e.seq, t.c.next + 1,
                         lb * Ppb + page + j, v))
        note(d, j) ==
            LET cur == IF d.off[page + j] = None THEN d.cur + 1 ELSE d.cur
                at == e.used + j
            IN [d EXCEPT !.cur = cur, !.off[page + j] = at,
                         !.seq = @ /\ at + 1 = cur /\ at = page + j]
        noted == For(note, [e EXCEPT !.used = @ + cnt], cnt)
    IN [For(write, s, cnt) EXCEPT !.log[l] = noted]

RemoveIfFull(s, l) ==
    IF s.log[l].used = Ppb THEN RemoveEntry(s, l) ELSE s

\* One round of ftl_write's loop, i sectors of which are done and whose next
\* one is page "page" of lb: a whole block, or a chunk into log entry e.l.
BlockRound(e, lb, i, v) ==
    [s |-> RemoveIfFull(WriteBlock(e.s, e.l, lb, v), e.l), i |-> i + Ppb]
ChunkRound(e, lb, page, i, count, v) ==
    LET cnt == ChunkSize(e.s.log[e.l], page, count - i)
    IN [s |-> RemoveIfFull(WriteChunk(e.s, e.l, lb, page, cnt, v), e.l), i |-> i + cnt]

\* A full scattered block is removed, and another entry allocated.
Emptied(e, lb) ==
    IF e.s.log[e.l].used # Ppb THEN e
    ELSE ftl_allocate_log_entry(RemoveEntry(e.s, e.l), lb)

WriteRound(w, sector, count, v) ==
    LET lb == (sector + w.i) \div Ppb
        page == (sector + w.i) % Ppb
    IN IF w.i >= count \/ w.s.broken THEN w
       ELSE IF page = 0 /\ count - w.i >= Ppb
       THEN BlockRound(ftl_allocate_log_entry(w.s, lb), lb, w.i, v)
       ELSE ChunkRound(Emptied(ftl_allocate_log_entry(w.s, lb), lb),
                       lb, page, w.i, count, v)

SwapAfterWrite(s) ==
    IF s.c.swap < SwapWrite THEN s
    ELSE ftl_swap_blocks([s EXCEPT !.c.swap = @ - SwapStep])

SaveWear(s) ==
    IF ~s.c.erasedirty THEN s
    ELSE LET t == [s EXCEPT !.c.erasedirty = FALSE]
         IN IF t.dirt < DirtMax THEN t
            ELSE ftl_save_erasectr_page(ftl_next_ctrl_pool_page(t))

ftl_write(s, sector, count, v) ==
    SaveWear(SwapAfterWrite(
        For(LAMBDA w, i : WriteRound(w, sector, count, v),
            [s |-> MarkDirty(s), i |-> 0], count).s))

SwapBeforeSync(s) ==
    IF s.c.swap < SwapSync THEN s
    ELSE [ftl_swap_blocks(s) EXCEPT !.c.swap = @ - SwapStep]

CommitUnlessBroken(s) == IF s.broken THEN s ELSE ftl_commit_cxt(s)

ftl_sync(s) ==
    LET commit(t, l) ==
            IF t.log[l].sv = None THEN t
            ELSE Commit([t EXCEPT !.c.next = @ + 1], l)
    IN IF s.c.clean THEN s
       ELSE CommitUnlessBroken(For(commit, SwapBeforeSync(s), Logs))

(***************************************************************************)
(* Mounting.                                                               *)
(***************************************************************************)
\* The control blocks whose first page can be read and is meta data
Candidates(s) == {i \in 0 .. 2 : s.fl[s.vcb[i]][0].type \in MetaTypes}

\* The first of those with the lowest usn
NewestCtrlBlock(s) ==
    s.vcb[CHOOSE i \in Candidates(s) : \A j \in Candidates(s) :
            LET usn(k) == s.fl[s.vcb[k]][0].usn
            IN usn(i) < usn(j) \/ (usn(i) = usn(j) /\ i <= j)]

\* The last readable page of the block, not counting the first one
LastPage(s, b) == Max({0} \cup {p \in Pages : Readable(s.fl[b][p])})

Mountable(s) ==
    /\ Candidates(s) # {}
    /\ LET b == NewestCtrlBlock(s)
           pg == s.fl[b][LastPage(s, b)]
       IN /\ LastPage(s, b) # 0 /\ pg.type = "cxt"
          /\ Readable(At(s, pg.meta[1].mapPage))
          /\ Readable(At(s, pg.meta[1].ctrPage))

ftl_open(s) ==
    LET b == NewestCtrlBlock(s)
        c == s.fl[b][LastPage(s, b)].meta[1]
    IN [s EXCEPT !.c = c, !.map = At(s, c.mapPage).meta, !.ec = At(s, c.ctrPage).meta,
                 !.log = [l \in LogIds |-> FreeEntry], !.dirt = 0]

(***************************************************************************)
(* ftl_repair: nb.type is the kind of every block, 0 "empty", 1 "used",    *)
(* 2 "scattered", 3 "meta", 4 "bad", 5 "stale".                            *)
(***************************************************************************)
\* The pages of a block up to the first erased one
Filled(blk) == {p \in Pages : \A q \in 0 .. p : blk[q].type # "empty"}

\* What is found by reading a block from its start; a scattered block is
\* read no further than its first page of user data.
Kind(blk) ==
    LET filled == Filled(blk)
    IN CASE \E p \in filled : blk[p].type = "user" -> "scattered"
         [] filled = {} -> "empty"
         [] OTHER -> IF blk[Max(filled)].type = "bad" THEN "bad" ELSE "meta"

CtrPages(blk) ==
    {p \in Filled(blk) : blk[p].type = "ctr" /\ \A q \in 0 .. p : blk[q].type # "user"}

\* Of the blocks whose last page is marked, the newest for its logical
\* block is the one in use; of the erase counters, the newest are kept.
ScanBlock(nb, i) ==
    LET blk == nb.s.fl[i]
        last == blk[Ppb - 1]
        lb == last.lpn \div Ppb
        newer == last.usn > nb.usn[lb]
        old == nb.s.map[lb]
        ctr(acc, p) ==
            IF p \notin CtrPages(blk) \/ blk[p].usn >= acc.meta THEN acc
            ELSE [acc EXCEPT !.meta = blk[p].usn, !.s.ec = blk[p].meta]
    IN CASE last.type = "last" /\ newer ->
              [nb EXCEPT !.user = Max({@, last.usn}), !.usn[lb] = last.usn,
                         !.s.map[lb] = i,
                         !.type = [b \in Blocks |-> IF b = i THEN "used"
                                      ELSE IF b = old THEN "stale" ELSE @[b]]]
         [] last.type = "last" /\ ~newer ->
              [nb EXCEPT !.user = Max({@, last.usn}), !.type[i] = "stale"]
         [] OTHER -> [For(ctr, nb, Ppb) EXCEPT !.type[i] = Kind(blk)]

\* A block that was never counted gets the average of those that were.
FillWear(nb) ==
    LET known == {b \in Blocks : nb.s.ec[b] # 0}
        average == IF known = {} THEN 0
                   ELSE MapThenSumSet(LAMBDA b : nb.s.ec[b], known) \div Cardinality(known)
    IN [nb EXCEPT !.s.ec = [b \in Blocks |-> IF @[b] = 0 THEN average ELSE @[b]]]

\* Puts the pages of scattered block i over those of the block in use for
\* the same logical block, and the result in place of block i if any page
\* was newer.  A page keeps its usn, so the block is as old as its last page.
MergeBlock(nb, i) ==
    LET blk == nb.s.fl[i]
        here == {p \in Pages : Readable(blk[p])}
        lb == blk[Min(here)].lpn \div Ppb
        orig == nb.s.map[lb]
        under(p) == IF orig # None /\ Readable(nb.s.fl[orig][p])
                    THEN nb.s.fl[orig][p] ELSE Empty
        bad == \/ \E p \in here : blk[p].type # "user" \/ blk[p].lpn \div Ppb # lb
               \/ \E p \in Pages : LET pg == under(p) IN
                    /\ Readable(pg)
                    /\ pg.type \notin {"user", "last"} \/ pg.lpn \div Ppb # lb
        over(acc, p) ==
            LET k == blk[p].lpn % Ppb
            IN IF p \in here /\ blk[p].usn > acc[k].usn
               THEN [acc EXCEPT ![k] = blk[p]] ELSE acc
        merged == For(over, [p \in Pages |-> under(p)], Ppb)
        dirty == \E p \in here : blk[p].usn > under(blk[p].lpn % Ppb).usn
        write(t, p) == ftl_vfl_write(t, i * Ppb + p,
                           UserPage(p = Ppb - 1, merged[p].usn, lb * Ppb + p,
                                    merged[p].data))
        user == Max({nb.user} \cup {blk[p].usn : p \in here})
    IN IF nb.type[i] # "scattered" \/ nb.s.broken THEN nb
       ELSE IF bad THEN [nb EXCEPT !.s = Panic(@)]
       ELSE IF ~dirty THEN [nb EXCEPT !.user = user, !.type[i] = "stale"]
       ELSE [nb EXCEPT
                !.user = user,
                !.s = [For(write, ftl_erase_block(@, i), Ppb) EXCEPT !.map[lb] = i],
                !.type = [b \in Blocks |-> IF b = i THEN "used"
                              ELSE IF b = orig THEN "stale" ELSE @[b]]]

\* Every block that is not in use, in the order ftl_alloc_block finds them:
\* the empty ones, then the others, which it erases.
ftl_alloc_block(nb) ==
    Ascending({b \in Blocks : nb.type[b] = "empty"})
    \o Ascending({b \in Blocks : nb.type[b] \notin {"empty", "used"}})

\* Control blocks, the pool and the logical blocks without contents take
\* all the blocks that are not in use.
Allot(nb) ==
    LET spare == ftl_alloc_block(nb)
        fill(t, i) == IF nb.type[spare[i + 1]] = "empty" THEN t
                      ELSE ftl_erase_block(t, spare[i + 1])
        bare(lb) == nb.s.map[lb] = None
        rank(lb) == Cardinality({k \in 0 .. lb - 1 : bare(k)})
    IN [For(fill, nb.s, Len(spare)) EXCEPT
           !.map = [lb \in Lbns |-> IF bare(lb)
                       THEN spare[3 + PoolSize + rank(lb) + 1] ELSE @[lb]],
           !.c = [usn |-> nb.meta - 1, next |-> nb.user + 1, free |-> PoolSize,
                  idx |-> 0, swap |-> 0, clean |-> TRUE, erasedirty |-> @.erasedirty,
                  pool |-> [i \in 0 .. PoolSize - 1 |-> spare[i + 4]],
                  ctrl |-> [i \in 0 .. 2 |-> spare[i + 1]],
                  page |-> spare[1] * Ppb + 2,
                  ctrPage |-> spare[1] * Ppb, mapPage |-> spare[1] * Ppb + 1]]

\* Mutant: the new list of control blocks is not stored.
RepairedUnlisted(s) ==
    LET ctr == ftl_vfl_write(s, s.c.ctrPage, MetaPage("ctr", s.c.usn, s.ec))
        map == ftl_vfl_write(ctr, s.c.mapPage, MetaPage("map", s.c.usn, s.map))
    IN WriteContext(map)

\* Writes the erase counters, the block map and the context.
RepairedContext(s) ==
    LET ctr == ftl_vfl_write(s, s.c.ctrPage, MetaPage("ctr", s.c.usn, s.ec))
        map == ftl_vfl_write(ctr, s.c.mapPage, MetaPage("map", s.c.usn, s.map))
    IN ftl_store_ctrl_block_list(WriteContext(map))

FinishRepair(nb) == IF nb.s.broken THEN nb.s ELSE RepairedContext(Allot(nb))

\* nb is what the scan has found, s the flash and the state that is rebuilt.
ftl_repair(s) ==
    LET blank == [s EXCEPT !.map = [lb \in Lbns |-> None], !.ec = [b \in Blocks |-> 0],
                           !.c.erasedirty = FALSE]
        scanned == For(ScanBlock,
                       [s |-> blank, type |-> [b \in Blocks |-> "empty"],
                        usn |-> [lb \in Lbns |-> 0], user |-> 0, meta |-> TopUsn],
                       Cardinality(Blocks))
    IN FinishRepair(For(MergeBlock, FillWear(scanned), Cardinality(Blocks)))

OpenRepaired(s) == IF s.broken \/ ~Mountable(s) THEN Panic(s) ELSE ftl_open(s)

\* The state after the mount, or one with broken set when it cannot mount
ftl_init(s) == IF Mountable(s) THEN ftl_open(s) ELSE OpenRepaired(ftl_repair(s))

(***************************************************************************)
(* Losing power.                                                           *)
(***************************************************************************)
\* The FTL without power: what is not on the flash has no value.
Unpowered(s) ==
    [s EXCEPT !.trace = <<>>, !.broken = FALSE, !.map = [lb \in Lbns |-> None],
              !.ec = [b \in Blocks |-> 0], !.dirt = 0,
              !.log = [l \in LogIds |-> FreeEntry],
              !.c = [erasedirty |-> FALSE, clean |-> FALSE]]

\* The effect of a flash operation, and those it may have when interrupted
Apply(s, op) ==
    CASE op.op = "erase"   -> [s EXCEPT !.fl[op.at] = [p \in Pages |-> Empty]]
      [] op.op = "program" -> [s EXCEPT !.fl[op.at \div Ppb][op.at % Ppb] = op.page,
                                        !.newest = NewestAfter(s, op.at, op.page)]
      [] op.op = "list"    -> [s EXCEPT !.vcb = op.ctrl]
Torn(s, op) ==
    CASE op.op = "erase"   -> [s EXCEPT !.fl[op.at] = [p \in Pages |-> Bad]]
      [] op.op = "program" -> [s EXCEPT !.fl[op.at \div Ppb][op.at % Ppb] = Bad]
      [] op.op = "list"    -> s

\* What may be left of s when power goes during the operations of trace
CutStates(s, trace) ==
    LET done[k \in 0 .. Len(trace)] ==
            IF k = 0 THEN Unpowered(s) ELSE Apply(done[k - 1], trace[k])
    IN {done[k] : k \in 0 .. Len(trace)}
       \cup {Torn(done[k], trace[k + 1]) :
                k \in {i \in 0 .. Len(trace) - 1 : work.tearing}}

-----------------------------------------------------------------------------
(***************************************************************************)
(* The state machine.                                                      *)
(***************************************************************************)
Done(s) == [s EXCEPT !.trace = <<>>]
Reads(s) == [x \in Sectors |-> ftl_read(s, x)]
NoFlight == [x \in Sectors |-> {}]

\* A flash whose logical blocks in Written were once written whole
FactoryFlash ==
    LET page(b, p) == IF b \in Written
                      THEN UserPage(p = Ppb - 1, b + 1, b * Ppb + p, 1) ELSE Empty
    IN [fl |-> [b \in Blocks |-> [p \in Pages |-> page(b, p)]],
        vcb |-> [i \in 0 .. 2 |-> UserBlocks + i],
        trace |-> <<>>, newest |-> None, unmarked |-> FALSE, twice |-> FALSE, broken |-> FALSE,
        map |-> [lb \in Lbns |-> None], ec |-> [b \in Blocks |-> 0], dirt |-> 0,
        log |-> [l \in LogIds |-> FreeEntry],
        c |-> [erasedirty |-> FALSE, clean |-> FALSE]]

\* The FTL is mounted on such a flash for the first time.
Init ==
    /\ f = Done(ftl_init(FactoryFlash))
    /\ mode = "up"
    /\ stored = Reads(f)
    /\ flight = NoFlight
    /\ work \in Workloads
    /\ writes = 0 /\ cuts = 0
    /\ wasClean = FALSE /\ repaired = FALSE /\ misled = FALSE

Finish(r) == /\ f' = Done(r)
             /\ mode' = IF r.broken THEN "panicked" ELSE "up"

\* The call that takes the FTL to r is cut short.
LosePower(r) ==
    /\ cuts < work.maxCuts
    /\ cuts' = cuts + 1
    /\ f' \in CutStates(f, r.trace)
    /\ mode' = "off"
    /\ wasClean' = FALSE

Value == writes + 2

Write(w) ==
    /\ mode = "up" /\ writes < work.maxWrites
    /\ Finish(ftl_write(f, w[1], w[2], Value))
    /\ writes' = writes + 1
    /\ stored' = [x \in Sectors |-> IF x \in w[1] .. w[1] + w[2] - 1
                                    THEN Value ELSE stored[x]]
    /\ UNCHANGED <<work, flight, cuts, wasClean, repaired, misled>>

WriteCut(w) ==
    /\ mode = "up" /\ writes < work.maxWrites
    /\ LosePower(ftl_write(f, w[1], w[2], Value))
    /\ writes' = writes + 1
    /\ flight' = [x \in Sectors |-> IF x \in w[1] .. w[1] + w[2] - 1
                                    THEN {Value} ELSE {}]
    /\ UNCHANGED <<work, stored, repaired, misled>>

Sync ==
    /\ mode = "up" /\ ~f.c.clean
    /\ Finish(ftl_sync(f))
    /\ UNCHANGED <<work, stored, flight, writes, cuts, wasClean, repaired, misled>>

SyncCut ==
    /\ mode = "up" /\ ~f.c.clean
    /\ LosePower(ftl_sync(f))
    /\ UNCHANGED <<work, stored, flight, writes, repaired, misled>>

\* Power goes, or the device is rebooted, between two calls.
PowerOff ==
    /\ mode = "up" /\ cuts < work.maxCuts
    /\ cuts' = cuts + 1
    /\ f' = Unpowered(f)
    /\ mode' = "off"
    /\ wasClean' = f.c.clean
    /\ UNCHANGED <<work, stored, flight, writes, repaired, misled>>

\* What the code can leave on the flash that misleads a mount: a block with
\* pages out of place that is marked as a whole one, a rebuilt block whose
\* last page was never written, an older control block with the same usn,
\* or no dirty mark, as its page had become unreadable in an earlier cut.
Misplaced(s) == \E b \in Blocks :
    /\ s.fl[b][Ppb - 1].type = "last"
    /\ \E p \in Pages : Readable(s.fl[b][p]) /\ s.fl[b][p].lpn % Ppb # p
Undated(s) == \E b \in Blocks :
    s.fl[b][Ppb - 1].type = "last" /\ s.fl[b][Ppb - 1].usn = 0
Outdated(s) == Mountable(s) /\ NewestCtrlBlock(s) # s.newest

Mounted(r) ==
    /\ f' = Done(r)
    /\ mode' = IF r.broken THEN "unmountable" ELSE "up"
    /\ stored' = IF r.broken THEN stored ELSE Reads(r)

Mount ==
    /\ mode = "off"
    /\ Mounted(ftl_init(f))
    /\ flight' = NoFlight
    /\ repaired' = ~Mountable(f)
    /\ misled' = (misled \/ f.unmarked \/ Misplaced(f) \/ Undated(f) \/ Outdated(f))
    /\ UNCHANGED <<work, writes, cuts, wasClean>>

\* A repair rewrites in place: what it erased may be the only copy.
MountCut ==
    /\ work.repairCuts /\ mode = "off" /\ ~Mountable(f)
    /\ LosePower(ftl_init(f))
    /\ repaired' = TRUE /\ misled' = TRUE
    /\ UNCHANGED <<work, stored, flight, writes>>

Next == \/ \E w \in work.writes : Write(w) \/ WriteCut(w)
        \/ Sync \/ SyncCut
        \/ PowerOff \/ Mount \/ MountCut

Spec == Init /\ [][Next]_vars

(***************************************************************************)
(* Properties.                                                             *)
(***************************************************************************)

\* Whatever compactions, commits, evictions and swaps were done, a sector
\* reads as what the last write put there (ftl_write, ftl_read).
ReadsLast == mode = "up" => Reads(f) = stored

\* Every block is exactly one of: the block of a logical block, a scattered
\* block, a control block or a free block of the pool.  None is leaked and
\* none has two uses (ftl_allocate_pool_block, ftl_release_pool_block).
UsesOf(s, b) ==
    Cardinality({lb \in Lbns : s.map[lb] = b})
    + Cardinality({l \in LogIds : s.log[l].sv = b})
    + Cardinality({i \in 0 .. 2 : s.c.ctrl[i] = b})
    + Cardinality({i \in 0 .. s.c.free - 1 : s.c.pool[Slot(s, i)] = b})
BlocksPartition == mode = "up" => \A b \in Blocks : UsesOf(f, b) = 1

\* No page is programmed twice without an erase in between (the page number
\* bookkeeping of ftl_cxt.ftlctrlpage and of ftl_log.pagesused).
ProgramOnce == ~misled => ~f.twice

\* None of the panics ("Out of pool blocks!", "Detected a pool block leak!")
\* and no error return is reached while the NAND does not fail.
NoPanic == mode # "panicked"

\* After any loss of power the FTL can be mounted or repaired (ftl_init).
AlwaysMounts == mode # "unmountable"

\* While nothing was written since the last sync, the context page the
\* next mount needs is on the flash and says what the RAM does.
CleanContext ==
    mode = "up" /\ f.c.clean /\ ~misled =>
        LET pg == At(f, f.c.page)
        IN /\ pg.type = "cxt" /\ pg.meta[1] = f.c
           /\ \E i \in 0 .. 2 : f.vcb[i] = f.c.page \div Ppb
           /\ At(f, f.c.mapPage).type = "map" /\ At(f, f.c.mapPage).meta = f.map
           /\ At(f, f.c.ctrPage).type = "ctr"
           /\ Active(f) = {}

\* A mount gives every sector what the last acknowledged write put there,
\* or what the write that was cut short was putting there.
MountKeeps == mode = "off" /\ mode' = "up" =>
    \A x \in Sectors : stored'[x] \in {stored[x]} \cup flight[x]

\* It does so unless something on the flash misled it (ftl_open, ftl_repair).
KeepsData == [][~misled' => MountKeeps]_mode

\* A repair never gives a sector an older copy than the most recent one:
\* nextblockusn is there "so that a consistency check can determine which
\* copy of a user page is the most recent one".  The code breaks it.
RepairsNewest == [][repaired' => MountKeeps]_mode

\* "This will trip if there was an unclean unmount before" (ftl_open), and
\* only then: after a sync the next mount does not need a repair.  The code
\* breaks it, as ftl_cxt.usn stays the same from one control block to the next.
SyncedMountsClean ==
    [][mode = "off" /\ mode' = "up" /\ wasClean => ~repaired']_mode
=============================================================================
