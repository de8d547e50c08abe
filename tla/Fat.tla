--------------------------------- MODULE Fat ---------------------------------
(***************************************************************************)
(* The FAT32 driver (emcore/fat.c): the file allocation table with its     *)
(* write-back cache of a few FAT sectors, cluster chains, files as chains  *)
(* with a position, directory entries.                                     *)
(*                                                                         *)
(* An operator bears the name of the function it models and takes the      *)
(* volume v to what the call makes of it.  FAT sectors are written when    *)
(* the cache drops them and by flush_fat, everything else at once; v.log   *)
(* has the contents of the disk after every sector that a call has         *)
(* written, which is what a loss of power may leave.                       *)
(*                                                                         *)
(* A sector holds Half entries or units, each a tuple: <<0>> and <<-1>>    *)
(* for a slot that was never used and one that was deleted, <<stamp>> for  *)
(* file data, <<name, directory?, first cluster, size>> for an entry.  A   *)
(* name takes one slot, its long name included.  The second copy of the    *)
(* FAT, times, attributes other than "directory" and errors of the disk    *)
(* are left out.                                                           *)
(***************************************************************************)
EXTENDS Integers, Sequences, FiniteSets, SequencesExt

CONSTANTS NumClusters,   \* bpb.dataclusters
          SecPerClus,    \* bpb_secperclus
          FatEntries,    \* CLUSTERS_PER_FAT_SECTOR
          FatCache,      \* FAT_CACHE_SIZE
          Dot, DotDot    \* the names "." and ".."

ASSUME FatAssumption ==
    /\ {NumClusters, SecPerClus, FatEntries, FatCache} \subseteq Nat \ {0}
    /\ Dot # DotDot

Half == 2                       \* DIR_ENTRIES_PER_SECTOR, and units in a sector
Root == 2                       \* bpb_rootclus
Clusters == 2 .. NumClusters + 1
Entries == 0 .. NumClusters + 1
Eof == NumClusters + 2          \* FAT_EOF_MARK, and all above
FatSector(e) == e \div FatEntries
FatSectors == {FatSector(e) : e \in Entries}
FirstData == 2 * SecPerClus + 1
LastData == FirstData + NumClusters * SecPerClus - 1
DataSectors == FirstData .. LastData
DirLimit == NumClusters * SecPerClus   \* a chain is not longer

Zero == <<0>>
Deleted == <<-1>>
ZeroSector == <<Zero, Zero>>
Junk == << <<-2>>, <<-2>> >>    \* what is read from before the data area

Entry(name, dir, first, size) == <<name, dir, first, size>>
IsFree(slot) == slot \in {Zero, Deleted}
IsEntry(slot) == Len(slot) = 4

-----------------------------------------------------------------------------
(* The disk and the FAT cache.                                             *)

\* The value x under a name of its own, evaluated once.
With(x, Body(_)) == Body(x)

Store(v, disk) == [v EXCEPT !.disk = disk, !.log = Append(@, disk)]

\* panicf(PANIC_KILLUSERTHREADS, ...): nothing is followed any further.
panicf(v) == [v EXCEPT !.panic = TRUE]

flush_fat_sector(v, s) ==
    Store([v EXCEPT !.dirty = @ \ {s}],
          [v.disk EXCEPT !.fat = [e \in Entries |-> IF FatSector(e) = s THEN v.fat[e] ELSE @[e]]])

\* The sector that was in the same place of the cache is written back.
cache_fat_sector(v, s, dirty) ==
    LET other == {t \in v.dirty : t # s /\ t % FatCache = s % FatCache}
        w == IF other = {} THEN v ELSE flush_fat_sector(v, CHOOSE t \in other : TRUE)
    IN  IF dirty THEN [w EXCEPT !.dirty = @ \cup {s}] ELSE w

\* flush_fat and update_fsinfo.
flush_fat(v) ==
    LET w == FoldLeft(LAMBDA x, s : IF s \in x.dirty THEN flush_fat_sector(x, s) ELSE x,
                      v, [i \in 1 .. Cardinality(FatSectors) |-> i - 1])
    IN  Store(w, [w.disk EXCEPT !.free = v.free, !.next = v.next])

cluster2sec(c) == IF c > NumClusters + 1 THEN -1 ELSE (c - 2) * SecPerClus + FirstData

\* 0 is the end of the chain.
get_next_cluster(v, c) ==
    With(cache_fat_sector(v, FatSector(c), FALSE), LAMBDA w :
         [v |-> w, c |-> IF w.fat[c] >= Eof THEN 0 ELSE w.fat[c]])

update_fat_entry(v, e, val) ==
    IF e = val \/ e < 2 THEN panicf(v)
    ELSE With(cache_fat_sector(v, FatSector(e), TRUE), LAMBDA w :
              [w EXCEPT !.fat[e] = val,
                        !.free = CASE val # 0 /\ w.fat[e] = 0 /\ @ > 0 -> @ - 1
                                   [] val = 0 /\ w.fat[e] # 0 -> @ + 1
                                   [] OTHER -> @])

\* The FAT sectors are searched in a ring from that of start, the first one from
\* start's place in it, the others from their beginning.  c is 0 on a full disk.
FreeIn(v, s) == {c \in Clusters : FatSector(c) = s /\ v.fat[c] = 0}

find_free_cluster(v, start) ==
    LET size == Cardinality(FatSectors)
        nr(i) == (FatSector(start) + i) % size
        found == {i \in 0 .. size - 1 : FreeIn(v, nr(i)) # {}}
        Searched(last) == FoldLeft(LAMBDA w, i : cache_fat_sector(w, nr(i - 1), FALSE), v,
                                   [i \in 1 .. last + 1 |-> i])
        Nearest(i) == LET from == IF i = 0 THEN start % FatEntries ELSE 0 IN
                      CHOOSE x \in FreeIn(v, nr(i)) : \A y \in FreeIn(v, nr(i)) :
                          (x - from) % FatEntries <= (y - from) % FatEntries
    IN  IF found = {} THEN [v |-> Searched(size - 1), c |-> 0]
        ELSE With(CHOOSE i \in found : \A j \in found : i <= j, LAMBDA i :
                  [v |-> [Searched(i) EXCEPT !.next = Nearest(i)], c |-> Nearest(i)])

-----------------------------------------------------------------------------
(* A file: its chain and the position of the sector accessed last.         *)

\* entry and dir say where its directory entry is; dir is 0 for none.
File(first, entry, dir) ==
    [first |-> first, last |-> first, lastsec |-> 0, cnum |-> 0, snum |-> 0, eof |-> FALSE,
     entry |-> entry, dir |-> dir]

fat_open(first, entry, dir) == File(first, entry, dir)

\* A new chain starts with f.first, which is set here.
next_write_cluster(v, f, old) ==
    With(IF old = 0 THEN [v |-> v, c |-> 0] ELSE get_next_cluster(v, old), LAMBDA n :
         IF n.c # 0 THEN [v |-> n.v, f |-> f, c |-> n.c]
         ELSE With(find_free_cluster(n.v, IF old > 0 THEN old + 1 ELSE n.v.next), LAMBDA a :
                   IF a.c = 0 THEN [v |-> a.v, f |-> f, c |-> 0]
                   ELSE [v |-> update_fat_entry(IF old > 0 THEN update_fat_entry(a.v, old, a.c)
                                                ELSE a.v, a.c, Eof),
                         f |-> IF old = 0 THEN [f EXCEPT !.first = a.c] ELSE f,
                         c |-> a.c]))

\* Sectors from first to last, written from, or read to, buf from position at + 1 on.
transfer(v, buf, first, last, at, write) ==
    LET count == last - first + 1
        n == [i \in 1 .. count |-> i]
    IN  IF ~write
        THEN [v |-> v, buf |-> [k \in DOMAIN buf |->
                IF k - at \notin 1 .. count THEN buf[k]
                ELSE IF first + k - at - 1 \in DataSectors THEN v.disk.data[first + k - at - 1]
                ELSE Junk]]
        ELSE IF first < FirstData \/ last > LastData THEN [v |-> panicf(v), buf |-> buf]
        ELSE [v |-> FoldLeft(LAMBDA x, i : Store(x, [x.disk EXCEPT !.data[first + i - 1] = buf[at + i]]),
                             v, n),
              buf |-> buf]

\* The loop of fat_readwrite: up to the next sector, ...
NextCluster(r, write) ==
    With(IF write THEN next_write_cluster(r.v, r.f, r.f.last)
         ELSE get_next_cluster(r.v, r.f.last) @@ [f |-> r.f], LAMBDA n :
         IF n.c = 0 /\ write
         THEN [r EXCEPT !.v = n.v, !.f.snum = @ + 1, !.f.eof = TRUE, !.full = TRUE]
         ELSE [r EXCEPT !.v = n.v,
                        !.f = [n.f EXCEPT !.last = n.c, !.lastsec = cluster2sec(n.c),
                                          !.cnum = @ + 1, !.snum = 1, !.eof = n.c = 0]])

Advance(r, write) ==
    IF r.f.snum + 1 > SecPerClus \/ r.f.last = 0 THEN NextCluster(r, write)
    ELSE IF r.f.lastsec # 0 THEN [r EXCEPT !.f.lastsec = @ + 1, !.f.snum = @ + 1]
    ELSE [r EXCEPT !.f.lastsec = cluster2sec(r.f.first), !.f.snum = 1]

\* ... then the transfer of the run of sectors that it does not continue, and, unless the
\* end of the file was met, of the last run.
Move(r, last, write) ==
    With(transfer(r.v, r.buf, r.first, last, r.done, write), LAMBDA t :
         [r EXCEPT !.v = t.v, !.buf = t.buf, !.done = @ + last - r.first + 1])

Begin(r) == IF r.first = 0 THEN [r EXCEPT !.first = r.f.lastsec] ELSE r

Break(r, write) ==
    IF r.f.lastsec \in {r.first, r.prev + 1} THEN r
    ELSE [Move(r, r.prev, write) EXCEPT !.first = r.f.lastsec]

Complete(r, write) == IF r.f.eof THEN r ELSE Move(r, r.f.lastsec, write)

Turn(r, last, write) ==
    IF r.full THEN r
    ELSE With(Advance(r, write), LAMBDA a :
              IF a.full THEN a
              ELSE With(Break(Begin(a), write), LAMBDA b :
                        [(IF last THEN Complete(b, write) ELSE b) EXCEPT !.prev = a.f.lastsec]))

\* rc is the number of sectors, or negative when the disk is full.
fat_readwrite(v, f, buf, write) ==
    IF f.eof /\ ~write THEN [v |-> v, f |-> f, buf |-> buf, rc |-> 0]
    ELSE With(FoldLeft(LAMBDA r, i : Turn(r, i = Len(buf), write),
                       [v |-> v, f |-> f, buf |-> buf, first |-> 0, prev |-> 0, done |-> 0,
                        full |-> FALSE],
                       [i \in DOMAIN buf |-> i]),
              LAMBDA r : [v |-> r.v, f |-> r.f, buf |-> r.buf,
                          rc |-> IF r.full THEN -2 ELSE Len(buf) - IF r.f.eof THEN 1 ELSE 0])

\* The position is that of the sector before, in the cluster of that sector.
fat_seek(v, f, n) ==
    LET cnum == IF n = 0 THEN 0 ELSE (n - 1) \div SecPerClus
        snum == IF n = 0 THEN -1 ELSE (n - 1) % SecPerClus
        near == n # 0 /\ f.cnum # 0 /\ cnum >= f.cnum
        walk == FoldLeft(LAMBDA w, i : IF ~w.ok THEN w
                                       ELSE With(get_next_cluster(w.v, w.c), LAMBDA g :
                                                 g @@ [ok |-> g.c # 0]),
                         [v |-> v, c |-> IF near THEN f.last ELSE f.first, ok |-> TRUE],
                         [i \in 1 .. IF near THEN cnum - f.cnum ELSE cnum |-> i])
    IN  With(walk, LAMBDA w :
             [v |-> w.v, ok |-> w.ok,
              f |-> IF ~w.ok THEN [f EXCEPT !.eof = FALSE]
                    ELSE [f EXCEPT !.last = w.c, !.cnum = cnum, !.snum = snum + 1, !.eof = FALSE,
                                   !.lastsec = IF n = 0 THEN 0 ELSE cluster2sec(w.c) + snum]])

\* Everything behind the position is freed.
FreeChain(v, c) ==
    FoldLeft(LAMBDA w, i : IF w.c = 0 THEN w
                           ELSE With(get_next_cluster(w.v, w.c), LAMBDA n :
                                     [v |-> update_fat_entry(n.v, w.c, 0), c |-> n.c]),
             [v |-> v, c |-> c], [i \in 1 .. NumClusters |-> i]).v

fat_truncate(v, f) ==
    With(get_next_cluster(v, f.last), LAMBDA n :
         With(FreeChain(n.v, n.c), LAMBDA w :
              IF f.last = 0 THEN w ELSE update_fat_entry(w, f.last, Eof)))

-----------------------------------------------------------------------------
(* Directories.                                                            *)

ReadSector(v, f) == fat_readwrite(v, f, <<ZeroSector>>, FALSE)
WriteSector(v, f, sector) == fat_readwrite(v, f, <<sector>>, TRUE)

SeekRead(v, f, n) == With(fat_seek(v, f, n), LAMBDA s : ReadSector(s.v, s.f))
SeekWrite(v, f, n, sector) == With(fat_seek(v, f, n), LAMBDA s : WriteSector(s.v, s.f, sector))

\* The slots up to the first sector with one that was never used or that has the
\* name, or to the end of the chain: what fat_getnext, and the search of
\* add_dir_entry (for no name), look at.
NoName == 0
Names(slot, name) == IsEntry(slot) /\ slot[1] = name

ScanSector(r, x, name) ==
    IF x.rc = 0 THEN [r EXCEPT !.v = x.v, !.f = x.f, !.end = TRUE]
    ELSE [v |-> x.v, f |-> x.f, slots |-> r.slots \o x.buf[1],
          end |-> \E k \in 1 .. Half : x.buf[1][k] = Zero \/ Names(x.buf[1][k], name)]

ScanDir(v, f, name) ==
    FoldLeft(LAMBDA r, i : IF r.end THEN r ELSE ScanSector(r, ReadSector(r.v, r.f), name),
             [v |-> v, f |-> f, slots |-> << >>, end |-> FALSE],
             [i \in 1 .. DirLimit + 1 |-> i])

\* Changes the slot with the given number (from 0) of the directory at cluster dir.
PutSlot(v, dir, number, slot) ==
    With(SeekRead(v, fat_open(dir, 0, 0), number \div Half), LAMBDA x :
         SeekWrite(x.v, x.f, number \div Half,
                   [x.buf[1] EXCEPT ![(number % Half) + 1] = slot]).v)

write_long_name(v, dir, number, name, isdir) ==
    PutSlot(v, dir, number, Entry(name, isdir, 0, 0))

\* A directory that is full is extended by a whole cluster of unused slots.
Extend(v, f, sectors) ==
    With(fat_seek(v, f, sectors), LAMBDA s :
         FoldLeft(LAMBDA r, i : IF r.rc < 1 \/ (r.added > 0 /\ r.f.snum >= SecPerClus) THEN r
                                ELSE WriteSector(r.v, r.f, ZeroSector) @@ [added |-> r.added + 1],
                  [v |-> s.v, f |-> s.f, rc |-> 1, added |-> 0],
                  [i \in 1 .. SecPerClus |-> i]))

\* number is the slot of the new entry, or -1 when the disk is full.
add_dir_entry(v, dir, name, isdir) ==
    LET FreeSlots(s) == {k \in DOMAIN s : IsFree(s[k])}
        Place(s) == \* volume and number, before the name is written
            IF FreeSlots(s.slots) # {}
            THEN [v |-> s.v, rc |-> 1,
                  number |-> (CHOOSE k \in FreeSlots(s.slots) :
                                  \A j \in FreeSlots(s.slots) : k <= j) - 1]
            ELSE Extend(s.v, s.f, Len(s.slots) \div Half) @@ [number |-> Len(s.slots)]
    IN  With(Place(ScanDir(v, fat_open(dir, 0, 0), NoName)), LAMBDA p :
             IF p.rc < 1 THEN [v |-> p.v, number |-> -1]
             ELSE [v |-> write_long_name(p.v, dir, p.number, name, isdir), number |-> p.number])

\* The slot's name stays.
update_short_entry(v, f, size, isdir) ==
    With(SeekRead(v, fat_open(f.dir, 0, 0), f.entry \div Half), LAMBDA x :
         LET slot == x.buf[1][(f.entry % Half) + 1] IN
         IF IsFree(slot) \/ ~IsEntry(slot) THEN panicf(x.v)
         ELSE PutSlot(x.v, f.dir, f.entry, Entry(slot[1], isdir, f.first, size)))

free_direntries(v, f) == PutSlot(v, f.dir, f.entry, Deleted)

\* The entry, when there is one, then the FAT.
put_away(v, f, size) ==
    [v |-> flush_fat(IF f.dir # 0 THEN update_short_entry(v, f, size, FALSE) ELSE v), f |-> f]

\* Variant: an empty file does not give its first cluster back.
fat_closewrite_leaky(v, f, size) ==
    put_away(v, IF size = 0 THEN [f EXCEPT !.first = 0] ELSE f, size)

\* An empty file has no cluster.
fat_closewrite(v, f, size) ==
    IF size = 0 /\ f.first # 0
    THEN put_away(update_fat_entry(v, f.first, 0), [f EXCEPT !.first = 0], size)
    ELSE put_away(v, f, size)

\* Clusters first, then the entry.
fat_remove(v, f) ==
    With(FreeChain(v, f.first), LAMBDA w : flush_fat(IF f.dir # 0 THEN free_direntries(w, f) ELSE w))

\* Variant: the file remembers the slot behind its own.
fat_create_file_off(v, dir, name) ==
    With(add_dir_entry(v, dir, name, FALSE), LAMBDA a :
         [v |-> a.v, ok |-> a.number >= 0, f |-> File(0, a.number + 1, dir)])

fat_create_file(v, dir, name) ==
    With(add_dir_entry(v, dir, name, FALSE), LAMBDA a :
         [v |-> a.v, ok |-> a.number >= 0, f |-> File(0, a.number, dir)])

\* When no cluster is free the entry in the parent directory stays.
fat_create_dir(v, dir, name) ==
    LET First(c) == << Entry(Dot, TRUE, c, 0), Entry(DotDot, TRUE, IF dir = Root THEN 0 ELSE dir, 0) >>
        Cleared(w, c) ==
            FoldLeft(LAMBDA x, i : transfer(x, <<IF i = 1 THEN First(c) ELSE ZeroSector>>,
                                            cluster2sec(c) + i - 1, cluster2sec(c) + i - 1, 0, TRUE).v,
                     w, [i \in 1 .. SecPerClus |-> i])
    IN  With(add_dir_entry(v, dir, name, TRUE), LAMBDA a :
             IF a.number < 0 THEN [v |-> a.v, ok |-> FALSE]
             ELSE With(find_free_cluster(a.v, a.v.next), LAMBDA c :
                       IF c.c = 0 THEN [v |-> c.v, ok |-> FALSE]
                       ELSE [ok |-> TRUE,
                             v |-> flush_fat(update_short_entry(
                                       Cleared(update_fat_entry(c.v, c.c, Eof), c.c),
                                       File(c.c, a.number, dir), 0, TRUE))]))

\* Variant: the old name goes before the new one is there.
fat_rename_swapped(v, f, dir, name, size) ==
    With(add_dir_entry(free_direntries(v, f), dir, name, FALSE), LAMBDA a :
         IF a.number < 0 THEN [v |-> a.v, ok |-> FALSE]
         ELSE [ok |-> TRUE, v |-> flush_fat(update_short_entry(
                   a.v, [f EXCEPT !.entry = a.number, !.dir = dir], size, FALSE))])

\* The new name with size and cluster, then the old one goes.  (Of files.)
fat_rename(v, f, dir, name, size) ==
    With(add_dir_entry(v, dir, name, FALSE), LAMBDA a :
         IF a.number < 0 THEN [v |-> a.v, ok |-> FALSE]
         ELSE [ok |-> TRUE, v |-> flush_fat(free_direntries(update_short_entry(
                   a.v, [f EXCEPT !.entry = a.number, !.dir = dir], size, FALSE), f))])

fat_opendir(first) == fat_open(IF first = 0 THEN Root ELSE first, 0, 0)

\* What the RAM holds after a mount of what is on the disk.
fat_mount(disk) ==
    [fat |-> disk.fat, dirty |-> {}, free |-> disk.free, next |-> disk.next, disk |-> disk,
     log |-> << >>, panic |-> FALSE]

=============================================================================
