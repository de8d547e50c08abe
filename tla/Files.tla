-------------------------------- MODULE Files --------------------------------
(***************************************************************************)
(* Files and directories (emcore/file.c, emcore/dir.c) over the FAT32      *)
(* driver: file descriptors with their one-sector cache, the list of open  *)
(* files, names and paths, the end of a thread that has files open, and    *)
(* the loss of power between any two writes of a call.                     *)
(*                                                                         *)
(* A step is a whole call.  Nothing in the code keeps two calls apart but  *)
(* the locks of the sector buffers, so the callers are assumed to call one *)
(* after the other; a file is open once at a time, and neither renamed nor *)
(* removed while it is; ftruncate does not cut behind the position.  The   *)
(* memory of descriptors, directories that are renamed and errors of the   *)
(* disk are left out.                                                      *)
(***************************************************************************)
EXTENDS Fat

CONSTANTS RootFiles, SubDir, SubFiles,   \* names: files of the root, a directory, its files
          OldFile,                       \* the file of the root that is there at first
          Fillers,                       \* names of empty files that nobody opens
          Handles, Procs,
          Sizes,                         \* of reads and writes
          Offsets,                       \* where lseek and ftruncate go
          DataCalls, NameCalls,          \* how many calls each workload makes
          NoFile, Unknown, Closed

ASSUME FilesAssumption ==
    /\ OldFile \in RootFiles /\ Fillers \cap RootFiles = {} /\ SubDir \notin RootFiles \cup Fillers
    /\ Cardinality(Fillers) < Half * SecPerClus
    /\ {DataCalls, NameCalls} \cup Sizes \cup Offsets \subseteq Nat
    /\ NumClusters >= 4

VARIABLES vol,        \* the volume: RAM and disk, see Fat
          fds,        \* struct filedesc of every handle, or Closed
          openfiles,  \* the list of open files
          mode,       \* "up", "cut" after a loss of power, "dead" after a panic
          op,         \* the last call, see FileStore
          work,       \* the workload and how many calls it has made
          synced,     \* history: contents of files that were synced and not changed since
          doubtful,   \* history: files whose contents nobody can rely on
          lost,       \* history: clusters may be lost
          seen        \* the files and directories that the callers see: a function of the others

vars == <<vol, fds, openfiles, mode, op, work, synced, doubtful, lost, seen>>

Paths == {<<n>> : n \in RootFiles} \cup {<<SubDir, n>> : n \in SubFiles}
Parent(p) == SubSeq(p, 1, Len(p) - 1)
Least(i, j) == IF i < j THEN i ELSE j

-----------------------------------------------------------------------------
(* What a volume holds.                                                    *)

Chain(v, first) ==
    FoldLeft(LAMBDA s, i : LET n == IF s = << >> THEN first ELSE v.fat[Last(s)]
                           IN  IF n \in Clusters THEN Append(s, n) ELSE s,
             << >>, [i \in 1 .. NumClusters |-> i])

SectorsOf(v, first) ==
    With(Chain(v, first), LAMBDA chain :
         [i \in 1 .. Len(chain) * SecPerClus |->
             cluster2sec(chain[((i - 1) \div SecPerClus) + 1]) + ((i - 1) % SecPerClus)])

UnitsOf(v, first) ==
    With(SectorsOf(v, first), LAMBDA s :
         [i \in 1 .. Len(s) * Half |-> v.disk.data[s[((i - 1) \div Half) + 1]][((i - 1) % Half) + 1]])

Contents(v, first, size) == With(UnitsOf(v, first), LAMBDA u : SubSeq(u, 1, Least(size, Len(u))))

\* The entry of a directory with a name: a set of at most one.
EntriesOf(v, dir, name) ==
    With(UnitsOf(v, dir), LAMBDA u :
         {u[k] : k \in {j \in DOMAIN u : Names(u[j], name) /\ \A i \in 1 .. j : u[i] # Zero}})

DirOf(v, p) ==
    IF Len(p) = 0 THEN {Root} ELSE {e[3] : e \in {d \in EntriesOf(v, Root, p[1]) : d[2]}}

FileEntries(v, p) == UNION {EntriesOf(v, d, Last(p)) : d \in DirOf(v, Parent(p))}

OnDisk(v, p) ==
    With(FileEntries(v, p), LAMBDA found :
         IF found = {} THEN NoFile
         ELSE With(CHOOSE e \in found : TRUE, LAMBDA e : Contents(v, e[3], e[4])))

\* ... with the cached sector of a descriptor over it.
Visible(v, x) ==
    With(Contents(v, x.f.first, x.size), LAMBDA c :
         LET base == (x.off \div Half) * Half IN
         IF ~x.dirty THEN c
         ELSE [i \in 1 .. x.size |-> IF i - base \in 1 .. Half THEN x.cache[i - base] ELSE c[i]])

Opens(p) == {h \in Handles : fds[h] # Closed /\ fds[h].path = p}
Dirs == {<<SubDir>>}

See(v, descriptors, unknown) ==
    [files |-> [p \in Paths |->
        With({h \in Handles : descriptors[h] # Closed /\ descriptors[h].path = p}, LAMBDA of :
             IF p \in unknown THEN Unknown
             ELSE IF of = {} THEN OnDisk(v, p)
             ELSE Visible(v, descriptors[CHOOSE h \in of : TRUE]))],
     dirs |-> {d \in Dirs : DirOf(v, d) # {}}]

\* The position of the driver is not where the next access of the descriptor belongs.
Position(v, f) ==
    With(SectorsOf(v, f.first), LAMBDA s :
         LET at == {i \in DOMAIN s : s[i] = f.lastsec} IN
         IF f.lastsec = 0 THEN 0 ELSE IF at = {} THEN -1 ELSE CHOOSE i \in at : TRUE)

Misplaced(v, x) ==
    /\ x.write /\ ~x.dirty
    /\ \/ Position(v, x.f) # x.off \div Half + IF x.coff = -1 THEN 0 ELSE 1
       \/ x.f.first = 0 /\ x.f.last # 0

-----------------------------------------------------------------------------
(* dir.c: paths.                                                           *)

\* A directory below the root is opened with the place of its own entry.
opendir(v, dirpath) ==
    IF dirpath = << >> THEN [v |-> v, ok |-> TRUE, f |-> fat_opendir(0)]
    ELSE With(ScanDir(v, fat_opendir(0), dirpath[1]), LAMBDA s :
              LET there == {k \in DOMAIN s.slots : Names(s.slots[k], dirpath[1]) /\ s.slots[k][2]}
                  k == CHOOSE k \in there : TRUE
              IN  [v |-> s.v, ok |-> there # {},
                   f |-> IF there = {} THEN fat_opendir(0)
                         ELSE [fat_opendir(s.slots[k][3]) EXCEPT !.entry = k - 1, !.dir = Root]])

\* Names are compared until one is found: entry is its slot, -1 for none.
Lookup(v, dir, name) ==
    With(ScanDir(v, fat_opendir(dir), name), LAMBDA s :
         LET there == {k \in DOMAIN s.slots : Names(s.slots[k], name)}
             k == CHOOSE k \in there : TRUE
         IN  IF there = {} THEN [v |-> s.v, dir |-> dir, entry |-> -1]
             ELSE [v |-> s.v, dir |-> dir, entry |-> k - 1,
                   first |-> s.slots[k][3], size |-> s.slots[k][4]])

find(v, dirpath, name) ==
    With(opendir(v, dirpath), LAMBDA d :
         IF d.ok THEN Lookup(d.v, d.f.first, name) ELSE [v |-> d.v, dir |-> 0, entry |-> -1])

mkdir(v, path) ==
    With(find(v, Parent(path), Last(path)), LAMBDA e :
         IF e.entry # -1 THEN [v |-> e.v, ret |-> -4]
         ELSE With(fat_create_dir(e.v, e.dir, Last(path)), LAMBDA c :
                   [v |-> c.v, ret |-> IF c.ok THEN 0 ELSE -6]))

rmdir(v, path) ==
    LET used(slots) == \E k \in DOMAIN slots : IsEntry(slots[k]) /\ slots[k][1] \notin {Dot, DotDot}
    IN  With(opendir(v, path), LAMBDA d :
             IF ~d.ok THEN [v |-> d.v, ret |-> -1]
             ELSE With(ScanDir(d.v, fat_opendir(d.f.first), NoName), LAMBDA s :
                       IF used(s.slots) THEN [v |-> s.v, ret |-> -2]
                       ELSE [v |-> fat_remove(s.v, d.f), ret |-> 0]))

-----------------------------------------------------------------------------
(* file.c: a call takes the volume and the descriptor x to what it makes   *)
(* of them; ret is negative for an error.                                  *)

\* The cached sector is the one of the file offset.
flush_cache(v, x) ==
    With(fat_seek(v, x.f, x.off \div Half), LAMBDA s :
         IF ~s.ok THEN [v |-> s.v, x |-> [x EXCEPT !.f = s.f], ok |-> FALSE]
         ELSE With(WriteSector(s.v, s.f, x.cache), LAMBDA w :
                   [v |-> w.v, x |-> [x EXCEPT !.f = w.f, !.dirty = w.rc < 0], ok |-> w.rc >= 0]))

flush_if_dirty(v, x) ==
    IF x.dirty THEN flush_cache(v, x) ELSE [v |-> v, x |-> x, ok |-> TRUE]

\* pos is in 0 .. size: what lseek does after the cache is flushed.
seek_to(v, x, pos) ==
    LET away == pos \div Half # x.off \div Half
        At(y, coff) == [y EXCEPT !.coff = coff, !.off = pos]
    IN  With(IF away THEN fat_seek(v, x.f, pos \div Half) ELSE [v |-> v, f |-> x.f, ok |-> TRUE],
             LAMBDA s :
             CASE ~s.ok -> [v |-> s.v, x |-> [x EXCEPT !.f = s.f], ret |-> -4]
               [] s.ok /\ pos % Half # 0 /\ (away \/ x.coff = -1) ->
                    With(fat_readwrite(s.v, s.f, <<x.cache>>, FALSE), LAMBDA r :
                         [v |-> r.v, ret |-> pos,
                          x |-> At([x EXCEPT !.f = r.f, !.cache = r.buf[1]], pos % Half)])
               [] OTHER ->
                    [v |-> s.v, ret |-> pos,
                     x |-> At([x EXCEPT !.f = s.f], IF away \/ x.coff = -1 THEN -1 ELSE pos % Half)])

\* Variant: the cached sector is replaced before it is written.
lseek_unflushed(v, x, pos) == seek_to(v, x, pos)

lseek(v, x, pos) ==
    With(IF pos \div Half # x.off \div Half THEN flush_if_dirty(v, x)
         ELSE [v |-> v, x |-> x, ok |-> TRUE], LAMBDA c :
         IF c.ok THEN seek_to(c.v, c.x, pos) ELSE [v |-> c.v, x |-> c.x, ret |-> -5])

ftruncate(v, x, size) ==
    With(fat_seek(v, x.f, (size + Half - 1) \div Half), LAMBDA s :
         IF ~s.ok THEN [v |-> s.v, x |-> [x EXCEPT !.f = s.f], ret |-> -1]
         ELSE [v |-> fat_truncate(s.v, s.f), x |-> [x EXCEPT !.f = s.f, !.size = size], ret |-> 0])

Truncated(c) ==
    IF ~c.ok THEN [v |-> c.v, x |-> c.x, ret |-> -3]
    ELSE IF c.x.trunc THEN ftruncate(c.v, c.x, c.x.size)
    ELSE [v |-> c.v, x |-> c.x, ret |-> 0]

fsync(v, x) ==
    IF ~x.write THEN [v |-> v, x |-> x, ret |-> 0]
    ELSE With(Truncated(flush_if_dirty(v, x)), LAMBDA r :
              With(fat_closewrite(r.v, r.x.f, r.x.size), LAMBDA c :
                   [v |-> c.v, x |-> [r.x EXCEPT !.f = c.f], ret |-> r.ret]))

\* readwrite: r is [v, x, data, done, left, ret, stop], data what is to be written or what
\* was read so far, done and left count units.
Over(sector, at, data) ==
    [i \in 1 .. Half |-> IF i - at \in DOMAIN data THEN data[i - at] ELSE sector[i]]

\* Variant: the size is not adjusted.
Grow_not(x) == x

Grow(x) == [x EXCEPT !.size = IF x.off > @ THEN x.off ELSE @]

HeadBytes(r, write) ==
    LET at == r.x.coff
        k == Least(r.left, Half - at)
        y == IF write THEN [r.x EXCEPT !.cache = Over(@, at, SubSeq(r.data, 1, k)), !.dirty = TRUE]
             ELSE r.x
    IN  IF at = -1 THEN r
        ELSE With(IF at + k = Half THEN flush_if_dirty(r.v, y) ELSE [v |-> r.v, x |-> y, ok |-> TRUE],
                  LAMBDA c :
                  IF ~c.ok THEN [r EXCEPT !.v = c.v, !.x = c.x, !.ret = -2, !.stop = TRUE]
                  ELSE [r EXCEPT !.v = c.v, !.done = k, !.left = @ - k,
                                 !.x = [c.x EXCEPT !.coff = IF at + k = Half THEN -1 ELSE at + k],
                                 !.data = IF write THEN @ ELSE SubSeq(r.x.cache, at + 1, at + k)])

\* A buffer that is not aligned goes through the cache, a sector at a time.
Unaligned(v, x, buf, write) ==
    FoldLeft(LAMBDA t, i :
                IF t.rc < 0 THEN t
                ELSE With(fat_readwrite(t.v, t.f, <<IF write THEN buf[i] ELSE t.cache>>, write),
                          LAMBDA w :
                          [v |-> w.v, f |-> w.f, cache |-> w.buf[1], buf |-> Append(t.buf, w.buf[1]),
                           rc |-> IF w.rc < 0 THEN w.rc ELSE t.rc + w.rc]),
             [v |-> v, f |-> x.f, cache |-> x.cache, buf |-> << >>, rc |-> 0],
             [i \in DOMAIN buf |-> i])

WholeSectors(r, write, aligned) ==
    LET count == r.left \div Half
        buf == [i \in 1 .. count |->
                   IF write THEN SubSeq(r.data, r.done + (i - 1) * Half + 1, r.done + i * Half)
                   ELSE ZeroSector]
    IN  IF r.stop \/ count = 0 THEN r
        ELSE With(IF aligned THEN fat_readwrite(r.v, r.x.f, buf, write) @@ [cache |-> r.x.cache]
                  ELSE Unaligned(r.v, r.x, buf, write), LAMBDA t :
                  LET s == [r EXCEPT !.v = t.v,
                                     !.x = [@ EXCEPT !.f = t.f, !.cache = t.cache, !.coff = -1]]
                  IN  IF t.rc < 0 THEN [s EXCEPT !.stop = TRUE, !.ret = IF r.done > 0 THEN r.done ELSE -4]
                      ELSE [s EXCEPT !.done = @ + t.rc * Half,
                                     !.left = IF t.rc < count THEN 0 ELSE @ - count * Half,
                                     !.data = IF write THEN @ ELSE @ \o FlattenSeq(SubSeq(t.buf, 1, t.rc))])

\* Before a part of a sector of the file is replaced, the sector is read.
TailRead(r) ==
    With(fat_readwrite(r.v, r.x.f, <<r.x.cache>>, FALSE), LAMBDA b :
         IF b.rc < 1
         THEN [r EXCEPT !.v = b.v, !.stop = TRUE, !.ret = IF r.done > 0 THEN r.done ELSE -7,
                        !.x = [@ EXCEPT !.off = @ + r.done, !.coff = -1, !.f = b.f]]
         ELSE [r EXCEPT !.v = b.v, !.done = @ + r.left, !.data = @ \o SubSeq(b.buf[1], 1, r.left),
                        !.x = [@ EXCEPT !.f = b.f, !.cache = b.buf[1], !.coff = r.left]])

TailWrite(r) ==
    LET rest == SubSeq(r.data, r.done + 1, r.done + r.left)
        Fill(q, sector) == [q EXCEPT !.done = @ + q.left,
                                     !.x = [@ EXCEPT !.coff = q.left, !.dirty = TRUE,
                                                     !.cache = Over(sector, 0, rest)]]
    IN  IF r.x.off + r.done >= r.x.size THEN Fill(r, r.x.cache)
        ELSE With(fat_readwrite(r.v, r.x.f, <<r.x.cache>>, FALSE), LAMBDA b :
             With(fat_seek(b.v, b.f, (r.x.off + r.done) \div Half), LAMBDA s :
                  IF s.ok THEN Fill([r EXCEPT !.v = s.v, !.x.f = s.f], b.buf[1])
                  ELSE [r EXCEPT !.v = s.v, !.stop = TRUE, !.ret = IF r.done > 0 THEN r.done ELSE -6,
                                 !.x = Grow([@ EXCEPT !.off = @ + r.done, !.coff = -1, !.f = s.f])]))

TailBytes(r, write) ==
    IF r.stop \/ r.left = 0 THEN r ELSE IF write THEN TailWrite(r) ELSE TailRead(r)

readwrite(v, x, data, n, write, aligned) ==
    LET Start == [v |-> v, x |-> x, data |-> data, done |-> 0, ret |-> 0, stop |-> FALSE,
                  left |-> IF write THEN n ELSE Least(n, x.size - x.off)]
        End(y) == IF write THEN Grow(y) ELSE y
    IN  With(TailBytes(WholeSectors(HeadBytes(Start, write), write, aligned), write), LAMBDA r :
             IF r.stop THEN r ELSE [r EXCEPT !.x = End([@ EXCEPT !.off = @ + r.done]), !.ret = r.done])

Descriptor(path, proc, flags, f, size) ==
    [path |-> path, cache |-> ZeroSector, coff |-> -1, off |-> 0, f |-> f, proc |-> proc,
     size |-> IF "trunc" \in flags THEN 0 ELSE size,
     write |-> "write" \in flags, dirty |-> FALSE, trunc |-> "trunc" \in flags]

\* Errors leave no descriptor, a file that was created stays.
Create(e, path, proc, flags) ==
    With(fat_create_file(e.v, e.dir, Last(path)), LAMBDA c :
         [v |-> c.v, ret |-> IF c.ok THEN 0 ELSE -1, x |-> Descriptor(path, proc, flags, c.f, 0)])

OpenEntry(e, path, proc, flags) ==
    CASE e.entry # -1 ->
           [v |-> e.v, ret |-> 0,
            x |-> Descriptor(path, proc, flags, fat_open(e.first, e.entry, e.dir), e.size)]
      [] e.entry = -1 /\ e.dir # 0 /\ "creat" \in flags -> Create(e, path, proc, flags)
      [] OTHER -> [v |-> e.v, ret |-> -1]

open_internal(v, path, proc, flags) ==
    With(OpenEntry(find(v, Parent(path), Last(path)), path, proc, flags), LAMBDA a :
         IF a.ret >= 0 /\ "append" \in flags THEN lseek(a.v, a.x, a.x.size) ELSE a)

\* The clusters and the entry; close then finds an empty file without an entry.
remove(v, path) ==
    With(open_internal(v, path, 0, {"write"}), LAMBDA o :
         IF o.ret < 0 THEN [v |-> o.v, ret |-> -1]
         ELSE fsync(fat_remove(o.v, o.x.f), [o.x EXCEPT !.f.first = 0, !.f.dir = 0, !.size = 0]))

Moved(d, x, newpath) ==
    With(fat_rename(d.v, x.f, d.f.first, Last(newpath), x.size), LAMBDA r :
         [v |-> r.v, ret |-> IF r.ok THEN 0 ELSE -7])

rename(v, path, newpath) ==
    With(open_internal(v, newpath, 0, {}), LAMBDA n :
         IF n.ret >= 0 THEN [v |-> n.v, ret |-> -1]
         ELSE With(open_internal(n.v, path, 0, {}), LAMBDA o :
              IF o.ret < 0 THEN [v |-> o.v, ret |-> -2]
              ELSE With(opendir(o.v, Parent(newpath)), LAMBDA d :
                   IF ~d.ok THEN [v |-> d.v, ret |-> -5] ELSE Moved(d, o.x, newpath))))

\* The descriptors of a thread that ends are freed.  Of those at the head of the list it
\* is the NEXT one that is synced, whoever it belongs to; the others are not synced.
close_all_of_process(v, proc) ==
    LET Its(h) == fds[h].proc = proc
        heads == {i \in DOMAIN openfiles : \A j \in 1 .. i : Its(openfiles[j])}
        Sync(r, h) == With(fsync(r.v, r.fds[h]), LAMBDA s :
                           [v |-> s.v, fds |-> [r.fds EXCEPT ![h] = s.x]])
    IN  With(FoldLeft(LAMBDA q, i : IF i \in heads /\ i < Len(openfiles) THEN Sync(q, openfiles[i + 1])
                                    ELSE q,
                      [v |-> v, fds |-> fds], [i \in DOMAIN openfiles |-> i]), LAMBDA r :
             [v |-> r.v,
              fds |-> [h \in Handles |-> IF fds[h] # Closed /\ Its(h) THEN Closed ELSE r.fds[h]],
              list |-> SelectSeq(openfiles, LAMBDA h : ~Its(h))])

-----------------------------------------------------------------------------
(* Calls.                                                                  *)

\* The entry of OldFile, then the fillers; OldFile has two clusters and five units.
RootSlots(names) ==
    <<Entry(OldFile, FALSE, 3, 5)>>
        \o [i \in 1 .. IF names THEN Cardinality(Fillers) ELSE 0 |->
               Entry(SetToSeq(Fillers)[i], FALSE, 0, 0)]

NewVolume(names) ==
    LET root == RootSlots(names)
        slot(k) == IF k \in DOMAIN root THEN root[k] ELSE Zero
        fat == [e \in Entries |-> IF e = 3 THEN 4 ELSE IF e <= 4 THEN Eof ELSE 0]
        unit(n) == IF n <= 5 THEN <<n>> ELSE Zero
        data == [s \in DataSectors |->
                   LET i == s - FirstData IN
                   CASE i < SecPerClus -> <<slot(2 * i + 1), slot(2 * i + 2)>>
                     [] i \in SecPerClus .. 3 * SecPerClus - 1 ->
                          <<unit(2 * (i - SecPerClus) + 1), unit(2 * (i - SecPerClus) + 2)>>
                     [] OTHER -> ZeroSector]
    IN  fat_mount([fat |-> fat, data |-> data, free |-> NumClusters - 3, next |-> 5])

NoCall == [call |-> "none", path |-> << >>, to |-> << >>, h |-> 0, n |-> 0, flags |-> {}, proc |-> 0,
           data |-> << >>, ret |-> 0, full |-> FALSE, moved |-> FALSE, cut |-> FALSE]

Init == /\ work \in {[names |-> b, calls |-> 0] : b \in BOOLEAN}
        /\ vol = NewVolume(work.names)
        /\ fds = [h \in Handles |-> Closed] /\ openfiles = << >>
        /\ mode = "up" /\ op = NoCall
        /\ synced = [p \in Paths |-> OnDisk(vol, p)]
        /\ doubtful = {} /\ lost = FALSE
        /\ seen = See(vol, fds, {})

\* What a call leaves behind; atcut is what stays synced when it is cut short.
Same == [fds |-> fds, list |-> openfiles, synced |-> synced, doubtful |-> doubtful, lost |-> lost,
         dead |-> FALSE]

Returns(o, v, after, atcut) ==
    /\ mode = "up"
    /\ work.calls < IF work.names THEN NameCalls ELSE DataCalls
    /\ work' = [work EXCEPT !.calls = @ + 1]
    /\ doubtful' = after.doubtful /\ lost' = after.lost
    /\ \/ /\ vol' = [v EXCEPT !.log = << >>]
          /\ mode' = IF v.panic \/ after.dead THEN "dead" ELSE "up"
          /\ op' = [o EXCEPT !.full = v.free = 0, !.cut = v.panic \/ after.dead]
          /\ fds' = after.fds /\ openfiles' = after.list /\ synced' = after.synced
          /\ seen' = IF v.panic \/ after.dead THEN seen ELSE See(v, after.fds, after.doubtful)
       \/ /\ \E k \in DOMAIN v.log : vol' = fat_mount(v.log[k])
          /\ mode' = "cut"
          /\ op' = [o EXCEPT !.cut = TRUE]
          /\ fds' = [h \in Handles |-> Closed] /\ openfiles' = << >> /\ synced' = atcut
          /\ seen' = seen

Call(call, h) == [NoCall EXCEPT !.call = call, !.h = h, !.path = fds[h].path]
Used == {h \in Handles : fds[h] # Closed}

\* Contents that were synced stay when they are a prefix of what is left alone.
Kept(x) == IF x.off < Len(synced[x.path]) THEN NoFile ELSE synced[x.path]
Promise(p, c) == [synced EXCEPT ![p] = IF p \in doubtful THEN NoFile ELSE c]
Doubt(after, p) ==
    [after EXCEPT !.synced[p] = NoFile, !.doubtful = @ \cup {p}, !.lost = TRUE]

call_open(p, proc, flags) ==
    /\ Opens(p) = {} /\ Used # Handles
    /\ \E r \in {open_internal(vol, p, proc, flags)} :
         LET h == CHOOSE i \in Handles \ Used : TRUE   \* any memory will do
             o == [NoCall EXCEPT !.call = "open", !.path = p, !.h = h, !.flags = flags,
                                 !.proc = proc, !.ret = r.ret]
             clear == IF "trunc" \in flags THEN [synced EXCEPT ![p] = NoFile] ELSE synced
         IN  IF r.ret < 0 THEN Returns(o, r.v, Same, synced)
             ELSE Returns(o, r.v,
                    [Same EXCEPT !.fds[h] = r.x, !.list = <<h>> \o @, !.synced = clear,
                                 !.doubtful = IF "trunc" \in flags THEN @ \ {p} ELSE @],
                    clear)

call_read(h, n, aligned) ==
    \E r \in {readwrite(vol, fds[h], << >>, n, FALSE, aligned)} :
        Returns([Call("read", h) EXCEPT !.n = n, !.ret = r.ret, !.data = r.data],
                r.v, [Same EXCEPT !.fds[h] = r.x], synced)

call_write(h, n, aligned) ==
    LET x == fds[h]
        data == [i \in 1 .. n |-> <<8 * (work.calls + 1) + i>>]
        kept == [synced EXCEPT ![x.path] = IF @ = NoFile THEN @ ELSE Kept(x)]
    IN  /\ x.write
        /\ \E r \in {readwrite(vol, x, data, n, TRUE, aligned)} :
             LET after == [Same EXCEPT !.fds[h] = r.x, !.synced = kept] IN
             Returns([Call("write", h) EXCEPT !.n = n, !.ret = r.ret, !.data = data],
                     r.v, IF r.ret = n THEN after ELSE Doubt(after, x.path), kept)

call_seek(h, pos) ==
    /\ pos <= fds[h].size
    /\ \E r \in {lseek(vol, fds[h], pos)} :
         LET after == [Same EXCEPT !.fds[h] = r.x] IN
         Returns([Call("seek", h) EXCEPT !.n = pos, !.ret = r.ret],
                 r.v, IF r.ret >= 0 THEN after ELSE Doubt(after, fds[h].path), synced)

\* The position may be wrong after a truncation.
call_sync(h) ==
    LET p == fds[h].path IN
    \E r \in {fsync(vol, fds[h])} :
      LET moved == Misplaced(r.v, r.x)
          after == [Same EXCEPT !.fds[h] = r.x,
                                !.synced = IF r.x.write THEN Promise(p, Visible(r.v, r.x)) ELSE @]
      IN  Returns([Call("sync", h) EXCEPT !.ret = r.ret, !.moved = moved],
                  r.v, IF r.ret >= 0 /\ ~moved THEN after ELSE Doubt(after, p), synced)

call_truncate(h, size) ==
    LET x == fds[h]  p == x.path
        cut == [synced EXCEPT ![p] = IF @ = NoFile THEN @ ELSE SubSeq(@, 1, Least(size, Len(@)))]
    IN  /\ x.write /\ size \in x.off .. x.size
        /\ \E r \in {ftruncate(vol, x, size)} :
             LET moved == r.ret < 0 \/ Misplaced(r.v, r.x)
                 after == [Same EXCEPT !.fds[h] = r.x, !.synced = cut]
             IN  Returns([Call("truncate", h) EXCEPT !.n = size, !.ret = r.ret, !.moved = moved],
                         r.v, IF moved THEN Doubt(after, p) ELSE after, cut)

\* The descriptor of a file that cannot be synced stays open.
call_close(h) ==
    LET x == fds[h] IN
    \E r \in {fsync(vol, x)} :
      LET gone == [Same EXCEPT !.fds[h] = Closed, !.list = SelectSeq(@, LAMBDA i : i # h),
                               !.synced = IF x.write THEN Promise(x.path, Visible(r.v, r.x)) ELSE @]
      IN  Returns([Call("close", h) EXCEPT !.ret = r.ret], r.v,
                  IF r.ret >= 0 THEN gone ELSE Doubt([Same EXCEPT !.fds[h] = r.x], x.path), synced)

call_remove(p) ==
    /\ Opens(p) = {}
    /\ \E r \in {remove(vol, p)} :
         LET gone == [synced EXCEPT ![p] = NoFile] IN
         Returns([NoCall EXCEPT !.call = "remove", !.path = p, !.ret = r.ret], r.v,
                 IF r.ret < 0 THEN Same
                 ELSE [Same EXCEPT !.synced = gone, !.doubtful = @ \ {p}], gone)

\* The new name is safe before the old one goes unless its directory takes a cluster,
\* which only flush_fat links to it: then neither name may be found after a loss of power.
call_rename(p, q) ==
    /\ p # q /\ Opens(p) = {} /\ Opens(q) = {}
    /\ \E r \in {rename(vol, p, q)} :
         Returns([NoCall EXCEPT !.call = "rename", !.path = p, !.to = q, !.ret = r.ret,
                                !.moved = r.v.free # vol.free], r.v,
                 IF r.ret < 0 THEN Same
                 ELSE [Same EXCEPT !.synced[q] = synced[p], !.synced[p] = NoFile,
                                   !.doubtful = (@ \ {p}) \cup IF p \in @ THEN {q} ELSE {}],
                 synced)

\* The entry of a directory for which no cluster was free has cluster 0, the root: the
\* model goes no further.
call_mkdir(p) ==
    \E r \in {mkdir(vol, p)} :
        Returns([NoCall EXCEPT !.call = "mkdir", !.path = p, !.ret = r.ret], r.v,
                [Same EXCEPT !.dead = r.ret = -6 /\ FileEntries(r.v, p) # {}], synced)

call_rmdir(p) ==
    \E r \in {rmdir(vol, p)} :
        Returns([NoCall EXCEPT !.call = "rmdir", !.path = p, !.ret = r.ret], r.v, Same, synced)

\* A thread ends (thread_terminate), whatever it has open.
call_kill(proc) ==
    LET its == {h \in Used : fds[h].proc = proc}
        wrote == {fds[h].path : h \in {i \in its : fds[i].write}}
    IN  /\ its # {}
        /\ \E r \in {close_all_of_process(vol, proc)} :
             LET moved == {fds[h].path : h \in {i \in Used \ its : Misplaced(r.v, r.fds[i])}} IN
             Returns([NoCall EXCEPT !.call = "kill", !.proc = proc, !.moved = moved # {}], r.v,
                     [Same EXCEPT !.fds = r.fds, !.list = r.list, !.lost = @ \/ wrote # {},
                                  !.synced = [p \in Paths |-> IF p \in moved THEN NoFile ELSE @[p]],
                                  !.doubtful = @ \cup wrote \cup moved],
                     synced)

Writing == {{"write", "creat"}, {"write", "creat", "trunc"}, {"write", "creat", "append"}}
TheProc == CHOOSE p \in Procs : TRUE

\* What is done with one file at a time, and what is done with names.
DataWork ==
    /\ ~work.names
    /\ \/ \E n \in RootFiles, flags \in Writing \cup {{}} : Used = {} /\ call_open(<<n>>, TheProc, flags)
       \/ \E h \in Used, n \in Sizes : \E aligned \in {TRUE, n < 2 * Half} :
             call_read(h, n, aligned) \/ call_write(h, n, aligned)
       \/ \E h \in Used, pos \in Offsets : call_seek(h, pos) \/ call_truncate(h, pos)
       \/ \E h \in Used : call_sync(h) \/ call_close(h)

NameWork ==
    /\ work.names
    /\ \/ \E p \in Paths, proc \in Procs, flags \in Writing : call_open(p, proc, flags)
       \/ \E h \in Used : call_write(h, Half + 1, TRUE) \/ call_sync(h) \/ call_close(h)
       \/ \E p \in Paths : call_remove(p) \/ \E q \in Paths : call_rename(p, q)
       \/ \E d \in Dirs : call_mkdir(d) \/ call_rmdir(d)
       \/ \E proc \in Procs : call_kill(proc)

Next == DataWork \/ NameWork
Spec == Init /\ [][Next]_vars

-----------------------------------------------------------------------------
(* Properties.                                                             *)

\* Descriptors stay within their file, the cache within a sector, and the list of open
\* files holds the used handles (file.c, "invariant: 0 <= cacheoffset <= SECTOR_SIZE").
TypeOK ==
    /\ mode \in {"up", "cut", "dead"} /\ lost \in BOOLEAN /\ doubtful \subseteq Paths
    /\ \A h \in Used : LET x == fds[h] IN
         /\ x.path \in Paths /\ x.proc \in Procs
         /\ x.coff \in -1 .. Half - 1 /\ x.off \in 0 .. x.size
         /\ x.dirty => x.write /\ x.coff # -1
         /\ \A i \in Handles : i \in Used /\ fds[i].path = x.path => i = h
    /\ ToSet(openfiles) = Used /\ Len(openfiles) = Cardinality(Used)
    /\ vol.free \in 0 .. NumClusters
    /\ \A e \in Clusters : vol.fat[e] \in Entries \cup {Eof}

\* The panics of the driver are met only with a file about which a call has reported an
\* error or whose truncation has moved its position (fat.c, update_fat_entry, transfer,
\* update_short_entry).
NoPanic == vol.panic => op.path \in doubtful

\* Chains end, share no cluster, have room for what was written, and no cluster is lost
\* or miscounted, whatever files are open (fat_truncate, fat_closewrite, fat_remove,
\* update_fat_entry); after a full disk or the end of a writer clusters may be lost.
ChainsSound ==
    LET names == {p \in Paths : FileEntries(vol, p) # {}}
        writer(p) == {h \in Opens(p) : fds[h].write}
        first(p) == IF writer(p) # {} THEN fds[CHOOSE h \in writer(p) : TRUE].f.first
                    ELSE (CHOOSE e \in FileEntries(vol, p) : TRUE)[3]
        firsts == [p \in names \cup {<< >>} \cup {d \in Dirs : DirOf(vol, d) # {}} |->
                     IF p \in names THEN first(p) ELSE CHOOSE c \in DirOf(vol, p) : TRUE]
        chain == [p \in DOMAIN firsts |-> Chain(vol, firsts[p])]
        used == UNION {ToSet(chain[p]) : p \in DOMAIN chain}
        room(p) == Len(chain[p]) * SecPerClus * Half
    IN  mode = "up" =>
        /\ \A p \in DOMAIN chain : chain[p] # << >> => vol.fat[Last(chain[p])] = Eof
        /\ FoldFunctionOnSet(LAMBDA s, n : Len(s) + n, 0, chain, DOMAIN chain) = Cardinality(used)
        /\ lost \/ used = {c \in Clusters : vol.fat[c] # 0}
        /\ vol.free = Cardinality({c \in Clusters : vol.fat[c] = 0})
        /\ \A p \in names \ doubtful :
             /\ Opens(p) = {} => \A e \in FileEntries(vol, p) : e[4] <= room(p)
             /\ \A h \in Opens(p) :
                  room(p) >= IF fds[h].dirty THEN (fds[h].off \div Half) * Half ELSE fds[h].size

\* What fsync or close has put away is found after a loss of power, by its name or, when
\* it was being renamed, by one of its names: whatever other calls, on any file, come
\* between and wherever the last one is cut (fat_closewrite, fat_rename, cache_fat_sector).
SyncedSurvives ==
    LET v == fat_mount(vol.disk)
        found(p, c) == OnDisk(v, p) # NoFile /\ IsPrefix(c, OnDisk(v, p))
    IN  \A p \in Paths : synced[p] # NoFile =>
          \/ found(p, synced[p])
          \/ /\ mode = "cut" /\ op.call = "rename" /\ op.path = p
             /\ op.moved \/ found(op.to, synced[p])

\* To its callers the driver with its caches, clusters and entries is a store of files.
FileApi == INSTANCE FileStore WITH
    files <- seen.files, dirs <- seen.dirs,
    handles <- [h \in Handles |-> IF fds[h] = Closed THEN Closed
                                  ELSE [path |-> fds[h].path, pos |-> fds[h].off,
                                        proc |-> fds[h].proc, write |-> fds[h].write]]
ImplementsStore == FileApi!Spec

=============================================================================
