------------------------------ MODULE FileStore ------------------------------
(***************************************************************************)
(* What the file API promises its callers ("a roughly POSIX-compatible     *)
(* file IO API", emcore/file.c): named files with contents, and open files *)
(* with a position.  A step is a call, op is the last call with its        *)
(* arguments and results; Files implements this.                           *)
(*                                                                         *)
(* Where the code gives less than POSIX, the store says so: contents       *)
(* become Unknown when a write found the disk full, when a thread was      *)
(* killed with the file open for writing, and when a truncation moved the  *)
(* position of an open file.                                               *)
(***************************************************************************)
EXTENDS Integers, Sequences

CONSTANTS Paths, Handles, NoFile, Unknown, Closed

VARIABLES files,    \* the contents of every path, NoFile or Unknown
          dirs,     \* the directories below the root
          handles,  \* of every open file its path, position, thread and whether it writes
          op        \* the last call

storeVars == <<files, dirs, handles, op>>

Known(c) == c \notin {NoFile, Unknown}
Parent(p) == SubSeq(p, 1, Len(p) - 1)
HasParent(p) == Len(p) = 1 \/ Parent(p) \in dirs
Least(i, j) == IF i < j THEN i ELSE j

\* data over c from position pos on.
Overwrite(c, pos, data) ==
    [i \in 1 .. IF pos + Len(data) > Len(c) THEN pos + Len(data) ELSE Len(c) |->
        IF i - pos \in DOMAIN data THEN data[i - pos] ELSE c[i]]

OnlyFile(p, c) == files' = [files EXCEPT ![p] = c] /\ dirs' = dirs
OnlyHandle(h, x) == handles' = [handles EXCEPT ![h] = x]

Init == /\ handles = [h \in Handles |-> Closed]
        /\ dirs = {}
        /\ \A p \in Paths : files[p] = NoFile \/ Known(files[p])
        /\ op.call = "none"

\* A call that fails changes nothing.
Refused == op'.ret < 0 /\ UNCHANGED <<files, dirs, handles>>

Open ==
    LET p == op'.path  h == op'.h
        c == IF files[p] = NoFile \/ "trunc" \in op'.flags THEN << >> ELSE files[p]
    IN  /\ op'.call = "open"
        /\ \/ /\ Refused
              /\ files[p] = NoFile
              /\ op'.flags = {} \/ ~HasParent(p) \/ op'.full
           \/ /\ op'.ret >= 0 /\ HasParent(p)
              /\ handles[h] = Closed
              /\ op'.flags = {} => files[p] # NoFile
              /\ OnlyFile(p, c)
              /\ handles'[h].pos = 0 \/ ("append" \in op'.flags /\ (Known(c) => handles'[h].pos = Len(c)))
              /\ OnlyHandle(h, [path |-> p, pos |-> handles'[h].pos, proc |-> op'.proc,
                                write |-> op'.flags # {}])

\* Reading returns what is there, up to the end of the file.
Read ==
    LET x == handles[op'.h]  c == files[x.path]
        n == Least(op'.n, Len(c) - x.pos)
    IN  /\ op'.call = "read"
        /\ UNCHANGED <<files, dirs>>
        /\ handles' = [handles EXCEPT ![op'.h].pos = handles'[op'.h].pos]
        /\ Known(c) => /\ op'.ret = n
                       /\ op'.data = SubSeq(c, x.pos + 1, x.pos + n)
                       /\ handles'[op'.h].pos = x.pos + n

\* Writing changes what was written, in this file only.
Write ==
    LET x == handles[op'.h]  c == files[x.path]
    IN  /\ op'.call = "write"
        /\ handles' = [handles EXCEPT ![op'.h].pos = handles'[op'.h].pos]
        /\ \/ /\ op'.ret = op'.n
              /\ Known(c) => /\ OnlyFile(x.path, Overwrite(c, x.pos, op'.data))
                             /\ handles'[op'.h].pos = x.pos + op'.n
              /\ ~Known(c) => OnlyFile(x.path, c)
           \/ op'.ret # op'.n /\ op'.full /\ OnlyFile(x.path, Unknown)

Seek ==
    LET x == handles[op'.h]  c == files[x.path]
    IN  /\ op'.call = "seek"
        /\ dirs' = dirs
        /\ \/ /\ op'.ret = op'.n
              /\ UNCHANGED files
              /\ OnlyHandle(op'.h, [x EXCEPT !.pos = op'.n])
           \/ /\ op'.ret < 0
              /\ Known(c) => op'.full
              /\ OnlyFile(x.path, Unknown) /\ UNCHANGED handles

\* fsync changes nothing that can be seen.
Sync ==
    LET x == handles[op'.h] IN
    /\ op'.call = "sync"
    /\ UNCHANGED handles
    /\ \/ op'.ret = 0 /\ UNCHANGED <<files, dirs>>
       \/ op'.ret < 0 /\ op'.full /\ OnlyFile(x.path, Unknown)
       \/ op'.moved /\ OnlyFile(x.path, Unknown)

Truncate ==
    LET x == handles[op'.h]  c == files[x.path]
    IN  /\ op'.call = "truncate"
        /\ UNCHANGED handles
        /\ \/ /\ op'.ret = 0
              /\ OnlyFile(x.path, IF Known(c) THEN SubSeq(c, 1, op'.n) ELSE c)
           \/ (op'.moved \/ ~Known(c)) /\ OnlyFile(x.path, Unknown)

Close ==
    LET x == handles[op'.h] IN
    /\ op'.call = "close"
    /\ \/ op'.ret = 0 /\ UNCHANGED <<files, dirs>> /\ OnlyHandle(op'.h, Closed)
       \/ op'.ret < 0 /\ op'.full /\ OnlyFile(x.path, Unknown) /\ UNCHANGED handles

Remove ==
    /\ op'.call = "remove"
    /\ \/ Refused /\ files[op'.path] = NoFile
       \/ op'.ret = 0 /\ files[op'.path] # NoFile /\ OnlyFile(op'.path, NoFile)
            /\ UNCHANGED handles

Rename ==
    /\ op'.call = "rename"
    /\ \/ /\ Refused
          /\ files[op'.path] = NoFile \/ files[op'.to] # NoFile \/ ~HasParent(op'.to) \/ op'.full
       \/ /\ op'.ret = 0
          /\ files[op'.to] = NoFile /\ HasParent(op'.to)
          /\ files' = [files EXCEPT ![op'.to] = files[op'.path], ![op'.path] = NoFile]
          /\ UNCHANGED <<dirs, handles>>

Mkdir ==
    /\ op'.call = "mkdir"
    /\ \/ Refused /\ (op'.path \in dirs \/ op'.full)
       \/ /\ op'.ret = 0 /\ dirs' = dirs \cup {op'.path} /\ op'.path \notin dirs
          /\ UNCHANGED <<files, handles>>

Rmdir ==
    /\ op'.call = "rmdir"
    /\ \/ /\ Refused
          /\ op'.path \in dirs => \E p \in Paths : Len(p) = 2 /\ files[p] # NoFile
       \/ /\ op'.ret = 0 /\ dirs' = dirs \ {op'.path} /\ op'.path \in dirs
          /\ \A p \in Paths : Len(p) = 2 => files[p] = NoFile
          /\ UNCHANGED <<files, handles>>

\* A thread that ends: its files are closed, and nobody else's.
Kill ==
    LET its == {h \in Handles : handles[h] # Closed /\ handles[h].proc = op'.proc} IN
    /\ op'.call = "kill"
    /\ handles' = [h \in Handles |-> IF h \in its THEN Closed ELSE handles[h]]
    /\ dirs' = dirs
    /\ \A p \in Paths :
         files'[p] # files[p] =>
             /\ files'[p] = Unknown
             /\ op'.moved \/ \E h \in its : handles[h].path = p /\ handles[h].write

Done == \/ Open \/ Read \/ Write \/ Seek \/ Sync \/ Truncate \/ Close
        \/ Remove \/ Rename \/ Mkdir \/ Rmdir \/ Kill

\* What a loss of power or a panic leaves is not said here.
Cut == op'.cut

Next == Cut \/ (~op'.cut /\ Done)

Spec == Init /\ [][Next]_storeVars

=============================================================================
