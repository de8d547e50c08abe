------------------------------- MODULE Console -------------------------------
(***************************************************************************)
(* The debug console (emcore/usb/usbdebug.c): a ring of bytes that threads *)
(* write and the monitor reads, and one the other way round.               *)
(*                                                                         *)
(* The indices are the code's.  A byte is its number in the order in which *)
(* bytes were put into the ring, and MarkByte is one of the message that   *)
(* says that the ring overflowed.  s is the record of UsbCore.             *)
(***************************************************************************)
EXTENDS Integers, Sequences, SequencesExt

CONSTANTS SendSize,   \* sizeof(dbgconsendbuf), 4096
          RecvSize,   \* sizeof(dbgconrecvbuf), 1024
          MarkSize    \* length of dbgconoverflowstr, 16

ASSUME ConsoleAssumption ==
    /\ {SendSize, RecvSize, MarkSize} \subseteq Nat
    /\ MarkSize > 0 /\ SendSize > MarkSize + 1 /\ RecvSize > 1

MarkByte == -1
PadByte == -2     \* what follows the valid bytes of an answer
Fewer(a, b) == IF a < b THEN a ELSE b

EmptyRing(size) == [i \in 0 .. size - 1 |-> 0]

-----------------------------------------------------------------------------
(* From the threads to the monitor.                                        *)

dbgconsole_getfree(s) == (s.sendread - s.sendwrite - 1) % SendSize

\* The next n bytes are put into the ring from the write index on.
PutText(s, n) ==
    [s EXCEPT !.sendbuf = [i \in 0 .. SendSize - 1 |->
                              LET k == (i - s.sendwrite) % SendSize
                              IN  IF k < n THEN s.text + k + 1 ELSE @[i]],
              !.text = @ + n]

AdvanceWrite(s, n) == [s EXCEPT !.sendwrite = (@ + n) % SendSize]

\* What can be dropped of a full ring: the message must fit into the rest.
Droppable(length) == Fewer(length, SendSize - MarkSize - 1)

\* Variant: the oldest bytes go without the message.
DropSilently(s, n) == [s EXCEPT !.sendread = (@ + n) % SendSize]

\* The end of dbgconsole_makespace on a full ring: the oldest bytes go, and the message takes
\* the place of the next ones.
DropOldest(s, n) ==
    LET r == (s.sendread + n) % SendSize
    IN  [s EXCEPT !.sendread = r,
                  !.sendbuf = [i \in 0 .. SendSize - 1 |->
                                  IF (i - r) % SendSize < MarkSize THEN MarkByte ELSE @[i]]]

\* dbgconsole_swrite of what can be dropped at once, in a critical section.
dbgconsole_swrite(s, length) ==
    LET Write(t, n) == AdvanceWrite(PutText(t, n), n)
        now == Fewer(length, dbgconsole_getfree(s))
        t == Write(s, now)
    IN  IF now = length THEN t ELSE Write(DropOldest(t, length - now), length - now)

\* How many bytes the monitor finds when count are wanted.  dbgmemlen is unsigned, so when
\* the write index is below the read index it finds as many as are wanted.
Found(s, count) ==
    LET used == s.sendwrite - s.sendread
    IN  IF used < 0 \/ used > count THEN count ELSE used

Available(s) == (s.sendwrite - s.sendread) % SendSize

\* n bytes that the monitor takes out of the ring, and the ring without them.
Taken(s, n) == [i \in 1 .. n |-> s.sendbuf[(s.sendread + i - 1) % SendSize]]
Take(s, n) == [s EXCEPT !.sendread = (@ + n) % SendSize]

-----------------------------------------------------------------------------
(* From the monitor to the threads.                                        *)

RecvFree(s) == (s.recvread - s.recvwrite - 1) % RecvSize

dbgconsole_getavailable(s) == (s.recvwrite - s.recvread) % RecvSize

\* n bytes of the host are put into the ring.
Typed(s, n) ==
    [s EXCEPT !.recvbuf = [i \in 0 .. RecvSize - 1 |->
                              LET k == (i - s.recvwrite) % RecvSize
                              IN  IF k < n THEN s.typed + k + 1 ELSE @[i]],
              !.typed = @ + n,
              !.recvwrite = (@ + n) % RecvSize]

\* What dbgconsole_read and dbgconsole_getc take out of the ring, and the ring without it.
Heard(s, n) == [i \in 1 .. n |-> s.recvbuf[(s.recvread + i - 1) % RecvSize]]
Hear(s, n) == [s EXCEPT !.recvread = (@ + n) % RecvSize]
=============================================================================
