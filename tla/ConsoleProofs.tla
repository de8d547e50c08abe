---------------------------- MODULE ConsoleProofs ----------------------------
(***************************************************************************)
(* The debug console loses nothing silently and repeats nothing            *)
(* (ConsoleInOrder), for any sizes of packets and rings and any workload.  *)
(*                                                                         *)
(* What a ring holds goes on from what was read of it: of the text, the    *)
(* rest of the overflow message and then the bytes in the order in which   *)
(* they were written, behind what the host has seen with the packet that   *)
(* is on its way to it.  The invariant says this of every state between    *)
(* the steps of a writer, which copies first and then moves the index, and *)
(* says besides that only one thread writes, that what it is about to      *)
(* write has room, that a request for text is never answered with          *)
(* something else, and that the data that the host still types have room.  *)
(***************************************************************************)
EXTENDS UsbProofs, FoldProofs

\* The place of the byte that is k after index r, seen from index w.
LEMMA Distance ==
    ASSUME NEW n \in Nat \ {0}, NEW r \in 0 .. n - 1, NEW w \in 0 .. n - 1, NEW k \in 0 .. n - 1
    PROVE  LET a == (w - r) % n
           IN  (((r + k) % n) - w) % n = IF k >= a THEN k - a ELSE k - a + n
<1> DEFINE a == (w - r) % n
           i == (r + k) % n
<1>1. (w >= r => a = w - r) /\ (w < r => a = w - r + n)
  OBVIOUS
<1>2. (r + k < n => i = r + k) /\ (r + k >= n => i = r + k - n)
  OBVIOUS
<1> HIDE DEF i
<1>3. (i >= w => (i - w) % n = i - w) /\ (i < w => (i - w) % n = i - w + n)
  <2>1. i \in 0 .. n - 1
    BY <1>2
  <2> QED
    BY <2>1
<1> HIDE DEF a
<1> DEFINE d == (i - w) % n
<1> HIDE DEF d
<1>4. (i >= w => d = i - w) /\ (i < w => d = i - w + n)
  BY <1>3 DEF d
<1>5. d = IF k >= a THEN k - a ELSE k - a + n
  BY <1>1, <1>2, <1>4
<1> QED
  BY <1>5 DEF a, i, d

\* Indices that move.
LEMMA IndicesMove ==
    ASSUME NEW n \in Nat \ {0}, NEW r \in 0 .. n - 1, NEW w \in 0 .. n - 1, NEW m \in 0 .. n - 1
    PROVE  /\ (r + m) % n \in 0 .. n - 1
           /\ m <= (w - r) % n => (w - ((r + m) % n)) % n = ((w - r) % n) - m
           /\ ((w - r) % n) + m <= n - 1 => (((w + m) % n) - r) % n = ((w - r) % n) + m
           /\ (r - w - 1) % n = n - 1 - ((w - r) % n)
           /\ (w - r) % n \in 0 .. n - 1
<1> DEFINE a == (w - r) % n
           i == (r + m) % n
           j == (w + m) % n
<1>1. (w >= r => a = w - r) /\ (w < r => a = w - r + n)
  OBVIOUS
<1>2. (r + m < n => i = r + m) /\ (r + m >= n => i = r + m - n)
  OBVIOUS
<1>3. (w + m < n => j = w + m) /\ (w + m >= n => j = w + m - n)
  OBVIOUS
<1> HIDE DEF a, i, j
<1>4. a \in 0 .. n - 1 /\ i \in 0 .. n - 1 /\ j \in 0 .. n - 1
  BY <1>1, <1>2, <1>3
<1>5. ASSUME m <= a PROVE (w - i) % n = a - m
  <2> DEFINE x == (w - i) % n
  <2>1. (w >= i => x = w - i) /\ (w < i => x = w - i + n)
    BY <1>4
  <2> HIDE DEF x
  <2>2. x = a - m
    BY <1>1, <1>2, <1>5, <2>1
  <2> QED
    BY <2>2 DEF x
<1>6. ASSUME a + m <= n - 1 PROVE (j - r) % n = a + m
  <2> DEFINE x == (j - r) % n
  <2>1. (j >= r => x = j - r) /\ (j < r => x = j - r + n)
    BY <1>4
  <2> HIDE DEF x
  <2>2. x = a + m
    BY <1>1, <1>3, <1>6, <2>1
  <2> QED
    BY <2>2 DEF x
<1>7. (r - w - 1) % n = n - 1 - a
  <2> DEFINE x == (r - w - 1) % n
  <2>1. (r - w - 1 >= 0 => x = r - w - 1) /\ (r - w - 1 < 0 => x = r - w - 1 + n)
    OBVIOUS
  <2> HIDE DEF x
  <2>2. x = n - 1 - a
    BY <1>1, <2>1
  <2> QED
    BY <2>2 DEF x
<1> QED
  BY <1>4, <1>5, <1>6, <1>7 DEF a, i, j

\* The read index goes m on.
LEMMA ReadMoves ==
    ASSUME NEW n \in Nat \ {0}, NEW r \in 0 .. n - 1, NEW w \in 0 .. n - 1, NEW m \in 0 .. n - 1,
           m <= (w - r) % n
    PROVE  (w - ((r + m) % n)) % n = ((w - r) % n) - m
BY IndicesMove, ZenonT(60)

\* The write index goes m on.
LEMMA WriteMoves ==
    ASSUME NEW n \in Nat \ {0}, NEW r \in 0 .. n - 1, NEW w \in 0 .. n - 1, NEW m \in 0 .. n - 1,
           ((w - r) % n) + m <= n - 1
    PROVE  (((w + m) % n) - r) % n = ((w - r) % n) + m
BY IndicesMove, ZenonT(60)

\* Byte k after that is byte m + k.
LEMMA FarMoves ==
    ASSUME NEW n \in Nat \ {0}, NEW r \in 0 .. n - 1, NEW m \in 0 .. n - 1,
           NEW k \in 0 .. n - 1, m + k <= n - 1
    PROVE  (((r + m) % n) + k) % n = (r + (m + k)) % n
<1> DEFINE i == (r + m) % n
           x == (i + k) % n
           y == (r + (m + k)) % n
<1>1. (r + m < n => i = r + m) /\ (r + m >= n => i = r + m - n)
  OBVIOUS
<1> HIDE DEF i
<1>2. (i + k < n => x = i + k) /\ (i + k >= n => x = i + k - n)
  <2>1. i \in 0 .. n - 1
    BY <1>1
  <2> QED
    BY <2>1
<1>3. (r + (m + k) < n => y = r + (m + k)) /\ (r + (m + k) >= n => y = r + (m + k) - n)
  OBVIOUS
<1> HIDE DEF x, y
<1>4. x = y
  BY <1>1, <1>2, <1>3
<1> QED
  BY <1>4 DEF i, x, y

-----------------------------------------------------------------------------
(* Folds over the bytes of a text.                                         *)

\* What the host has seen, byte by byte.
Seen == [last : Int, marks : 0 .. MarkSize, ok : BOOLEAN]

\* A byte more.
LEMMA SeeTypes == ASSUME NEW seen \in Seen, NEW byte \in Int PROVE See(seen, byte) \in Seen
<1>1. MarkSize \in Nat
  BY Sizes
<1>2. Lesser(seen.marks + 1, MarkSize) \in 0 .. MarkSize
  BY <1>1 DEF Seen, Lesser
<1>3. (seen.ok /\ (byte = seen.last + 1 \/ (byte > seen.last /\ seen.marks = MarkSize))) \in BOOLEAN
  BY Zenon
<1>4. 0 \in 0 .. MarkSize
  BY <1>1
<1> QED
  BY <1>2, <1>3, <1>4 DEF See, Seen

\* A whole text.
SeeAll(seen, text) == FoldLeft(See, seen, text)

\* There is a function f of them: f[k] is what the host has seen after k bytes.
LEMMA SeeFold ==
    ASSUME NEW seen \in Seen, NEW text \in Seq(Int)
    PROVE  \E f : /\ f[0] = seen /\ f[Len(text)] = SeeAll(seen, text)
                  /\ \A i \in 1 .. Len(text) : f[i] = See(f[i - 1], text[i])
                  /\ \A i \in 0 .. Len(text) : f[i] \in Seen
<1> DEFINE l == Len(text)
           step == [i \in 1 .. l |-> [x \in Seen |-> See(x, text[i])]]
           Is(iter) == iter = [S \in SUBSET DOMAIN text |->
                                  IF S = {} THEN seen ELSE See(iter[S \ {Max(S)}], text[Max(S)])]
           fold == CHOOSE iter : Is(iter)
<1>1. l \in Nat /\ DOMAIN text = 1 .. l
  OBVIOUS
<1>0. \A i \in 1 .. l : text[i] \in Int
  OBVIOUS
<1> HIDE DEF l
<1>2. step \in [1 .. l -> [Seen -> Seen]]
  BY <1>0, SeeTypes
<1>3. \A i \in 1 .. l, x \in Seen : step[i][x] = See(x, text[i])
  OBVIOUS
<1>4. SeeAll(seen, text) = fold[1 .. l]
  BY <1>1 DEF SeeAll, FoldLeft, MapThenFoldSet
<1> HIDE DEF step
<1>5. PICK iter \in [SUBSET (1 .. l) -> Seen] : Iterates(iter, l, seen, step)
  BY <1>1, <1>2, Iteration
<1>6. ASSUME NEW S \in SUBSET (1 .. l), S # {}
      PROVE  step[Max(S)][iter[S \ {Max(S)}]] = See(iter[S \ {Max(S)}], text[Max(S)])
  <2>1. Max(S) \in 1 .. l
    BY <1>1, <1>6, Largest
  <2>2. S \ {Max(S)} \in SUBSET (1 .. l)
    OBVIOUS
  <2>3. iter[S \ {Max(S)}] \in Seen
    BY <1>5, <2>2
  <2> QED
    BY <1>3, <2>1, <2>3
<1>7. Is(iter)
  BY <1>1, <1>5, <1>6 DEF Iterates
<1>8. Is(fold)
  BY <1>7
<1> HIDE DEF fold
<1> DEFINE f == [i \in 0 .. l |-> fold[1 .. i]]
           S == {i \in 0 .. l : f[i] \in Seen}
<1>9. f[0] = seen
  <2>1. 1 .. 0 = {} /\ {} \in SUBSET (1 .. l) /\ 0 \in 0 .. l
    BY <1>1
  <2>2. fold[{}] = seen
    BY <1>1, <1>8, <2>1
  <2> QED
    BY <2>1, <2>2
<1>10. ASSUME NEW i \in 1 .. l PROVE f[i] = See(f[i - 1], text[i])
  <2>1. /\ 1 .. i \in SUBSET (1 .. l) /\ 1 .. i # {}
        /\ Max(1 .. i) = i /\ (1 .. i) \ {i} = 1 .. i - 1
    BY <1>1, Prefix
  <2>2. fold[1 .. i] = See(fold[1 .. i - 1], text[i])
    BY <1>1, <1>8, <2>1
  <2>3. i \in 0 .. l /\ i - 1 \in 0 .. l
    BY <1>1
  <2> QED
    BY <2>2, <2>3
<1>11. f[l] = SeeAll(seen, text)
  BY <1>1, <1>4
<1> HIDE DEF f
<1>12. \A i \in 0 .. l : i \in S
  <2>1. 0 \in S
    BY <1>1, <1>9
  <2>2. ASSUME NEW i \in 1 .. l, i - 1 \in S PROVE i \in S
    <3>1. f[i - 1] \in Seen /\ i \in 0 .. l
      BY <1>1, <2>2
    <3> QED
      BY <1>0, <1>10, <3>1, SeeTypes
  <2> HIDE DEF S
  <2> QED
    BY <1>1, <2>1, <2>2, UpTo
<1>13. \A i \in 0 .. l : f[i] \in Seen
  BY <1>12
<1> QED
  BY <1>9, <1>10, <1>11, <1>13 DEF l

\* What a thread has read, byte by byte.
Readers == [last : Int, ok : BOOLEAN]

\* A byte more.
LEMMA ListenTypes == ASSUME NEW r \in Readers, NEW byte \in Int PROVE Listen(r, byte) \in Readers
<1>1. (r.ok /\ byte = r.last + 1) \in BOOLEAN
  BY Zenon
<1> QED
  BY <1>1 DEF Listen, Readers

\* A whole text.
ListenAll(r, text) == FoldLeft(Listen, r, text)

\* There is a function f of them: f[k] is what the thread has read after k bytes.
LEMMA ListenFold ==
    ASSUME NEW base \in Readers, NEW text \in Seq(Int)
    PROVE  \E f : /\ f[0] = base /\ f[Len(text)] = ListenAll(base, text)
                  /\ \A i \in 1 .. Len(text) : f[i] = Listen(f[i - 1], text[i])
                  /\ \A i \in 0 .. Len(text) : f[i] \in Readers
<1> DEFINE l == Len(text)
           step == [i \in 1 .. l |-> [x \in Readers |-> Listen(x, text[i])]]
           Is(iter) == iter = [S \in SUBSET DOMAIN text |->
                                  IF S = {} THEN base ELSE Listen(iter[S \ {Max(S)}], text[Max(S)])]
           fold == CHOOSE iter : Is(iter)
<1>1. l \in Nat /\ DOMAIN text = 1 .. l
  OBVIOUS
<1>0. \A i \in 1 .. l : text[i] \in Int
  OBVIOUS
<1> HIDE DEF l
<1>2. step \in [1 .. l -> [Readers -> Readers]]
  BY <1>0, ListenTypes
<1>3. \A i \in 1 .. l, x \in Readers : step[i][x] = Listen(x, text[i])
  OBVIOUS
<1>4. ListenAll(base, text) = fold[1 .. l]
  BY <1>1 DEF ListenAll, FoldLeft, MapThenFoldSet
<1> HIDE DEF step
<1>5. PICK iter \in [SUBSET (1 .. l) -> Readers] : Iterates(iter, l, base, step)
  BY <1>1, <1>2, Iteration
<1>6. ASSUME NEW S \in SUBSET (1 .. l), S # {}
      PROVE  step[Max(S)][iter[S \ {Max(S)}]] = Listen(iter[S \ {Max(S)}], text[Max(S)])
  <2>1. Max(S) \in 1 .. l
    BY <1>1, <1>6, Largest
  <2>2. S \ {Max(S)} \in SUBSET (1 .. l)
    OBVIOUS
  <2>3. iter[S \ {Max(S)}] \in Readers
    BY <1>5, <2>2
  <2> QED
    BY <1>3, <2>1, <2>3
<1>7. Is(iter)
  BY <1>1, <1>5, <1>6 DEF Iterates
<1>8. Is(fold)
  BY <1>7
<1> HIDE DEF fold
<1> DEFINE f == [i \in 0 .. l |-> fold[1 .. i]]
           S == {i \in 0 .. l : f[i] \in Readers}
<1>9. f[0] = base
  <2>1. 1 .. 0 = {} /\ {} \in SUBSET (1 .. l) /\ 0 \in 0 .. l
    BY <1>1
  <2>2. fold[{}] = base
    BY <1>1, <1>8, <2>1
  <2> QED
    BY <2>1, <2>2
<1>10. ASSUME NEW i \in 1 .. l PROVE f[i] = Listen(f[i - 1], text[i])
  <2>1. /\ 1 .. i \in SUBSET (1 .. l) /\ 1 .. i # {}
        /\ Max(1 .. i) = i /\ (1 .. i) \ {i} = 1 .. i - 1
    BY <1>1, Prefix
  <2>2. fold[1 .. i] = Listen(fold[1 .. i - 1], text[i])
    BY <1>1, <1>8, <2>1
  <2>3. i \in 0 .. l /\ i - 1 \in 0 .. l
    BY <1>1
  <2> QED
    BY <2>2, <2>3
<1>11. f[l] = ListenAll(base, text)
  BY <1>1, <1>4
<1> HIDE DEF f
<1>12. \A i \in 0 .. l : i \in S
  <2>1. 0 \in S
    BY <1>1, <1>9
  <2>2. ASSUME NEW i \in 1 .. l, i - 1 \in S PROVE i \in S
    <3>1. f[i - 1] \in Readers /\ i \in 0 .. l
      BY <1>1, <2>2
    <3> QED
      BY <1>0, <1>10, <3>1, ListenTypes
  <2> HIDE DEF S
  <2> QED
    BY <1>1, <2>1, <2>2, UpTo
<1>13. \A i \in 0 .. l : f[i] \in Readers
  BY <1>12
<1> QED
  BY <1>9, <1>10, <1>11, <1>13 DEF l

-----------------------------------------------------------------------------
(* The text that is on its way to the host.                                *)

\* Byte k of those that wait in the ring.
Byte(t, k) == t.sendbuf[(t.sendread + k) % SendSize]

\* In the ring there are the last c bytes of the overflow message and then the text from byte
\* next on; p bytes have been copied behind it that the write index does not show yet.
Ordered(t, c, next, p) ==
    /\ c <= Available(t) /\ Available(t) + p <= SendSize - 1
    /\ t.text = next + (Available(t) - c) - 1 + p
    /\ \A k \in 0 .. Available(t) + p - 1 : Byte(t, k) = IF k < c THEN MarkByte ELSE next + (k - c)

\* What is in the ring.
LEMMA RingFacts ==
    ASSUME NEW t, Rings(t)
    PROVE  /\ SendSize \in Nat \ {0} /\ MarkSize \in Nat \ {0} /\ SendSize > MarkSize + 1
           /\ t.sendread \in 0 .. SendSize - 1 /\ t.sendwrite \in 0 .. SendSize - 1 /\ t.text \in Int
           /\ t.sendbuf \in [0 .. SendSize - 1 -> Int]
           /\ Available(t) = (t.sendwrite - t.sendread) % SendSize
           /\ Available(t) \in 0 .. SendSize - 1
           /\ dbgconsole_getfree(t) = SendSize - 1 - Available(t)
<1>1. /\ SendSize \in Nat \ {0} /\ MarkSize \in Nat \ {0} /\ SendSize > MarkSize + 1
      /\ t.sendread \in 0 .. SendSize - 1 /\ t.sendwrite \in 0 .. SendSize - 1 /\ t.text \in Int
      /\ t.sendbuf \in [0 .. SendSize - 1 -> Int]
  BY Sizes DEF Rings
<1>2. 0 \in 0 .. SendSize - 1
  BY <1>1
<1>3. /\ (t.sendread - t.sendwrite - 1) % SendSize = SendSize - 1 - ((t.sendwrite - t.sendread) % SendSize)
      /\ (t.sendwrite - t.sendread) % SendSize \in 0 .. SendSize - 1
  BY <1>1, <1>2, IndicesMove, ZenonT(60)
<1> QED
  BY <1>1, <1>3 DEF Available, dbgconsole_getfree

\* Text is copied into the free part of the ring.
LEMMA PutOrdered ==
    ASSUME NEW t, Device(t), Rings(t), NEW c \in Nat, NEW next \in Nat, Ordered(t, c, next, 0),
           NEW p \in Nat, p <= dbgconsole_getfree(t)
    PROVE  Ordered(PutText(t, p), c, next, p)
<1> DEFINE u == PutText(t, p)
           a == Available(t)
<1>1. /\ SendSize \in Nat \ {0}
      /\ t.sendread \in 0 .. SendSize - 1 /\ t.sendwrite \in 0 .. SendSize - 1 /\ t.text \in Int
      /\ a = (t.sendwrite - t.sendread) % SendSize
      /\ a \in 0 .. SendSize - 1 /\ dbgconsole_getfree(t) = SendSize - 1 - a
  BY RingFacts
<1>2. /\ u.sendread = t.sendread /\ u.sendwrite = t.sendwrite /\ u.text = t.text + p
      /\ \A i \in 0 .. SendSize - 1 :
            u.sendbuf[i] = IF (i - t.sendwrite) % SendSize < p
                           THEN t.text + ((i - t.sendwrite) % SendSize) + 1 ELSE t.sendbuf[i]
  BY DEF PutText, Device, StaticFields
<1>3. Available(u) = a
  BY <1>2 DEF Available
<1> HIDE DEF u, a
<1>4. /\ c <= a /\ t.text = next + (a - c) - 1
      /\ \A k \in 0 .. a - 1 : Byte(t, k) = IF k < c THEN MarkByte ELSE next + (k - c)
  BY <1>1 DEF Ordered, a
<1>5. a + p <= SendSize - 1
  BY <1>1
<1>6. ASSUME NEW k \in 0 .. a + p - 1 PROVE Byte(u, k) = IF k < c THEN MarkByte ELSE next + (k - c)
  <2> DEFINE i == (t.sendread + k) % SendSize
             d == (i - t.sendwrite) % SendSize
  <2>1. k \in 0 .. SendSize - 1
    BY <1>1, <1>5
  <2>2. i \in 0 .. SendSize - 1
    BY <1>1, <2>1, IndicesMove, ZenonT(60)
  <2>3. d = IF k >= a THEN k - a ELSE k - a + SendSize
    BY <1>1, <2>1, Distance, ZenonT(60)
  <2>4. Byte(u, k) = u.sendbuf[i] /\ Byte(t, k) = t.sendbuf[i]
    BY <1>2 DEF Byte
  <2>5. Byte(u, k) = IF d < p THEN t.text + d + 1 ELSE Byte(t, k)
    BY <1>2, <2>2, <2>4
  <2> HIDE DEF d, i
  <2>6. CASE k >= a
    <3>1. d = k - a /\ d < p
      BY <1>1, <2>1, <2>3, <2>6
    <3>2. Byte(u, k) = t.text + d + 1 /\ ~(k < c)
      BY <1>1, <1>4, <2>5, <2>6, <3>1
    <3>3. t.text + d + 1 = next + (k - c)
      BY <1>1, <1>4, <2>1, <3>1
    <3> QED
      BY <3>2, <3>3
  <2>7. CASE ~(k >= a)
    <3>1. ~(d < p) /\ k \in 0 .. a - 1
      BY <1>1, <1>5, <2>1, <2>3, <2>7
    <3> QED
      BY <1>4, <2>5, <3>1
  <2> QED
    BY <2>6, <2>7
<1>7. u.text = next + (a - c) - 1 + p
  BY <1>1, <1>2, <1>4
<1>8. Ordered(u, c, next, p)
  BY <1>3, <1>4, <1>5, <1>6, <1>7 DEF Ordered
<1> QED
  BY <1>8 DEF u

\* The write index goes over what was copied.
LEMMA AdvanceOrdered ==
    ASSUME NEW t, Device(t), Rings(t), NEW c \in Nat, NEW next \in Nat, NEW p \in Nat, Ordered(t, c, next, p)
    PROVE  /\ Ordered(AdvanceWrite(t, p), c, next, 0)
           /\ Available(AdvanceWrite(t, p)) = Available(t) + p
<1> DEFINE u == AdvanceWrite(t, p)
           a == Available(t)
<1>1. /\ SendSize \in Nat \ {0}
      /\ t.sendread \in 0 .. SendSize - 1 /\ t.sendwrite \in 0 .. SendSize - 1 /\ t.text \in Int
      /\ a = (t.sendwrite - t.sendread) % SendSize
      /\ a \in 0 .. SendSize - 1
  BY RingFacts
<1>2. /\ u.sendread = t.sendread /\ u.sendwrite = (t.sendwrite + p) % SendSize /\ u.text = t.text
      /\ u.sendbuf = t.sendbuf
  BY DEF AdvanceWrite, Device, StaticFields
<1>3. Available(u) = (((t.sendwrite + p) % SendSize) - t.sendread) % SendSize
  BY <1>2 DEF Available
<1>4. \A k : Byte(u, k) = Byte(t, k)
  BY <1>2 DEF Byte
<1>5. /\ c <= a /\ a + p <= SendSize - 1 /\ t.text = next + (a - c) - 1 + p
      /\ \A k \in 0 .. a + p - 1 : Byte(t, k) = IF k < c THEN MarkByte ELSE next + (k - c)
  BY DEF Ordered
<1> HIDE DEF u
<1>6. p \in 0 .. SendSize - 1 /\ ((t.sendwrite - t.sendread) % SendSize) + p <= SendSize - 1
  <2> HIDE DEF a
  <2>1. p \in 0 .. SendSize - 1
    BY <1>1, <1>5
  <2> QED
    BY <1>1, <1>5, <2>1
<1>7. Available(u) = ((t.sendwrite - t.sendread) % SendSize) + p
  BY <1>1, <1>3, <1>6, WriteMoves, ZenonT(60)
<1> HIDE DEF a
<1>8. Available(u) = a + p
  BY <1>1, <1>7
<1> DEFINE b == Available(u)
<1>9. b = a + p /\ c <= b /\ b + 0 <= SendSize - 1 /\ u.text = next + (b - c) - 1 + 0 /\ b + 0 - 1 = a + p - 1
  BY <1>1, <1>2, <1>5, <1>8
<1>10. Ordered(u, c, next, 0)
  <2> HIDE DEF b
  <2>1. \A k \in 0 .. b + 0 - 1 : Byte(u, k) = IF k < c THEN MarkByte ELSE next + (k - c)
    BY <1>4, <1>5, <1>9
  <2> QED
    BY <1>9, <2>1 DEF Ordered, b
<1> QED
  BY <1>8, <1>10 DEF u, a

\* The oldest bytes go, the next ones become the message.
LEMMA DropOrdered ==
    ASSUME NEW t, Device(t), Rings(t), NEW c \in 0 .. MarkSize, NEW next \in Nat, Ordered(t, c, next, 0),
           NEW n \in Nat, n + MarkSize <= Available(t)
    PROVE  /\ Ordered(DropOldest(t, n), MarkSize, next + (n + MarkSize - c), 0)
           /\ Available(DropOldest(t, n)) = Available(t) - n
<1> DEFINE u == DropOldest(t, n)
           a == Available(t)
           r == (t.sendread + n) % SendSize
           b == Available(u)
<1>1. /\ SendSize \in Nat \ {0} /\ MarkSize \in Nat \ {0}
      /\ t.sendread \in 0 .. SendSize - 1 /\ t.sendwrite \in 0 .. SendSize - 1 /\ t.text \in Int
      /\ a = (t.sendwrite - t.sendread) % SendSize
      /\ a \in 0 .. SendSize - 1
  BY RingFacts
<1>2. /\ u.sendread = r /\ u.sendwrite = t.sendwrite /\ u.text = t.text
      /\ \A i \in 0 .. SendSize - 1 :
            u.sendbuf[i] = IF (i - r) % SendSize < MarkSize THEN MarkByte ELSE t.sendbuf[i]
  BY DEF DropOldest, Device, StaticFields
<1>3. b = (t.sendwrite - ((t.sendread + n) % SendSize)) % SendSize
  BY <1>2 DEF Available
<1>4. /\ c <= a /\ t.text = next + (a - c) - 1
      /\ \A k \in 0 .. a - 1 : Byte(t, k) = IF k < c THEN MarkByte ELSE next + (k - c)
  <2>1. /\ c <= a /\ t.text = next + (a - c) - 1 + 0
        /\ \A k \in 0 .. a + 0 - 1 : Byte(t, k) = IF k < c THEN MarkByte ELSE next + (k - c)
    BY DEF Ordered
  <2> HIDE DEF a
  <2>2. a + 0 - 1 = a - 1 /\ next + (a - c) - 1 + 0 = next + (a - c) - 1
    BY <1>1
  <2> QED
    BY <2>1, <2>2
<1> HIDE DEF u, a
<1>5. n \in 0 .. SendSize - 1 /\ n <= a
  BY <1>1 DEF a
<1>6. n <= (t.sendwrite - t.sendread) % SendSize
  BY <1>1, <1>5
<1>7. b = ((t.sendwrite - t.sendread) % SendSize) - n /\ r \in 0 .. SendSize - 1
  <2>1. (t.sendwrite - ((t.sendread + n) % SendSize)) % SendSize = ((t.sendwrite - t.sendread) % SendSize) - n
    BY <1>1, <1>5, <1>6, ReadMoves, ZenonT(60)
  <2>2. r \in 0 .. SendSize - 1
    BY <1>1, <1>5, IndicesMove, ZenonT(60)
  <2> QED
    BY <1>3, <2>1, <2>2
<1> HIDE DEF b
<1>8. b = a - n /\ b >= MarkSize /\ n + MarkSize <= a
  BY <1>1, <1>7 DEF a
<1>9. ASSUME NEW k \in 0 .. b - 1
      PROVE  Byte(u, k) = IF k < MarkSize THEN MarkByte ELSE next + (n + MarkSize - c) + (k - MarkSize)
  <2> DEFINE i == (r + k) % SendSize
             m == n + k
  <2>1. k \in 0 .. SendSize - 1 /\ m <= SendSize - 1 /\ m \in 0 .. a - 1
    BY <1>1, <1>5, <1>8
  <2>2. i = (t.sendread + m) % SendSize
    BY <1>1, <1>5, <2>1, FarMoves, ZenonT(60)
  <2>3. i \in 0 .. SendSize - 1 /\ (r - r) % SendSize = 0
    <3> HIDE DEF r
    <3>1. i \in 0 .. SendSize - 1
      BY <1>1, <1>7, <2>1, IndicesMove, ZenonT(60)
    <3>2. r - r = 0 /\ 0 % SendSize = 0
      BY <1>1, <1>7
    <3> QED
      BY <3>1, <3>2
  <2>4. (i - r) % SendSize = k
    <3> HIDE DEF r
    <3>1. (i - r) % SendSize = IF k >= (r - r) % SendSize THEN k - ((r - r) % SendSize)
                               ELSE k - ((r - r) % SendSize) + SendSize
      BY <1>1, <1>7, <2>1, Distance, ZenonT(60)
    <3>2. k >= 0 /\ k - 0 = k
      OBVIOUS
    <3> QED
      BY <2>3, <3>1, <3>2
  <2>5. Byte(u, k) = u.sendbuf[i]
    BY <1>2 DEF Byte
  <2>6. Byte(t, m) = t.sendbuf[i]
    BY <2>2 DEF Byte
  <2> HIDE DEF i, r
  <2>7. Byte(u, k) = IF k < MarkSize THEN MarkByte ELSE Byte(t, m)
    BY <1>2, <2>3, <2>4, <2>5, <2>6
  <2>8. CASE ~(k < MarkSize)
    <3>1. ~(m < c) /\ next + (m - c) = next + (n + MarkSize - c) + (k - MarkSize)
      BY <1>1, <2>8
    <3>2. Byte(t, m) = next + (m - c)
      BY <1>4, <2>1, <3>1
    <3> QED
      BY <2>7, <2>8, <3>1, <3>2
  <2> QED
    BY <2>7, <2>8
<1> DEFINE next2 == next + (n + MarkSize - c)
<1>10. MarkSize <= b /\ b + 0 <= SendSize - 1 /\ u.text = next2 + (b - MarkSize) - 1 + 0 /\ b + 0 - 1 = b - 1
  BY <1>1, <1>2, <1>4, <1>8
<1> HIDE DEF next2
<1>11. \A k \in 0 .. b + 0 - 1 : Byte(u, k) = IF k < MarkSize THEN MarkByte ELSE next2 + (k - MarkSize)
  BY <1>9, <1>10 DEF next2
<1>12. Ordered(u, MarkSize, next2, 0)
  BY <1>10, <1>11 DEF Ordered, b
<1> QED
  BY <1>8, <1>12 DEF u, a, b, next2

\* What is left of the message, and the next byte of the text, after n bytes.
CountAfter(c, n) == IF n < c THEN c - n ELSE 0
NextAfter(c, next, n) == IF n < c THEN next ELSE next + (n - c)

\* The monitor takes n bytes.
LEMMA TakeOrdered ==
    ASSUME NEW t, Rings(t), NEW n \in Nat, n <= Available(t),
           NEW u, u.sendread = (t.sendread + n) % SendSize,
           u.sendwrite = t.sendwrite, u.sendbuf = t.sendbuf, u.text = t.text,
           NEW c \in Nat, NEW next \in Nat, NEW p \in Nat, Ordered(t, c, next, p)
    PROVE  /\ Ordered(u, CountAfter(c, n), NextAfter(c, next, n), p)
           /\ Available(u) = Available(t) - n
<1> DEFINE a == Available(t)
           b == Available(u)
           r == (t.sendread + n) % SendSize
           c2 == CountAfter(c, n)
           next2 == NextAfter(c, next, n)
<1>1. /\ SendSize \in Nat \ {0}
      /\ t.sendread \in 0 .. SendSize - 1 /\ t.sendwrite \in 0 .. SendSize - 1 /\ t.text \in Int
      /\ a = (t.sendwrite - t.sendread) % SendSize
      /\ a \in 0 .. SendSize - 1
  BY RingFacts
<1>2. b = (t.sendwrite - ((t.sendread + n) % SendSize)) % SendSize
  BY DEF Available
<1>3. /\ c <= a /\ a + p <= SendSize - 1 /\ t.text = next + (a - c) - 1 + p
      /\ \A k \in 0 .. a + p - 1 : Byte(t, k) = IF k < c THEN MarkByte ELSE next + (k - c)
  BY DEF Ordered
<1>4. n \in 0 .. SendSize - 1 /\ n <= (t.sendwrite - t.sendread) % SendSize
  BY <1>1
<1>5. b = ((t.sendwrite - t.sendread) % SendSize) - n /\ r \in 0 .. SendSize - 1
  <2>1. (t.sendwrite - ((t.sendread + n) % SendSize)) % SendSize = ((t.sendwrite - t.sendread) % SendSize) - n
    BY <1>1, <1>4, ReadMoves, ZenonT(60)
  <2>2. r \in 0 .. SendSize - 1
    BY <1>1, <1>4, IndicesMove, ZenonT(60)
  <2> QED
    BY <1>2, <2>1, <2>2
<1>6. n <= a
  OBVIOUS
<1> HIDE DEF a, b
<1>7. b = a - n
  BY <1>1, <1>5
<1>8. /\ c2 = (IF n < c THEN c - n ELSE 0) /\ next2 = (IF n < c THEN next ELSE next + (n - c))
  BY DEF CountAfter, NextAfter
<1> HIDE DEF c2, next2
<1>9. ASSUME NEW k \in 0 .. b + p - 1
      PROVE  Byte(u, k) = IF k < c2 THEN MarkByte ELSE next2 + (k - c2)
  <2> DEFINE m == n + k
  <2>1. k \in 0 .. SendSize - 1 /\ m <= SendSize - 1 /\ m \in 0 .. a + p - 1
    BY <1>1, <1>3, <1>4, <1>6, <1>7
  <2>2. (r + k) % SendSize = (t.sendread + m) % SendSize
    BY <1>1, <1>4, <2>1, FarMoves, ZenonT(60)
  <2>3. Byte(u, k) = Byte(t, m)
    BY <2>2 DEF Byte
  <2>4. Byte(t, m) = IF m < c THEN MarkByte ELSE next + (m - c)
    BY <1>3, <2>1
  <2>5. (m < c <=> k < c2) /\ (~(m < c) => next + (m - c) = next2 + (k - c2))
    BY <1>8, <2>1
  <2> QED
    BY <2>3, <2>4, <2>5
<1>10. c2 <= b /\ b + p <= SendSize - 1 /\ u.text = next2 + (b - c2) - 1 + p
  BY <1>1, <1>3, <1>6, <1>7, <1>8
<1> QED
  BY <1>7, <1>9, <1>10 DEF Ordered, a, b, c2, next2

-----------------------------------------------------------------------------
(* What the host makes of it.                                              *)

\* After what the host has seen, the last c bytes of the message and the text from byte next
\* on leave nothing out that the message does not stand for.
Follows(seen, c, next) ==
    /\ seen \in Seen /\ seen.ok /\ seen.last < next
    /\ seen.last + 1 = next \/ seen.marks + c >= MarkSize

\* The host sees a byte of the message.
LEMMA SeeMark ==
    ASSUME NEW seen, NEW c \in 1 .. MarkSize, NEW next \in Nat, Follows(seen, c, next)
    PROVE  Follows(See(seen, MarkByte), c - 1, next)
<1> DEFINE z == See(seen, MarkByte)
<1>1. MarkSize \in Nat /\ seen \in Seen /\ seen.last \in Int /\ seen.marks \in 0 .. MarkSize
  BY Sizes DEF Follows, Seen
<1>2. z = [seen EXCEPT !.marks = Lesser(@ + 1, MarkSize)]
  BY DEF See, MarkByte, PadByte
<1>3. z.last = seen.last /\ z.ok = seen.ok /\ z.marks = Lesser(seen.marks + 1, MarkSize)
  BY <1>1, <1>2 DEF Seen
<1>4. z \in Seen
  <2>1. MarkByte \in Int
    BY DEF MarkByte
  <2> QED
    BY <1>1, <2>1, SeeTypes
<1> HIDE DEF z
<1>5. seen.last < next /\ (seen.last + 1 = next \/ seen.marks + c >= MarkSize)
  BY DEF Follows
<1>6. seen.marks + c >= MarkSize => Lesser(seen.marks + 1, MarkSize) + (c - 1) >= MarkSize
  BY <1>1 DEF Lesser
<1>7. seen.ok
  BY DEF Follows
<1> QED
  BY <1>3, <1>4, <1>5, <1>6, <1>7 DEF Follows, z

\* It sees a byte of the text.
LEMMA SeeText ==
    ASSUME NEW seen, NEW next \in Nat \ {0}, Follows(seen, 0, next)
    PROVE  Follows(See(seen, next), 0, next + 1)
<1> DEFINE z == See(seen, next)
           right == next = seen.last + 1 \/ (next > seen.last /\ seen.marks = MarkSize)
<1>1. MarkSize \in Nat /\ seen \in Seen /\ seen.last \in Int /\ seen.marks \in 0 .. MarkSize
  BY Sizes DEF Follows, Seen
<1>2. seen.last < next /\ (seen.last + 1 = next \/ seen.marks + 0 >= MarkSize)
  BY DEF Follows
<1>3. right
  BY <1>1, <1>2
<1> HIDE DEF right
<1>4. next # MarkByte /\ next # PadByte /\ next \in Int
  BY DEF MarkByte, PadByte
<1>5. z = [last |-> next, marks |-> 0, ok |-> seen.ok /\ right]
  BY <1>4 DEF See, right
<1>6. z.last = next /\ z.ok = (seen.ok /\ right)
  BY <1>5
<1>7. z \in Seen
  BY <1>1, <1>4, SeeTypes
<1>8. z.ok
  BY <1>3, <1>6, Zenon DEF Follows
<1> HIDE DEF z
<1>9. next < next + 1
  OBVIOUS
<1> QED
  BY <1>6, <1>7, <1>8, <1>9 DEF Follows, z

\* It sees padding.
LEMMA SeePad == ASSUME NEW seen PROVE See(seen, PadByte) = seen
BY DEF See

\* A piece of the ring, with padding.
LEMMA SeePiece ==
    ASSUME NEW seen, NEW c \in 0 .. MarkSize, NEW next \in Nat \ {0}, Follows(seen, c, next),
           NEW text \in Seq(Int), NEW n \in Nat, n <= Len(text),
           \A i \in 1 .. n : text[i] = IF i <= c THEN MarkByte ELSE next + (i - 1 - c),
           \A i \in n + 1 .. Len(text) : text[i] = PadByte
    PROVE  Follows(SeeAll(seen, text), CountAfter(c, n), NextAfter(c, next, n))
<1> DEFINE l == Len(text)
<1>1. l \in Nat /\ MarkSize \in Nat /\ seen \in Seen /\ n <= l
  BY Sizes DEF Follows
<1>2. PICK f : /\ f[0] = seen /\ f[l] = SeeAll(seen, text)
               /\ \A i \in 1 .. l : f[i] = See(f[i - 1], text[i])
  BY <1>1, SeeFold
<1>3. \A i \in n + 1 .. l : text[i] = PadByte
  OBVIOUS
<1> HIDE DEF l
<1> DEFINE m(i) == Lesser(i, n)
           S == {i \in 0 .. l : Follows(f[i], CountAfter(c, m(i)), NextAfter(c, next, m(i)))}
<1>4. 0 \in S
  <2>1. m(0) = 0 /\ CountAfter(c, 0) = c /\ NextAfter(c, next, 0) = next
    BY <1>1 DEF Lesser, CountAfter, NextAfter
  <2> HIDE DEF m
  <2> QED
    BY <1>1, <1>2, <2>1
<1>5. ASSUME NEW i \in 1 .. l, i - 1 \in S PROVE i \in S
  <2>1. Follows(f[i - 1], CountAfter(c, m(i - 1)), NextAfter(c, next, m(i - 1))) /\ i \in 0 .. l
    BY <1>1, <1>5
  <2>2. f[i] = See(f[i - 1], text[i])
    BY <1>2
  <2>3. CASE i <= n /\ i <= c
    <3>1. /\ CountAfter(c, m(i - 1)) = c - i + 1 /\ CountAfter(c, m(i)) = (c - i + 1) - 1
          /\ NextAfter(c, next, m(i - 1)) = next /\ NextAfter(c, next, m(i)) = next
          /\ c - i + 1 \in 1 .. MarkSize
      BY <1>1, <2>3 DEF Lesser, CountAfter, NextAfter
    <3>2. text[i] = MarkByte
      BY <2>3
    <3> HIDE DEF m
    <3> DEFINE d == c - i + 1
    <3>3. d \in 1 .. MarkSize /\ Follows(f[i - 1], d, next)
      BY <2>1, <3>1
    <3> HIDE DEF d
    <3>4. Follows(f[i], d - 1, next)
      BY <2>2, <3>2, <3>3, SeeMark
    <3> QED
      BY <2>1, <3>1, <3>4 DEF d
  <2>4. CASE i <= n /\ ~(i <= c)
    <3> DEFINE x == next + (i - 1 - c)
    <3>1. /\ CountAfter(c, m(i - 1)) = 0 /\ CountAfter(c, m(i)) = 0
          /\ NextAfter(c, next, m(i - 1)) = x /\ NextAfter(c, next, m(i)) = x + 1
          /\ x \in Nat \ {0}
      BY <1>1, <2>4 DEF Lesser, CountAfter, NextAfter
    <3>2. text[i] = x
      BY <2>4
    <3> HIDE DEF m, x
    <3>3. Follows(f[i - 1], 0, x)
      BY <2>1, <3>1
    <3>4. Follows(f[i], 0, x + 1)
      BY <2>2, <3>1, <3>2, <3>3, SeeText
    <3> QED
      BY <2>1, <3>1, <3>4
  <2>5. CASE ~(i <= n)
    <3>1. i \in n + 1 .. l /\ m(i - 1) = n /\ m(i) = n
      BY <1>1, <2>5 DEF Lesser
    <3>2. f[i] = f[i - 1]
      BY <1>3, <2>2, <3>1, SeePad
    <3> HIDE DEF m
    <3> QED
      BY <2>1, <3>1, <3>2
  <2> QED
    BY <2>3, <2>4, <2>5
<1> HIDE DEF S
<1>6. l \in S
  <2>1. \A i \in 0 .. l : i \in S
    BY <1>1, <1>4, <1>5, UpTo
  <2> QED
    BY <1>1, <2>1
<1>7. m(l) = n
  BY <1>1 DEF Lesser
<1> HIDE DEF m
<1>8. Follows(f[l], CountAfter(c, m(l)), NextAfter(c, next, m(l)))
  BY <1>6 DEF S
<1> QED
  BY <1>2, <1>7, <1>8 DEF l

\* The bytes of a piece.
LEMMA PieceBytes ==
    ASSUME NEW t, Device(t), Rings(t), NEW size \in Nat, t.memlen <= t.count
    PROVE  LET text == ConsolePiece(t, size)
               n == Lesser(size, t.memlen)
           IN  /\ text \in Seq(Int) /\ n \in Nat /\ n <= Len(text)
               /\ \A i \in 1 .. n : text[i] = Byte(t, i - 1)
               /\ \A i \in n + 1 .. Len(text) : text[i] = PadByte
<1> DEFINE n == Lesser(size, t.memlen)
           m == Lesser(size, t.count)
           taken == Taken(t, n)
           padding == [i \in 1 .. m - n |-> PadByte]
<1>1. n \in Nat /\ m \in Nat /\ n <= m
  BY DEF Device, Lesser
<1> HIDE DEF n, m
<1>2. ASSUME NEW i \in 1 .. n PROVE t.sendbuf[(t.sendread + i - 1) % SendSize] \in Int
  <2>1. t.sendread + i - 1 \in Int
    BY DEF Rings
  <2>2. (t.sendread + i - 1) % SendSize \in 0 .. SendSize - 1
    BY <2>1, Sizes, Wraps
  <2> QED
    BY <2>2 DEF Rings
<1>3. taken \in Seq(Int) /\ Len(taken) = n /\ \A i \in 1 .. n : taken[i] = t.sendbuf[(t.sendread + i - 1) % SendSize]
  BY <1>1, <1>2 DEF Taken
<1>4. padding \in Seq(Int) /\ Len(padding) = m - n /\ \A i \in 1 .. m - n : padding[i] = PadByte
  <2>1. PadByte \in Int /\ m - n \in Nat
    BY <1>1 DEF PadByte
  <2> QED
    BY <2>1
<1> HIDE DEF taken, padding
<1>5. /\ taken \o padding \in Seq(Int) /\ Len(taken \o padding) = Len(taken) + Len(padding)
      /\ \A i \in 1 .. Len(taken) + Len(padding) :
           (taken \o padding)[i] = IF i <= Len(taken) THEN taken[i] ELSE padding[i - Len(taken)]
  BY <1>3, <1>4, ConcatProperties, Zenon
<1> DEFINE text == taken \o padding
<1>6. ConsolePiece(t, size) = text
  BY DEF ConsolePiece, n, m, taken, padding
<1> HIDE DEF text
<1>7. Len(taken) + Len(padding) = m /\ Len(taken) = n
  BY <1>1, <1>3, <1>4
<1>8. /\ text \in Seq(Int) /\ Len(text) = m
      /\ \A i \in 1 .. m : text[i] = IF i <= n THEN taken[i] ELSE padding[i - n]
  BY <1>5, <1>7 DEF text
<1>9. ASSUME NEW i \in 1 .. n PROVE text[i] = Byte(t, i - 1)
  <2>1. i \in 1 .. m /\ i <= n
    BY <1>1
  <2>2. t.sendread + i - 1 = t.sendread + (i - 1)
    BY DEF Rings
  <2> QED
    BY <1>3, <1>8, <2>1, <2>2 DEF Byte
<1>10. ASSUME NEW i \in n + 1 .. m PROVE text[i] = PadByte
  <2>1. i \in 1 .. m /\ ~(i <= n) /\ i - n \in 1 .. m - n
    BY <1>1
  <2> QED
    BY <1>4, <1>8, <2>1
<1> QED
  BY <1>1, <1>6, <1>8, <1>9, <1>10 DEF n

\* The ring and the host, when the monitor takes a piece of text for the host.
LEMMA PieceOrdered ==
    ASSUME NEW t, Device(t), Rings(t), NEW size \in Nat, t.memlen <= t.count,
           NEW c \in 0 .. MarkSize, NEW next \in Nat \ {0}, NEW p \in Nat, Ordered(t, c, next, p),
           NEW seen, Follows(seen, c, next), ~TakePiece(t, size).void
    PROVE  LET u == TakePiece(t, size) IN
           /\ ~t.void /\ Available(u) <= Available(t)
           /\ \E d \in 0 .. MarkSize, after \in Nat \ {0} :
                 /\ after >= next /\ Ordered(u, d, after, p)
                 /\ Follows(SeeAll(seen, ConsolePiece(t, size)), d, after)
<1> DEFINE u == TakePiece(t, size)
           n == Lesser(size, t.memlen)
           text == ConsolePiece(t, size)
           d == CountAfter(c, n)
           after == NextAfter(c, next, n)
<1>1. /\ u.sendread = (t.sendread + n) % SendSize /\ u.sendwrite = t.sendwrite
      /\ u.sendbuf = t.sendbuf /\ u.text = t.text
      /\ u.void = (t.void \/ Available(t) < n)
  BY DEF Device, StaticFields, TakePiece, Take
<1>2. /\ text \in Seq(Int) /\ n \in Nat /\ n <= Len(text)
      /\ \A i \in 1 .. n : text[i] = Byte(t, i - 1)
      /\ \A i \in n + 1 .. Len(text) : text[i] = PadByte
  BY PieceBytes
<1>3. ~t.void /\ ~(Available(t) < n)
  BY <1>1, Zenon
<1>4. Available(t) \in Nat /\ c \in Nat /\ next \in Nat /\ MarkSize \in Nat
  BY RingFacts
<1> HIDE DEF u, n, text
<1>5. n <= Available(t)
  BY <1>2, <1>3, <1>4
<1>6. Ordered(u, CountAfter(c, n), NextAfter(c, next, n), p)
  BY ONLY Rings(t), Ordered(t, c, next, p), p \in Nat, <1>1, <1>2, <1>4, <1>5, TakeOrdered
<1>7. Available(u) = Available(t) - n
  BY ONLY Rings(t), Ordered(t, c, next, p), p \in Nat, <1>1, <1>2, <1>4, <1>5, TakeOrdered
<1>8. ASSUME NEW i \in 1 .. n PROVE Byte(t, i - 1) = IF i <= c THEN MarkByte ELSE next + (i - 1 - c)
  <2>1. n \in Nat
    BY <1>2
  <2>2. i - 1 \in 0 .. Available(t) + p - 1 /\ (i <= c <=> i - 1 < c)
    BY <1>4, <1>5, <2>1
  <2> QED
    BY <2>2 DEF Ordered
<1>9. \A i \in 1 .. n : text[i] = IF i <= c THEN MarkByte ELSE next + (i - 1 - c)
  BY <1>2, <1>8
<1>10. Follows(SeeAll(seen, text), CountAfter(c, n), NextAfter(c, next, n))
  BY ONLY c \in 0 .. MarkSize, next \in Nat \ {0}, Follows(seen, c, next), <1>2, <1>9, SeePiece
<1>11. d \in 0 .. MarkSize
  BY <1>2, <1>4 DEF CountAfter
<1>12. after \in Nat \ {0} /\ after >= next
  BY <1>2, <1>4 DEF NextAfter
<1>13. Available(u) <= Available(t)
  BY <1>2, <1>4, <1>7
<1> HIDE DEF d, after
<1>14. Ordered(u, d, after, p) /\ Follows(SeeAll(seen, text), d, after)
  BY <1>6, <1>10 DEF d, after
<1> QED
  BY <1>3, <1>11, <1>12, <1>13, <1>14 DEF u, text

-----------------------------------------------------------------------------
(* What the host types.                                                    *)

\* In the other ring there is what was typed after the last byte that was read.
InKeys(t, r) ==
    /\ r \in Readers /\ r.ok
    /\ t.typed = r.last + dbgconsole_getavailable(t)
    /\ \A k \in 0 .. dbgconsole_getavailable(t) - 1 : t.recvbuf[(t.recvread + k) % RecvSize] = r.last + k + 1

\* What is in that ring.
LEMMA KeyFacts ==
    ASSUME NEW t, Rings(t)
    PROVE  /\ RecvSize \in Nat \ {0}
           /\ t.recvread \in 0 .. RecvSize - 1 /\ t.recvwrite \in 0 .. RecvSize - 1
           /\ dbgconsole_getavailable(t) = (t.recvwrite - t.recvread) % RecvSize
           /\ dbgconsole_getavailable(t) \in 0 .. RecvSize - 1
           /\ RecvFree(t) = RecvSize - 1 - dbgconsole_getavailable(t)
<1>1. /\ RecvSize \in Nat \ {0}
      /\ t.recvread \in 0 .. RecvSize - 1 /\ t.recvwrite \in 0 .. RecvSize - 1
  BY Sizes DEF Rings
<1>2. 0 \in 0 .. RecvSize - 1
  BY <1>1
<1>3. /\ (t.recvread - t.recvwrite - 1) % RecvSize = RecvSize - 1 - ((t.recvwrite - t.recvread) % RecvSize)
      /\ (t.recvwrite - t.recvread) % RecvSize \in 0 .. RecvSize - 1
  BY <1>1, <1>2, IndicesMove, ZenonT(60)
<1> QED
  BY <1>1, <1>3 DEF dbgconsole_getavailable, RecvFree

\* The host types n bytes.
LEMMA TypedKeys ==
    ASSUME NEW t, Device(t), Rings(t), NEW r, InKeys(t, r), NEW n \in Nat, n <= RecvFree(t)
    PROVE  InKeys(Typed(t, n), r) /\ RecvFree(Typed(t, n)) = RecvFree(t) - n
<1> DEFINE u == Typed(t, n)
           a == dbgconsole_getavailable(t)
           b == dbgconsole_getavailable(u)
<1>1. /\ RecvSize \in Nat \ {0}
      /\ t.recvread \in 0 .. RecvSize - 1 /\ t.recvwrite \in 0 .. RecvSize - 1
      /\ a = (t.recvwrite - t.recvread) % RecvSize
      /\ a \in 0 .. RecvSize - 1 /\ RecvFree(t) = RecvSize - 1 - a
  BY KeyFacts
<1>2. /\ u.recvread = t.recvread /\ u.recvwrite = (t.recvwrite + n) % RecvSize /\ u.typed = t.typed + n
      /\ \A i \in 0 .. RecvSize - 1 :
            u.recvbuf[i] = IF (i - t.recvwrite) % RecvSize < n
                           THEN t.typed + ((i - t.recvwrite) % RecvSize) + 1 ELSE t.recvbuf[i]
  BY DEF Typed, Device, StaticFields
<1>3. b = (((t.recvwrite + n) % RecvSize) - t.recvread) % RecvSize
  BY <1>2 DEF dbgconsole_getavailable
<1>4. RecvFree(u) = RecvSize - 1 - b
  <2>1. Rings(u)
    BY TypedEffect
  <2> HIDE DEF u
  <2> QED
    BY <2>1, KeyFacts
<1>5. /\ r \in Readers /\ r.ok /\ t.typed = r.last + a
      /\ \A k \in 0 .. a - 1 : t.recvbuf[(t.recvread + k) % RecvSize] = r.last + k + 1
  BY DEF InKeys
<1>6. r.last \in Int
  BY <1>5 DEF Readers
<1> HIDE DEF u, a, b
<1>7. n \in 0 .. RecvSize - 1 /\ a + n <= RecvSize - 1
  BY <1>1
<1>8. b = a + n
  <2>1. ((t.recvwrite - t.recvread) % RecvSize) + n <= RecvSize - 1
    BY <1>1, <1>7
  <2>2. (((t.recvwrite + n) % RecvSize) - t.recvread) % RecvSize = ((t.recvwrite - t.recvread) % RecvSize) + n
    BY <1>1, <1>7, <2>1, WriteMoves, ZenonT(60)
  <2> QED
    BY <1>1, <1>3, <2>2
<1>9. ASSUME NEW k \in 0 .. b - 1 PROVE u.recvbuf[(u.recvread + k) % RecvSize] = r.last + k + 1
  <2> DEFINE i == (t.recvread + k) % RecvSize
             d == (i - t.recvwrite) % RecvSize
  <2>1. k \in 0 .. RecvSize - 1
    BY <1>1, <1>7, <1>8
  <2>2. i \in 0 .. RecvSize - 1
    BY <1>1, <2>1, IndicesMove, ZenonT(60)
  <2>3. d = IF k >= a THEN k - a ELSE k - a + RecvSize
    BY <1>1, <2>1, Distance, ZenonT(60)
  <2>4. u.recvbuf[(u.recvread + k) % RecvSize] = IF d < n THEN t.typed + d + 1 ELSE t.recvbuf[i]
    BY <1>2, <2>2
  <2> HIDE DEF d
  <2>5. CASE k >= a
    <3>1. d < n /\ t.typed + d + 1 = r.last + k + 1
      BY <1>1, <1>5, <1>6, <1>7, <1>8, <2>1, <2>3, <2>5
    <3> QED
      BY <2>4, <3>1
  <2>6. CASE ~(k >= a)
    <3>1. ~(d < n) /\ k \in 0 .. a - 1
      BY <1>1, <1>7, <2>1, <2>3, <2>6
    <3> QED
      BY <1>5, <2>4, <3>1
  <2> QED
    BY <2>5, <2>6
<1>10. u.typed = r.last + b
  BY <1>1, <1>2, <1>5, <1>6, <1>8
<1>11. RecvFree(u) = RecvFree(t) - n
  BY <1>1, <1>4, <1>8
<1>12. InKeys(u, r)
  BY <1>5, <1>9, <1>10 DEF InKeys, b
<1> QED
  BY <1>11, <1>12 DEF u

\* A thread reads n bytes.
LEMMA HeardKeys ==
    ASSUME NEW t, Device(t), Rings(t), NEW r, InKeys(t, r), NEW n \in Nat, n <= dbgconsole_getavailable(t)
    PROVE  InKeys(Hear(t, n), ListenAll(r, Heard(t, n))) /\ RecvFree(Hear(t, n)) = RecvFree(t) + n
<1> DEFINE u == Hear(t, n)
           a == dbgconsole_getavailable(t)
           b == dbgconsole_getavailable(u)
           text == Heard(t, n)
           q == ListenAll(r, text)
<1>1. /\ RecvSize \in Nat \ {0}
      /\ t.recvread \in 0 .. RecvSize - 1 /\ t.recvwrite \in 0 .. RecvSize - 1
      /\ a = (t.recvwrite - t.recvread) % RecvSize
      /\ a \in 0 .. RecvSize - 1 /\ RecvFree(t) = RecvSize - 1 - a
  BY KeyFacts
<1>2. /\ u.recvread = (t.recvread + n) % RecvSize /\ u.recvwrite = t.recvwrite /\ u.typed = t.typed
      /\ u.recvbuf = t.recvbuf
  BY DEF Hear, Device, StaticFields
<1>3. b = (t.recvwrite - ((t.recvread + n) % RecvSize)) % RecvSize
  BY <1>2 DEF dbgconsole_getavailable
<1>4. RecvFree(u) = RecvSize - 1 - b
  <2>1. Rings(u)
    BY RingEffects
  <2> HIDE DEF u
  <2> QED
    BY <2>1, KeyFacts
<1>5. /\ r \in Readers /\ r.ok /\ t.typed = r.last + a
      /\ \A k \in 0 .. a - 1 : t.recvbuf[(t.recvread + k) % RecvSize] = r.last + k + 1
  BY DEF InKeys
<1>6. r.last \in Int /\ n <= a
  BY <1>5 DEF Readers
<1>7. ASSUME NEW i \in 1 .. n PROVE text[i] = r.last + i
  <2> HIDE DEF a
  <2>1. i - 1 \in 0 .. a - 1 /\ t.recvread + i - 1 = t.recvread + (i - 1) /\ r.last + (i - 1) + 1 = r.last + i
    BY <1>1, <1>6
  <2>2. text[i] = t.recvbuf[(t.recvread + (i - 1)) % RecvSize]
    BY <2>1 DEF Heard
  <2>3. t.recvbuf[(t.recvread + (i - 1)) % RecvSize] = r.last + (i - 1) + 1
    BY <1>5, <2>1
  <2> QED
    BY <2>1, <2>2, <2>3
<1>8. text \in Seq(Int) /\ Len(text) = n
  <2>1. \A i \in 1 .. n : text[i] \in Int
    BY <1>6, <1>7
  <2>2. text = [i \in 1 .. n |-> text[i]] /\ n \in Nat
    BY DEF Heard
  <2> HIDE DEF text
  <2> QED
    BY <2>1, <2>2
<1> HIDE DEF u, a, b, text
<1>9. PICK f : /\ f[0] = r /\ f[n] = q
               /\ \A i \in 1 .. n : f[i] = Listen(f[i - 1], text[i])
               /\ \A i \in 0 .. n : f[i] \in Readers
  BY <1>5, <1>8, ListenFold
<1> HIDE DEF q
<1> DEFINE S == {i \in 0 .. n : f[i].last = r.last + i /\ f[i].ok}
<1>10. 0 \in S
  <2>1. r.last + 0 = r.last /\ 0 \in 0 .. n
    BY <1>6
  <2> QED
    BY <1>5, <1>9, <2>1
<1>11. ASSUME NEW i \in 1 .. n, i - 1 \in S PROVE i \in S
  <2>1. f[i - 1].last = r.last + (i - 1) /\ f[i - 1].ok /\ i \in 0 .. n
    BY <1>11
  <2>2. f[i] = [last |-> text[i], ok |-> f[i - 1].ok /\ text[i] = f[i - 1].last + 1]
    BY <1>9 DEF Listen
  <2>3. f[i].last = text[i] /\ f[i].ok = (f[i - 1].ok /\ text[i] = f[i - 1].last + 1)
    BY <2>2
  <2>4. text[i] = r.last + i /\ text[i] = f[i - 1].last + 1
    BY <1>6, <1>7, <2>1
  <2>5. f[i].ok
    BY <2>1, <2>3, <2>4, Zenon
  <2> QED
    BY <2>1, <2>3, <2>4, <2>5
<1> HIDE DEF S
<1>12. n \in S
  <2>1. \A i \in 0 .. n : i \in S
    BY <1>10, <1>11, UpTo
  <2>2. n \in 0 .. n
    OBVIOUS
  <2> QED
    BY <2>1, <2>2
<1>13. q.last = r.last + n /\ q.ok /\ q \in Readers
  BY <1>9, <1>12 DEF S
<1>14. n \in 0 .. RecvSize - 1 /\ n <= (t.recvwrite - t.recvread) % RecvSize
  BY <1>1, <1>6
<1>15. b = a - n
  <2>1. (t.recvwrite - ((t.recvread + n) % RecvSize)) % RecvSize = ((t.recvwrite - t.recvread) % RecvSize) - n
    BY <1>1, <1>14, ReadMoves, ZenonT(60)
  <2> QED
    BY <1>1, <1>3, <2>1
<1>16. ASSUME NEW k \in 0 .. b - 1 PROVE u.recvbuf[(u.recvread + k) % RecvSize] = q.last + k + 1
  <2>1. k \in 0 .. RecvSize - 1 /\ n + k <= RecvSize - 1 /\ n + k \in 0 .. a - 1
    BY <1>1, <1>6, <1>14, <1>15
  <2>2. (u.recvread + k) % RecvSize = (t.recvread + (n + k)) % RecvSize
    <3>1. (((t.recvread + n) % RecvSize) + k) % RecvSize = (t.recvread + (n + k)) % RecvSize
      BY <1>1, <1>14, <2>1, FarMoves, ZenonT(60)
    <3> QED
      BY <1>2, <3>1
  <2>3. u.recvbuf[(u.recvread + k) % RecvSize] = r.last + (n + k) + 1
    BY <1>2, <1>5, <2>1, <2>2
  <2>4. r.last + (n + k) + 1 = q.last + k + 1
    BY <1>6, <1>13
  <2> QED
    BY <2>3, <2>4
<1>17. u.typed = q.last + b
  BY <1>1, <1>2, <1>5, <1>6, <1>13, <1>15
<1>18. RecvFree(u) = RecvFree(t) + n
  BY <1>1, <1>4, <1>15
<1>19. InKeys(u, q)
  BY <1>13, <1>16, <1>17 DEF InKeys, b
<1> QED
  BY <1>18, <1>19 DEF u, q, text

-----------------------------------------------------------------------------
(* What the operators of the device do to the rings.                       *)

\* What is left alone: the ring of the text, and the ring of what is typed.
SameText(t, u) ==
    /\ u.sendbuf = t.sendbuf /\ u.sendread = t.sendread /\ u.sendwrite = t.sendwrite
    /\ u.text = t.text /\ u.void = t.void
SameKeys(t, u) ==
    u.recvbuf = t.recvbuf /\ u.recvread = t.recvread /\ u.recvwrite = t.recvwrite /\ u.typed = t.typed

\* They are left alone.
Apart(t, u) == DOMAIN u = StaticFields /\ SameText(t, u) /\ SameKeys(t, u)

\* Twice.
LEMMA ApartTwice == ASSUME NEW t, NEW u, NEW v, Apart(t, u), Apart(u, v) PROVE Apart(t, v)
BY DEF Apart, SameText, SameKeys

\* By what sends a packet, expects one or refuses it.
LEMMA PacketsApart ==
    ASSUME NEW t, DOMAIN t = StaticFields
    PROVE  /\ Apart(t, LastSent(t)) /\ Apart(t, usb_ep0_tx_callback(t)) /\ Apart(t, Acknowledge(t))
           /\ Apart(t, Refuse(t)) /\ Apart(t, Respond(t)) /\ Apart(t, SetupReceived(t))
           /\ \A a, b : Apart(t, usb_ep0_start_rx(t, a, b)) /\ Apart(t, usb_ep0_start_tx(t, a, b))
           /\ \A a : Apart(t, MoreData(t, a)) /\ Apart(t, Send(t, a)) /\ Apart(t, usb_set_stall(t, a))
<1> USE DEF Apart, SameText, SameKeys
<1>1. Apart(t, LastSent(t))
  BY DEF LastSent, usb_ep0_start_rx, usb_ep0_start_tx, StaticFields
<1>2. ASSUME NEW v, DOMAIN v = StaticFields, v = t \/ \E a : v = [usb_ep0_start_rx(t, FALSE, "none") EXCEPT !.tx = a]
      PROVE  Apart(t, usb_ep0_tx_callback(v))
  <2>1. Apart(t, v)
    BY <1>2 DEF usb_ep0_start_rx, StaticFields
  <2>2. Apart(v, usb_ep0_tx_callback(v))
    BY <1>2 DEF usb_ep0_tx_callback, LastSent, usb_ep0_start_rx, usb_ep0_start_tx, StaticFields
  <2> QED
    BY <2>1, <2>2
<1>3. Apart(t, usb_ep0_tx_callback(t))
  BY <1>2
<1>4. Apart(t, Acknowledge(t))
  BY DEF Acknowledge, usb_set_stall, usb_ep0_start_rx, usb_ep0_start_tx, StaticFields
<1>5. Apart(t, Refuse(t))
  BY DEF Refuse, usb_set_stall, usb_ep0_start_rx, StaticFields
<1>6. Apart(t, Respond(t))
  BY DEF Respond, usb_set_stall, usb_ep0_start_tx, StaticFields
<1>7. Apart(t, SetupReceived(t))
  BY DEF SetupReceived, StaticFields
<1>8. \A a, b : Apart(t, usb_ep0_start_rx(t, a, b)) /\ Apart(t, usb_ep0_start_tx(t, a, b))
  BY DEF usb_ep0_start_rx, usb_ep0_start_tx, StaticFields
<1>9. ASSUME NEW a PROVE Apart(t, MoreData(t, a)) /\ Apart(t, Send(t, a)) /\ Apart(t, usb_set_stall(t, a))
  <2>1. Apart(t, MoreData(t, a)) /\ Apart(t, usb_set_stall(t, a))
    BY DEF MoreData, usb_ep0_start_rx, usb_set_stall, StaticFields
  <2> DEFINE x == [of |-> t.req, sent |-> 0, left |-> a, ptr |-> TRUE]
             v == [usb_ep0_start_rx(t, FALSE, "none") EXCEPT !.tx = x]
  <2>2. DOMAIN v = StaticFields
    BY <1>8 DEF Apart
  <2>3. Send(t, a) = usb_ep0_tx_callback(v)
    BY DEF Send
  <2>4. \E b : v = [usb_ep0_start_rx(t, FALSE, "none") EXCEPT !.tx = b]
    OBVIOUS
  <2> HIDE DEF v
  <2>5. Apart(t, usb_ep0_tx_callback(v))
    BY ONLY <1>2, <2>2, <2>4
  <2> QED
    BY <2>1, <2>3, <2>5
<1> QED
  BY <1>1, <1>3, <1>4, <1>5, <1>6, <1>7, <1>8, <1>9

\* By the standard requests and a reset.
LEMMA StandardApart ==
    ASSUME NEW t, DOMAIN t = StaticFields
    PROVE  /\ \A r : r.kind \in StandardKinds => Apart(t, StandardSetup(t, r))
           /\ Apart(t, usb_handle_bus_reset(t))
<1>1. ASSUME NEW v, DOMAIN v = StaticFields
      PROVE  /\ Apart(v, usb_unconfigure(v)) /\ Apart(v, EnableMonitor(v))
             /\ \A n : Apart(v, SetConfiguration(v, n))
  BY <1>1 DEF usb_unconfigure, EnableMonitor, SetConfiguration, StaticFields, Apart, SameText, SameKeys
<1>2. ASSUME NEW r, r.kind \in StandardKinds PROVE Apart(t, StandardSetup(t, r))
  <2>1. \/ StandardSetup(t, r) = Acknowledge([t EXCEPT !.address = TRUE])
        \/ \E n : StandardSetup(t, r) = Acknowledge(SetConfiguration(t, n))
        \/ StandardSetup(t, r) = Refuse(t)
        \/ \E n : StandardSetup(t, r) = Send(t, n)
        \/ StandardSetup(t, r) = Refuse(EnableMonitor(t))
    BY <1>2, Zenon DEF StandardSetup, StandardKinds
  <2>2. Apart(t, [t EXCEPT !.address = TRUE])
    BY DEF StaticFields, Apart, SameText, SameKeys
  <2>3. ASSUME NEW v, Apart(t, v) PROVE Apart(t, Acknowledge(v)) /\ Apart(t, Refuse(v))
    <3>1. Apart(v, Acknowledge(v)) /\ Apart(v, Refuse(v))
      BY <2>3, PacketsApart DEF Apart
    <3> QED
      BY <2>3, <3>1, ApartTwice
  <2> QED
    BY <1>1, <2>1, <2>2, <2>3, PacketsApart
<1>3. Apart(t, usb_handle_bus_reset(t))
  <2> DEFINE v == [t EXCEPT !.address = FALSE, !.in = NoPacket, !.stalled = {}]
             w == usb_unconfigure(v)
             u == usb_ep0_start_rx(w, FALSE, "none")
  <2>1. Apart(t, v)
    BY DEF StaticFields, Apart, SameText, SameKeys
  <2>2. usb_handle_bus_reset(t) = u
    BY DEF usb_handle_bus_reset
  <2> HIDE DEF v
  <2>3. Apart(v, w)
    BY <1>1, <2>1 DEF Apart
  <2> HIDE DEF w
  <2>4. Apart(w, u)
    BY <2>3, PacketsApart DEF Apart
  <2> HIDE DEF u
  <2> QED
    BY <2>1, <2>2, <2>3, <2>4, ApartTwice
<1> QED
  BY <1>2, <1>3

\* By the first packet of an answer, but for the piece of text in it.
LEMMA FirstApart ==
    ASSUME NEW t, DOMAIN t = StaticFields, NEW body, NEW rest, NEW callback
    PROVE  LET u == FirstPacket(t, body, rest, callback) IN
           Apart(t, u) /\ u.in = [of |-> t.req, header |-> t.dbgbuf, body |-> body] /\ u.stalled = t.stalled
BY DEF FirstPacket, usb_ep0_start_rx, usb_ep0_start_tx, StaticFields, Apart, SameText, SameKeys

\* By the first packet of the answer to a command.
LEMMA AnswerApart ==
    ASSUME NEW t, DOMAIN t = StaticFields, NEW want
    PROVE  Apart(t, AnswerCommand(t, want))
<1> DEFINE memlen == Lesser(t.memlen, want)
           len == Lesser(AnswerData, memlen)
           v == [t EXCEPT !.memlen = memlen - len, !.tx.left = memlen - len]
           body == Units(t.memof, 0, len)
<1>1. AnswerCommand(t, want) = FirstPacket(v, body, memlen - len, "tx")
  BY DEF AnswerCommand
<1>2. Apart(t, v)
  BY DEF StaticFields, Apart, SameText, SameKeys
<1> HIDE DEF v, body, memlen, len
<1>3. Apart(v, AnswerCommand(t, want))
  BY <1>1, <1>2, FirstApart DEF Apart
<1> QED
  BY <1>2, <1>3, ApartTwice

\* By a request, unless it is answered with console text.
LEMMA RequestApart ==
    ASSUME NEW t, DOMAIN t = StaticFields, NEW r, r.kind # "answer" \/ t.dbgstate # "READ_CONSOLE" \/ t.configuration = 0
    PROVE  Apart(t, usb_handle_ep0_setup(t, r))
<1>1. CASE r.kind \in StandardKinds
  BY <1>1, StandardApart DEF usb_handle_ep0_setup
<1>2. CASE r.kind \notin StandardKinds
  <2>1. Apart(t, Refuse(t)) /\ Apart(t, AnswerCommand(t, r.units))
    BY PacketsApart, AnswerApart
  <2>2. Apart(t, usb_ep0_start_rx([t EXCEPT !.dbgstate = "SETUP", !.memlen = 0], TRUE, "data"))
    BY DEF usb_ep0_start_rx, StaticFields, Apart, SameText, SameKeys
  <2> QED
    BY <1>2, <2>1, <2>2, Zenon DEF usb_handle_ep0_setup, usbdebug_handle_setup
<1> QED
  BY <1>1, <1>2

\* By the end of a transfer, unless a piece of text is next.
LEMMA InApart ==
    ASSUME NEW t, DOMAIN t = StaticFields, t.txcallback \in {"none", "ack", "short", "tx"}
    PROVE  Apart(t, InComplete(t))
<1> DEFINE v == [t EXCEPT !.in = NoPacket, !.txcallback = "none"]
           u == InComplete(t)
<1>1. Apart(t, v)
  BY DEF StaticFields, Apart, SameText, SameKeys
<1>2. \/ u = v \/ u = usb_ep0_ack_callback(v, "in")
      \/ u = usb_ep0_short_tx_callback(v) \/ u = usb_ep0_tx_callback(v)
  BY DEF InComplete
<1> HIDE DEF u, v
<1>3. Apart(v, usb_ep0_ack_callback(v, "in")) /\ Apart(v, usb_ep0_short_tx_callback(v))
  BY <1>1 DEF usb_ep0_ack_callback, usb_ep0_short_tx_callback, usb_set_stall, usb_ep0_start_rx,
     StaticFields, Apart, SameText, SameKeys
<1>4. Apart(v, usb_ep0_tx_callback(v))
  BY <1>1, PacketsApart DEF Apart
<1>5. Apart(t, u)
  BY <1>1, <1>2, <1>3, <1>4, ApartTwice
<1> QED
  BY <1>5 DEF u

\* By a packet that is no data of a command.
LEMMA OutApart ==
    ASSUME NEW t, DOMAIN t = StaticFields, t.rxcallback \in {"none", "ack"}, NEW r, NEW data
    PROVE  Apart(t, OutComplete(t, r, data))
BY DEF OutComplete, usb_ep0_ack_callback, usb_set_stall, usb_ep0_start_rx, StaticFields, Apart, SameText, SameKeys

-----------------------------------------------------------------------------
(* Text that is taken for the host.                                        *)

\* What is said of the rings holds as long as nobody touches them.
LEMMA OrderedApart ==
    ASSUME NEW t, NEW u, SameText(t, u)
    PROVE  /\ Available(u) = Available(t) /\ dbgconsole_getfree(u) = dbgconsole_getfree(t)
           /\ \A c, next, p : Ordered(t, c, next, p) => Ordered(u, c, next, p)
BY DEF SameText, Available, dbgconsole_getfree, Ordered, Byte

\* The same of the ring of what is typed.
LEMMA KeysApart ==
    ASSUME NEW t, NEW u, SameKeys(t, u)
    PROVE  RecvFree(u) = RecvFree(t) /\ \A r : InKeys(t, r) => InKeys(u, r)
BY DEF SameKeys, RecvFree, InKeys, dbgconsole_getavailable

\* No text at all.
LEMMA SeeNone == ASSUME NEW seen \in Seen PROVE SeeAll(seen, << >>) = seen
<1>1. << >> \in Seq(Int) /\ Len(<< >>) = 0
  OBVIOUS
<1> QED
  BY <1>1, SeeFold, ZenonT(60)

\* From t to u the text goes on, and what the packet in u has of it follows on what was seen.
Goes(t, u, seen, next, p) ==
    /\ ~t.void /\ Available(u) <= Available(t)
    /\ \E d \in 0 .. MarkSize, after \in Nat \ {0} :
          after >= next /\ Ordered(u, d, after, p) /\ Follows(SeeAll(seen, u.in.body), d, after)

\* What a piece of text leaves alone.
LEMMA PieceApart ==
    ASSUME NEW t, DOMAIN t = StaticFields, NEW size
    PROVE  LET u == TakePiece(t, size)
           IN  DOMAIN u = StaticFields /\ SameKeys(t, u) /\ u.sendwrite = t.sendwrite /\ (t.void => u.void)
<1> DEFINE n == Lesser(size, t.memlen)
           v == [t EXCEPT !.sendread = (@ + n) % SendSize]
           b == v.void \/ Available(t) < n
           u == [v EXCEPT !.memlen = @ - n, !.count = @ - Lesser(size, @), !.attached = TRUE, !.void = b]
<1>1. TakePiece(t, size) = u
  BY DEF TakePiece, Take
<1>2. DOMAIN v = StaticFields /\ SameKeys(t, v) /\ v.sendwrite = t.sendwrite
  BY DEF StaticFields, SameKeys
<1>4. v.void = t.void
  BY Zenon DEF StaticFields
<1>5. t.void => b
  BY <1>4
<1> HIDE DEF v, n, b
<1>6. u.void = b
  BY <1>2, Zenon DEF StaticFields
<1>3. DOMAIN u = StaticFields /\ SameKeys(v, u) /\ u.sendwrite = v.sendwrite
  BY <1>2 DEF StaticFields, SameKeys
<1> QED
  BY <1>1, <1>2, <1>3, <1>5, <1>6 DEF SameKeys

\* The text that follows on what was seen goes on, from t to u.
GoesOn(t, u) ==
    \A c \in 0 .. MarkSize, next \in Nat \ {0}, p \in Nat, seen \in Seen :
        Ordered(t, c, next, p) /\ Follows(seen, c, next) /\ ~u.void => Goes(t, u, seen, next, p)

\* The first packet of console text.
LEMMA TextAnswered ==
    ASSUME NEW t, Device(t), Rings(t), NEW want \in Nat
    PROVE  LET u == AnswerConsole(t, want)
           IN  /\ SameKeys(t, u) /\ u.sendwrite = t.sendwrite /\ (t.void => u.void)
               /\ u.stalled = t.stalled /\ u.in.of = t.req
               /\ GoesOn(t, u)
<1> DEFINE all == Lesser(t.count, want)
           found == Found(t, all)
           header == [of |-> t.memof, status |-> "ok", bytes |-> found]
           v == [t EXCEPT !.count = all, !.memlen = found, !.dbgbuf = header]
           w == TakePiece(v, AnswerData)
           x == [w EXCEPT !.tx.left = 0]
           body == ConsolePiece(v, AnswerData)
           u == AnswerConsole(t, want)
<1>1. all \in Nat /\ found \in Nat /\ found <= all /\ AnswerData \in Nat /\ t.memof \in Nat
  <2>1. all \in Nat /\ t.memof \in Nat
    BY DEF Device, Lesser
  <2>2. AnswerData \in Nat
    BY UsbAssumption DEF AnswerData
  <2> HIDE DEF all
  <2>3. t.sendwrite - t.sendread \in Int
    BY Sizes DEF Rings
  <2> QED
    BY <2>1, <2>2, <2>3 DEF Found
<1>2. header \in Headers
  BY <1>1 DEF Headers, Statuses
<1>3. u = FirstPacket(x, body, x.count, "read_console")
  BY DEF AnswerConsole
<1> HIDE DEF all, found, header
<1>4. /\ DOMAIN v = StaticFields /\ v.memlen = found /\ v.count = all /\ v.dbgbuf = header
      /\ SameRequest(t, v) /\ SameCommand(t, v) /\ SameText(t, v) /\ SameKeys(t, v)
      /\ v.memof = t.memof /\ v.written = t.written /\ v.stalled = t.stalled
      /\ v.in = t.in /\ v.out = t.out /\ v.rxcallback = t.rxcallback /\ v.txcallback = t.txcallback
      /\ v.tx = t.tx
  BY DEF Device, StaticFields, SameRequest, SameCommand, SameText, SameKeys
<1> HIDE DEF v
<1>5. Device(v) /\ Rings(v)
  BY <1>1, <1>2, <1>4 DEF Device, Rings, SameRequest, SameCommand, SameText, SameKeys
<1>6. DOMAIN w = StaticFields /\ SameKeys(v, w) /\ w.sendwrite = v.sendwrite /\ (v.void => w.void)
  BY <1>5, PieceApart DEF Device
<1>7. w.stalled = v.stalled /\ w.req = v.req
  BY <1>1, <1>5, TakePieceEffect DEF SameRequest
<1>8. ASSUME NEW c \in 0 .. MarkSize, NEW next \in Nat \ {0}, NEW p \in Nat, NEW seen \in Seen,
             Ordered(t, c, next, p), Follows(seen, c, next), ~w.void
      PROVE  /\ ~v.void /\ Available(w) <= Available(v)
             /\ \E d \in 0 .. MarkSize, after \in Nat \ {0} :
                   after >= next /\ Ordered(w, d, after, p) /\ Follows(SeeAll(seen, body), d, after)
  <2>1. v.memlen <= v.count /\ AnswerData \in Nat
    BY <1>1, <1>4
  <2>2. Device(v) /\ Rings(v) /\ Ordered(v, c, next, p)
    BY <1>4, <1>5, <1>8, OrderedApart
  <2> QED
    BY <1>8, <2>1, <2>2, PieceOrdered
<1> HIDE DEF w, body
<1>9. Apart(w, x) /\ x.stalled = w.stalled /\ x.req = w.req
  BY <1>6 DEF StaticFields, Apart, SameText, SameKeys
<1> HIDE DEF x
<1>10. Apart(x, u) /\ u.in.body = body /\ u.in.of = x.req /\ u.stalled = x.stalled
  <2>1. DOMAIN x = StaticFields
    BY <1>9 DEF Apart
  <2>2. Apart(x, u) /\ u.in = [of |-> x.req, header |-> x.dbgbuf, body |-> body] /\ u.stalled = x.stalled
    BY <1>3, <2>1, FirstApart
  <2> QED
    BY <2>2
<1> HIDE DEF u
<1>11. Apart(w, u)
  BY <1>9, <1>10, ApartTwice
<1>12. SameKeys(t, u) /\ u.sendwrite = t.sendwrite
  BY <1>4, <1>6, <1>11 DEF Apart, SameText, SameKeys
<1>13. w.void = u.void /\ v.void = t.void
  BY <1>4, <1>11, Zenon DEF Apart, SameText
<1>14. u.stalled = t.stalled /\ u.in.of = t.req
  BY <1>4, <1>7, <1>9, <1>10 DEF SameRequest
<1>15. ASSUME NEW c \in 0 .. MarkSize, NEW next \in Nat \ {0}, NEW p \in Nat, NEW seen \in Seen,
              Ordered(t, c, next, p), Follows(seen, c, next), ~u.void
       PROVE  Goes(t, u, seen, next, p)
  <2>1. /\ ~v.void /\ Available(w) <= Available(v)
        /\ \E d \in 0 .. MarkSize, after \in Nat \ {0} :
              after >= next /\ Ordered(w, d, after, p) /\ Follows(SeeAll(seen, body), d, after)
    BY <1>8, <1>13, <1>15
  <2>2. PICK d \in 0 .. MarkSize, after \in Nat \ {0} :
              after >= next /\ Ordered(w, d, after, p) /\ Follows(SeeAll(seen, body), d, after)
    BY <2>1
  <2>3. Ordered(u, d, after, p)
    BY <1>11, <2>2, OrderedApart DEF Apart
  <2>4. Available(u) = Available(w) /\ Available(v) = Available(t)
    BY <1>4, <1>11, OrderedApart DEF Apart
  <2> QED
    BY <1>10, <1>13, <2>1, <2>2, <2>3, <2>4 DEF Goes
<1> QED
  BY <1>6, <1>12, <1>13, <1>14, <1>15 DEF u, GoesOn

\* The next packet of it, or the end.
LEMMA TextContinued ==
    ASSUME NEW t, Device(t), Rings(t), t.memlen <= t.count
    PROVE  LET u == read_console_callback(t)
           IN  /\ SameKeys(t, u) /\ u.sendwrite = t.sendwrite /\ (t.void => u.void)
               /\ u.stalled = t.stalled /\ u.in.of = t.req /\ (t.count = 0 => u.in.body = << >>)
               /\ GoesOn(t, u)
<1> DEFINE u == read_console_callback(t)
<1>1. CASE t.count = 0
  <2>1. u = LastSent(t)
    BY <1>1 DEF read_console_callback
  <2>2. Apart(t, u)
    BY <2>1, PacketsApart DEF Device
  <2>3. u.in.body = << >> /\ u.in.of = t.req /\ u.stalled = t.stalled
    <3>1. u.in = Zero(t.req) /\ u.stalled = t.stalled
      BY <2>1, LastSentEffect
    <3> QED
      BY <3>1, ZeroPacket DEF Device
  <2> HIDE DEF u
  <2>4. u.void = t.void
    BY <2>2, Zenon DEF Apart, SameText
  <2>5. ASSUME NEW c \in 0 .. MarkSize, NEW next \in Nat \ {0}, NEW p \in Nat, NEW seen \in Seen,
               Ordered(t, c, next, p), Follows(seen, c, next), ~u.void
        PROVE  Goes(t, u, seen, next, p)
    <3>1. SeeAll(seen, << >>) = seen
      BY SeeNone
    <3>2. Ordered(u, c, next, p) /\ Available(u) = Available(t)
      BY <2>2, <2>5, OrderedApart DEF Apart
    <3>3. next >= next /\ Available(t) <= Available(t)
      BY RingFacts
    <3> QED
      BY <2>3, <2>4, <2>5, <3>1, <3>2, <3>3 DEF Goes
  <2> QED
    BY <2>2, <2>3, <2>4, <2>5 DEF u, Apart, SameText, GoesOn
<1>2. CASE t.count # 0
  <2> DEFINE v == TakePiece(t, Packet)
             body == ConsolePiece(t, Packet)
             packet == [Zero(t.req) EXCEPT !.body = body]
             callback == IF t.count < Packet THEN "short" ELSE "read_console"
  <2>1. u = usb_ep0_start_tx(v, packet, callback)
    BY <1>2 DEF read_console_callback
  <2>2. Packet \in Nat
    BY UsbAssumption
  <2>3. DOMAIN v = StaticFields /\ SameKeys(t, v) /\ v.sendwrite = t.sendwrite /\ (t.void => v.void)
    BY PieceApart DEF Device
  <2>4. ASSUME NEW c \in 0 .. MarkSize, NEW next \in Nat \ {0}, NEW p \in Nat, NEW seen \in Seen,
               Ordered(t, c, next, p), Follows(seen, c, next), ~v.void
        PROVE  /\ ~t.void /\ Available(v) <= Available(t)
               /\ \E d \in 0 .. MarkSize, after \in Nat \ {0} :
                     after >= next /\ Ordered(v, d, after, p) /\ Follows(SeeAll(seen, body), d, after)
    BY <2>2, <2>4, PieceOrdered
  <2>5. packet.body = body /\ packet.of = t.req
    BY DEF Zero, NoPacket
  <2>6. v.stalled = t.stalled
    BY <2>2, TakePieceEffect
  <2> HIDE DEF v, body, packet, callback
  <2>7. Apart(v, u)
    BY <2>1, <2>3, PacketsApart
  <2>8. u.in = packet /\ u.stalled = v.stalled
    BY <2>1, <2>3 DEF usb_ep0_start_tx, StaticFields
  <2> HIDE DEF u
  <2>9. SameKeys(t, u) /\ u.sendwrite = t.sendwrite
    BY <2>3, <2>7 DEF Apart, SameText, SameKeys
  <2>10. v.void = u.void
    BY <2>7, Zenon DEF Apart, SameText
  <2>11. ASSUME NEW c \in 0 .. MarkSize, NEW next \in Nat \ {0}, NEW p \in Nat, NEW seen \in Seen,
                Ordered(t, c, next, p), Follows(seen, c, next), ~u.void
         PROVE  Goes(t, u, seen, next, p)
    <3>1. /\ ~t.void /\ Available(v) <= Available(t)
          /\ \E d \in 0 .. MarkSize, after \in Nat \ {0} :
                after >= next /\ Ordered(v, d, after, p) /\ Follows(SeeAll(seen, body), d, after)
      BY <2>4, <2>10, <2>11
    <3>2. PICK d \in 0 .. MarkSize, after \in Nat \ {0} :
                after >= next /\ Ordered(v, d, after, p) /\ Follows(SeeAll(seen, body), d, after)
      BY <3>1
    <3>3. Ordered(u, d, after, p) /\ Available(u) = Available(v)
      BY <2>7, <3>2, OrderedApart DEF Apart
    <3> QED
      BY <2>5, <2>8, <3>1, <3>2, <3>3 DEF Goes
  <2> QED
    BY <1>2, <2>3, <2>5, <2>6, <2>8, <2>9, <2>10, <2>11 DEF u, GoesOn
<1> QED
  BY <1>1, <1>2

\* A packet has gone and text is next.
LEMMA TextReceived ==
    ASSUME NEW t, Device(t), Rings(t), t.memlen <= t.count, t.txcallback = "read_console"
    PROVE  LET u == InComplete(t)
           IN  /\ SameKeys(t, u) /\ u.sendwrite = t.sendwrite /\ (t.void => u.void)
               /\ u.stalled = t.stalled /\ u.in.of = t.req /\ (t.count = 0 => u.in.body = << >>)
               /\ GoesOn(t, u)
<1> DEFINE v == [t EXCEPT !.in = NoPacket, !.txcallback = "none"]
           u == InComplete(t)
<1>1. u = read_console_callback(v)
  BY DEF InComplete
<1>2. Apart(t, v)
  BY DEF Device, StaticFields, Apart, SameText, SameKeys
<1>3. Device(v) /\ Rings(v) /\ v.memlen <= v.count /\ v.count = t.count /\ v.stalled = t.stalled /\ v.req = t.req
  <2>1. NoPacket \in Packets
    BY ZeroPacket DEF NoPacket, Packets, NoHeader, Headers, Statuses
  <2>2. /\ DOMAIN v = StaticFields /\ v.in = NoPacket /\ v.txcallback = "none"
        /\ SameRequest(t, v) /\ SameCommand(t, v) /\ SameAnswer(t, v) /\ SameLeft(t, v) /\ SameConsole(t, v)
        /\ v.out = t.out /\ v.rxcallback = t.rxcallback /\ v.tx = t.tx /\ v.stalled = t.stalled
    BY DEF Device, StaticFields, SameRequest, SameCommand, SameAnswer, SameLeft, SameConsole
  <2> HIDE DEF v
  <2> QED
    BY <2>1, <2>2 DEF Device, Rings, SameRequest, SameCommand, SameAnswer, SameLeft, SameConsole
<1> HIDE DEF v
<1>4. /\ SameKeys(v, u) /\ u.sendwrite = v.sendwrite /\ (v.void => u.void)
      /\ u.stalled = v.stalled /\ u.in.of = v.req /\ (v.count = 0 => u.in.body = << >>)
      /\ GoesOn(v, u)
  BY <1>1, <1>3, TextContinued
<1> HIDE DEF u
<1>5. SameKeys(t, u) /\ u.sendwrite = t.sendwrite
  BY <1>2, <1>4 DEF Apart, SameText, SameKeys
<1>6. v.void = t.void
  BY <1>2, Zenon DEF Apart, SameText
<1>7. Available(v) = Available(t)
  BY <1>2, OrderedApart DEF Apart
<1>8. GoesOn(t, u)
  <2> SUFFICES ASSUME NEW c \in 0 .. MarkSize, NEW next \in Nat \ {0}, NEW p \in Nat, NEW seen \in Seen,
                      Ordered(t, c, next, p), Follows(seen, c, next), ~u.void
               PROVE  Goes(t, u, seen, next, p)
    BY DEF GoesOn
  <2>1. Ordered(v, c, next, p)
    BY <1>2, OrderedApart DEF Apart
  <2>2. Goes(v, u, seen, next, p)
    BY <1>4, <2>1 DEF GoesOn
  <2> QED
    BY <1>6, <1>7, <2>2 DEF Goes
<1> QED
  BY <1>3, <1>4, <1>5, <1>6, <1>8 DEF u

-----------------------------------------------------------------------------
(* What a packet of a command's data does to the rings.                    *)

\* What is read is what was typed, and the data that the monitor still expects have room.
Keyed(t, w) == InKeys(t, w) /\ (t.dbgstate = "WRITE_CONSOLE" => t.memlen <= RecvFree(t))

\* What is known of the commands that were refused.
Refusing(t, u, kind) ==
    u.refused = t.refused \/ (kind \in WorkerKinds /\ u.refused = t.refused \cup {t.req})

\* A command ends, or goes on.
LEMMA CommandGoesOn ==
    ASSUME NEW t, DOMAIN t = StaticFields
    PROVE  /\ Apart(t, Respond(t)) /\ Respond(t).dbgstate = "RESPOND" /\ Respond(t).refused = t.refused
           /\ \A state : LET u == MoreData(t, state)
                         IN  Apart(t, u) /\ u.dbgstate = state /\ u.refused = t.refused /\ u.memlen = t.memlen
<1>1. Respond(t).dbgstate = "RESPOND" /\ Respond(t).refused = t.refused
  BY DEF Respond, usb_set_stall, usb_ep0_start_tx, StaticFields
<1>2. ASSUME NEW state
      PROVE  LET u == MoreData(t, state) IN u.dbgstate = state /\ u.refused = t.refused /\ u.memlen = t.memlen
  BY DEF MoreData, usb_ep0_start_rx, StaticFields
<1> QED
  BY <1>1, <1>2, PacketsApart

\* Commands that have nothing to do with the console's keys.
LEMMA KeyedApart ==
    ASSUME NEW t, NEW u, Apart(t, u), u.dbgstate # "WRITE_CONSOLE", NEW w, Keyed(t, w)
    PROVE  SameText(t, u) /\ Keyed(u, w)
BY KeysApart DEF Apart, Keyed

\* A command is acknowledged after a buffer was filled.
LEMMA KeyedRespond ==
    ASSUME NEW t, NEW v, Apart(t, v), v.refused = t.refused, NEW w, Keyed(t, w), NEW kind
    PROVE  LET u == Respond(v) IN SameText(t, u) /\ Keyed(u, w) /\ Refusing(t, u, kind)
<1> DEFINE u == Respond(v)
<1>1. Apart(v, u) /\ u.dbgstate = "RESPOND" /\ u.refused = v.refused
  BY CommandGoesOn DEF Apart
<1> HIDE DEF u
<1>2. Apart(t, u)
  BY <1>1, ApartTwice
<1> QED
  BY <1>1, <1>2, KeyedApart DEF u, Refusing

\* The first packet of WRITE MEMORY, and another one.
LEMMA MemoryKeyed ==
    ASSUME NEW t, DOMAIN t = StaticFields, NEW w, Keyed(t, w), NEW n, NEW data
    PROVE  /\ LET u == WriteMemory(t, n, data) IN SameText(t, u) /\ Keyed(u, w) /\ Refusing(t, u, "write")
           /\ t.dbgstate = "WRITE_MEM" =>
                LET u == WriteMemoryData(t, data) IN SameText(t, u) /\ Keyed(u, w) /\ Refusing(t, u, "write")
<1>1. ASSUME NEW v, Apart(t, v), v.refused = t.refused, NEW state, state # "WRITE_CONSOLE"
      PROVE  LET u == MoreData(v, state) IN SameText(t, u) /\ Keyed(u, w) /\ Refusing(t, u, "write")
  <2> DEFINE u == MoreData(v, state)
  <2>1. Apart(v, u) /\ u.dbgstate = state /\ u.refused = v.refused
    BY <1>1, CommandGoesOn DEF Apart
  <2> HIDE DEF u
  <2>2. Apart(t, u)
    BY <1>1, <2>1, ApartTwice
  <2> QED
    BY <1>1, <2>1, <2>2, KeyedApart DEF u, Refusing
<1>2. ASSUME NEW v, Apart(t, v), v.refused = t.refused, NEW a
      PROVE  LET u == Respond([v EXCEPT !.dbgbuf = a])
             IN  SameText(t, u) /\ Keyed(u, w) /\ Refusing(t, u, "write")
  <2> DEFINE x == [v EXCEPT !.dbgbuf = a]
  <2>1. Apart(t, x) /\ x.refused = t.refused
    BY <1>2 DEF Apart, StaticFields, SameText, SameKeys
  <2> HIDE DEF x
  <2>2. LET u == Respond(x) IN SameText(t, u) /\ Keyed(u, w) /\ Refusing(t, u, "write")
    BY <2>1, KeyedRespond
  <2> QED
    BY <2>2 DEF x
<1>3. LET u == WriteMemory(t, n, data) IN SameText(t, u) /\ Keyed(u, w) /\ Refusing(t, u, "write")
  <2> DEFINE v == [t EXCEPT !.written = data, !.memlen = n - Len(data)]
             u == WriteMemory(t, n, data)
  <2>1. Apart(t, v) /\ v.refused = t.refused
    BY DEF Apart, StaticFields, SameText, SameKeys
  <2>2. u = MoreData(v, "WRITE_MEM") \/ u = Respond([v EXCEPT !.dbgbuf = Answer("ok", 0)])
    BY DEF WriteMemory
  <2> HIDE DEF u, v
  <2>3. CASE u = MoreData(v, "WRITE_MEM")
    BY <1>1, <2>1, <2>3 DEF u
  <2>4. CASE u = Respond([v EXCEPT !.dbgbuf = Answer("ok", 0)])
    BY <1>2, <2>1, <2>4 DEF u
  <2> QED
    BY <2>2, <2>3, <2>4
<1>4. ASSUME t.dbgstate = "WRITE_MEM"
      PROVE  LET u == WriteMemoryData(t, data) IN SameText(t, u) /\ Keyed(u, w) /\ Refusing(t, u, "write")
  <2> DEFINE len == Lesser(Len(data), t.memlen)
             v == [t EXCEPT !.memlen = @ - len, !.written = @ \o SubSeq(data, 1, len)]
             u == WriteMemoryData(t, data)
  <2>1. Apart(t, v) /\ v.refused = t.refused /\ v.dbgstate = "WRITE_MEM"
    BY <1>4 DEF Apart, StaticFields, SameText, SameKeys
  <2>2. u = MoreData(v, v.dbgstate) \/ u = Respond([v EXCEPT !.dbgbuf = Answer("ok", 0)])
    BY DEF WriteMemoryData
  <2> HIDE DEF u, v
  <2>3. CASE u = MoreData(v, v.dbgstate)
    BY <1>1, <2>1, <2>3 DEF u
  <2>4. CASE u = Respond([v EXCEPT !.dbgbuf = Answer("ok", 0)])
    BY <1>2, <2>1, <2>4 DEF u
  <2> QED
    BY <2>2, <2>3, <2>4
<1> QED
  BY <1>3, <1>4

\* What the host types is written into its ring, where there is room for it, and more may follow.
LEMMA KeysPut ==
    ASSUME NEW t, Device(t), Rings(t), NEW w, InKeys(t, w), NEW n \in Nat, n <= RecvFree(t),
           NEW v, v = Typed(t, n),
           NEW x, DOMAIN x = StaticFields, SameText(v, x), SameKeys(v, x), x.refused = v.refused,
           NEW u, \/ u = Respond(x)
                  \/ x.memlen <= RecvFree(t) - n /\ \E state : u = MoreData(x, state)
    PROVE  SameText(t, u) /\ Keyed(u, w) /\ Refusing(t, u, "con_write")
<1>1. SameText(t, v) /\ v.refused = t.refused
  BY DEF Typed, Device, StaticFields, SameText
<1>2. InKeys(v, w) /\ RecvFree(v) = RecvFree(t) - n
  BY TypedKeys
<1>3. InKeys(x, w) /\ RecvFree(x) = RecvFree(v)
  BY <1>2, KeysApart
<1>4. Apart(x, u) /\ u.refused = x.refused
  BY CommandGoesOn
<1>5. InKeys(u, w) /\ RecvFree(u) = RecvFree(x)
  BY <1>3, <1>4, KeysApart DEF Apart
<1>6. u.dbgstate = "WRITE_CONSOLE" => u.memlen = x.memlen /\ x.memlen <= RecvFree(t) - n
  BY CommandGoesOn
<1>7. SameText(t, u)
  BY <1>1, <1>4 DEF Apart, SameText
<1> QED
  BY <1>1, <1>2, <1>3, <1>4, <1>5, <1>6, <1>7 DEF Keyed, Refusing

\* The first packet of what the host types, and another one.
LEMMA ConsoleKeyed ==
    ASSUME NEW t, Device(t), Rings(t), NEW w, Keyed(t, w), NEW n \in Nat, NEW data, Len(data) \in Nat
    PROVE  /\ LET u == WriteConsole(t, n) IN SameText(t, u) /\ Keyed(u, w) /\ Refusing(t, u, "con_write")
           /\ t.dbgstate = "WRITE_CONSOLE" =>
                LET u == WriteConsoleData(t, data)
                IN  SameText(t, u) /\ Keyed(u, w) /\ Refusing(t, u, "con_write")
<1>1. InKeys(t, w) /\ (t.dbgstate = "WRITE_CONSOLE" => t.memlen <= RecvFree(t)) /\ t.memlen \in Nat
  BY DEF Keyed, Device
<1>2. RecvFree(t) \in Nat
  <2>1. /\ RecvSize \in Nat \ {0} /\ RecvFree(t) = RecvSize - 1 - dbgconsole_getavailable(t)
        /\ dbgconsole_getavailable(t) \in 0 .. RecvSize - 1
    BY KeyFacts
  <2> QED
    BY <2>1
<1>4. LET u == WriteConsole(t, n) IN SameText(t, u) /\ Keyed(u, w) /\ Refusing(t, u, "con_write")
  <2> DEFINE total == Lesser(RecvFree(t), n)
             now == Lesser(AnswerData, total)
             v == Typed(t, now)
             x == [v EXCEPT !.dbgbuf = Answer("ok", total)]
             y == [x EXCEPT !.memlen = total - now]
             u == WriteConsole(t, n)
  <2>1. AnswerData \in Nat
    BY UsbAssumption DEF AnswerData
  <2>2. total \in Nat /\ total <= RecvFree(t)
    BY <1>2 DEF Lesser
  <2>3. u = MoreData(y, "WRITE_CONSOLE") \/ u = Respond(x)
    BY DEF WriteConsole
  <2> HIDE DEF total
  <2>4. now \in Nat /\ now <= RecvFree(t) /\ total - now <= RecvFree(t) - now
    BY <1>2, <2>1, <2>2 DEF Lesser
  <2> HIDE DEF now
  <2>5. DOMAIN v = StaticFields
    BY <2>4, TypedEffect DEF Device
  <2>6. /\ DOMAIN x = StaticFields /\ SameText(v, x) /\ SameKeys(v, x) /\ x.refused = v.refused
    BY <2>5 DEF StaticFields, SameText, SameKeys
  <2>7. /\ DOMAIN y = StaticFields /\ SameText(x, y) /\ SameKeys(x, y) /\ y.refused = x.refused
        /\ y.memlen = total - now
    BY <2>6 DEF StaticFields, SameText, SameKeys
  <2>8. v = Typed(t, now)
    OBVIOUS
  <2> HIDE DEF v, x, y, u
  <2>9. SameText(v, y) /\ SameKeys(v, y) /\ y.refused = v.refused
    BY <2>6, <2>7 DEF SameText, SameKeys
  <2>10. SameText(t, u) /\ Keyed(u, w) /\ Refusing(t, u, "con_write")
    <3>1. CASE u = Respond(x)
      BY <1>1, <2>4, <2>6, <2>8, <3>1, KeysPut
    <3>2. CASE u = MoreData(y, "WRITE_CONSOLE")
      <4>1. y.memlen <= RecvFree(t) - now /\ \E state : u = MoreData(y, state)
        BY <2>4, <2>7, <3>2
      <4> QED
        BY <1>1, <2>4, <2>7, <2>8, <2>9, <4>1, KeysPut
    <3> QED
      BY <2>3, <3>1, <3>2
  <2> QED
    BY <2>10 DEF u
<1>5. ASSUME t.dbgstate = "WRITE_CONSOLE"
      PROVE  LET u == WriteConsoleData(t, data)
             IN  SameText(t, u) /\ Keyed(u, w) /\ Refusing(t, u, "con_write")
  <2> DEFINE bytes == Lesser(Len(data), t.memlen)
             v == Typed(t, bytes)
             x == [v EXCEPT !.memlen = @ - bytes]
             u == WriteConsoleData(t, data)
  <2>1. bytes \in Nat /\ bytes <= t.memlen
    BY <1>1 DEF Lesser
  <2>2. u = MoreData(x, x.dbgstate) \/ u = Respond(x)
    BY DEF WriteConsoleData
  <2> HIDE DEF bytes
  <2>3. bytes <= RecvFree(t) /\ t.memlen - bytes <= RecvFree(t) - bytes
    BY <1>1, <1>2, <1>5, <2>1
  <2>4. DOMAIN v = StaticFields /\ v.memlen = t.memlen
    BY <2>1, TypedEffect, ZenonT(60) DEF Device, SameLeft
  <2>5. /\ DOMAIN x = StaticFields /\ SameText(v, x) /\ SameKeys(v, x) /\ x.refused = v.refused
        /\ x.memlen = t.memlen - bytes
    BY <2>4 DEF StaticFields, SameText, SameKeys
  <2>6. v = Typed(t, bytes)
    OBVIOUS
  <2> HIDE DEF v, x, u
  <2>7. u = Respond(x) \/ (x.memlen <= RecvFree(t) - bytes /\ \E state : u = MoreData(x, state))
    BY <2>2, <2>3, <2>5
  <2>8. SameText(t, u) /\ Keyed(u, w) /\ Refusing(t, u, "con_write")
    BY <1>1, <2>1, <2>3, <2>5, <2>6, <2>7, KeysPut
  <2> QED
    BY <2>8 DEF u
<1> QED
  BY <1>4, <1>5

\* The other commands.
LEMMA CommandKeyed ==
    ASSUME NEW t, DOMAIN t = StaticFields, NEW w, Keyed(t, w), NEW kind \in CommandKinds \ {"write", "con_write"},
           NEW n, NEW data
    PROVE  LET u == Command(t, [kind |-> kind, units |-> n], data)
           IN  SameText(t, u) /\ Keyed(u, w) /\ Refusing(t, u, kind)
<1> DEFINE r == [kind |-> kind, units |-> n]
<1>1. ASSUME NEW v, Apart(t, v), v.refused = t.refused
      PROVE  LET u == Respond(v) IN SameText(t, u) /\ Keyed(u, w) /\ Refusing(t, u, kind)
  BY <1>1, KeyedRespond
<1>2. CASE kind \in {"info", "bad"}
  <2> DEFINE v == [t EXCEPT !.dbgbuf = Answer(IF kind = "info" THEN "ok" ELSE "unsupported", 0)]
  <2>1. Apart(t, v) /\ v.refused = t.refused
    BY DEF Apart, StaticFields, SameText, SameKeys
  <2>2. Command(t, r, data) = Respond(v)
    BY <1>2 DEF Command, WorkerKinds
  <2> HIDE DEF v
  <2> QED
    BY <1>1, <2>1, <2>2
<1>3. CASE kind = "read"
  <2> DEFINE v == [t EXCEPT !.dbgbuf = Answer("ok", 0), !.memof = t.req, !.memlen = n]
  <2>1. Apart(t, v) /\ v.refused = t.refused
    BY DEF Apart, StaticFields, SameText, SameKeys
  <2>2. Command(t, r, data) = Respond(v)
    BY <1>3 DEF Command, WorkerKinds
  <2> HIDE DEF v
  <2> QED
    BY <1>1, <2>1, <2>2
<1>4. CASE kind = "flush"
  <2>1. Command(t, r, data) = Respond(t)
    BY <1>4 DEF Command, WorkerKinds
  <2>2. Apart(t, t)
    BY DEF Apart, SameText, SameKeys
  <2> QED
    BY <1>1, <2>1, <2>2
<1>5. CASE kind = "con_read"
  <2> DEFINE v == [t EXCEPT !.memof = t.req, !.count = n]
             y == Respond(v)
             u == [y EXCEPT !.dbgstate = "READ_CONSOLE"]
  <2>1. Apart(t, v) /\ v.refused = t.refused
    BY DEF Apart, StaticFields, SameText, SameKeys
  <2>2. Command(t, r, data) = u
    BY <1>5 DEF Command, ReadConsole, WorkerKinds
  <2> HIDE DEF v
  <2>3. Apart(v, y) /\ y.refused = v.refused
    BY <2>1, CommandGoesOn DEF Apart
  <2> HIDE DEF y
  <2>4. Apart(y, u) /\ u.refused = y.refused /\ u.dbgstate = "READ_CONSOLE"
    BY <2>3 DEF Apart, StaticFields, SameText, SameKeys
  <2> HIDE DEF u
  <2>5. Apart(t, u)
    BY <2>1, <2>3, <2>4, ApartTwice
  <2> QED
    BY <2>1, <2>2, <2>3, <2>4, <2>5, KeyedApart DEF Refusing
<1>6. CASE kind \in WorkerKinds
  <2>1. Command(t, r, data) = LeaveToWorker(t, r)
    BY <1>6 DEF Command, WorkerKinds
  <2>2. CASE t.dbgbusy
    <3> DEFINE v == [t EXCEPT !.refused = @ \cup {t.req}]
               u == Respond(v)
    <3>1. Command(t, r, data) = u
      BY <2>1, <2>2 DEF LeaveToWorker
    <3>2. Apart(t, v) /\ v.refused = t.refused \cup {t.req}
      BY DEF Apart, StaticFields, SameText, SameKeys
    <3> HIDE DEF v
    <3>3. Apart(v, u) /\ u.refused = v.refused /\ u.dbgstate = "RESPOND"
      BY <3>2, CommandGoesOn DEF Apart
    <3> HIDE DEF u
    <3>4. Apart(t, u)
      BY <3>2, <3>3, ApartTwice
    <3> QED
      BY <1>6, <3>1, <3>2, <3>3, <3>4, KeyedApart DEF Refusing
  <2>3. CASE ~t.dbgbusy
    <3> DEFINE u == [t EXCEPT !.dbgbuf = Answer(kind, n), !.dbgstate = "ASYNC", !.dbgbusy = TRUE, !.signalled = TRUE]
    <3>1. Command(t, r, data) = u
      BY <2>1, <2>3 DEF LeaveToWorker
    <3>2. Apart(t, u) /\ u.refused = t.refused /\ u.dbgstate = "ASYNC"
      BY DEF Apart, StaticFields, SameText, SameKeys
    <3> HIDE DEF u
    <3> QED
      BY <3>1, <3>2, KeyedApart DEF Refusing
  <2> QED
    BY <2>2, <2>3
<1> QED
  BY <1>2, <1>3, <1>4, <1>5, <1>6 DEF CommandKinds

\* A packet of the host's has come.
LEMMA DataKeyed ==
    ASSUME NEW t, Device(t), Rings(t), NEW w, Keyed(t, w), NEW kind \in CommandKinds, NEW n \in Nat,
           NEW data, Len(data) \in Nat, t.dbgstate = "WRITE_MEM" => kind = "write",
           t.dbgstate = "WRITE_CONSOLE" => kind = "con_write"
    PROVE  LET u == OutComplete(t, [kind |-> kind, units |-> n], data)
           IN  SameText(t, u) /\ Keyed(u, w) /\ Refusing(t, u, kind)
<1> DEFINE r == [kind |-> kind, units |-> n]
           u == OutComplete(t, r, data)
<1>1. CASE t.rxcallback = "data"
  <2> DEFINE v == [t EXCEPT !.out = FALSE, !.rxcallback = "none"]
             x == usb_ep0_start_rx(v, FALSE, "none")
  <2>1. /\ Apart(t, x) /\ SameRequest(t, x) /\ SameCommand(t, x) /\ SameAnswer(t, x) /\ SameLeft(t, x)
        /\ x.in = t.in /\ x.tx = t.tx /\ x.txcallback = t.txcallback /\ x.rxcallback = "none"
    BY DEF usb_ep0_start_rx, Device, StaticFields, Apart, SameText, SameKeys, SameRequest, SameCommand,
       SameAnswer, SameLeft
  <2>2. u = CASE x.dbgstate = "SETUP" -> Command(x, r, data)
              [] x.dbgstate = "WRITE_MEM" -> WriteMemoryData(x, data)
              [] x.dbgstate = "WRITE_CONSOLE" -> WriteConsoleData(x, data)
              [] OTHER -> Respond(x)
    BY <1>1 DEF OutComplete, usbdebug_handle_data
  <2> HIDE DEF u, v, x
  <2>3. Device(x) /\ Rings(x)
    BY <2>1 DEF Device, Rings, Apart, SameText, SameKeys, SameRequest, SameCommand, SameAnswer, SameLeft
  <2>4. Keyed(x, w) /\ DOMAIN x = StaticFields
    BY <2>1, KeysApart DEF Apart, Keyed, SameCommand, SameLeft
  <2>5. SameText(x, u) /\ Keyed(u, w) /\ Refusing(x, u, kind)
    <3>1. CASE x.dbgstate = "SETUP"
      <4>1. u = Command(x, r, data)
        BY <2>2, <3>1
      <4>2. CASE kind = "write"
        <5>1. u = WriteMemory(x, n, data)
          BY <4>1, <4>2 DEF Command, WorkerKinds
        <5> QED
          BY <2>4, <4>2, <5>1, MemoryKeyed
      <4>3. CASE kind = "con_write"
        <5>1. u = WriteConsole(x, n)
          BY <4>1, <4>3 DEF Command, WorkerKinds
        <5> QED
          BY <2>3, <2>4, <4>3, <5>1, ConsoleKeyed
      <4>4. CASE kind \notin {"write", "con_write"}
        BY <2>4, <4>1, <4>4, CommandKeyed
      <4> QED
        BY <4>2, <4>3, <4>4
    <3>2. CASE x.dbgstate = "WRITE_MEM"
      <4>1. u = WriteMemoryData(x, data) /\ kind = "write"
        BY <2>1, <2>2, <3>2 DEF SameCommand
      <4> QED
        BY <2>4, <3>2, <4>1, MemoryKeyed
    <3>3. CASE x.dbgstate = "WRITE_CONSOLE"
      <4>1. u = WriteConsoleData(x, data) /\ kind = "con_write"
        BY <2>1, <2>2, <3>3 DEF SameCommand
      <4> QED
        BY <2>3, <2>4, <3>3, <4>1, ConsoleKeyed
    <3>4. CASE x.dbgstate \notin {"SETUP", "WRITE_MEM", "WRITE_CONSOLE"}
      <4>1. u = Respond(x)
        BY <2>2, <3>4
      <4>2. Apart(x, x)
        BY <2>4 DEF Apart, SameText, SameKeys
      <4> QED
        BY <2>4, <4>1, <4>2, KeyedRespond
    <3> QED
      BY <3>1, <3>2, <3>3, <3>4
  <2> QED
    BY <2>1, <2>5 DEF u, Apart, SameText, Refusing, SameRequest
<1>2. CASE t.rxcallback # "data"
  <2>1. t.rxcallback \in {"none", "ack"} /\ DOMAIN t = StaticFields
    BY <1>2 DEF Device
  <2>2. Apart(t, u)
    BY <2>1, OutApart
  <2>3. SameRequest(t, u) /\ SameCommand(t, u) /\ SameLeft(t, u)
    BY <1>2, OutEffect
  <2> HIDE DEF u
  <2>4. Keyed(u, w)
    BY <2>2, <2>3, KeysApart DEF Apart, Keyed, SameCommand, SameLeft
  <2> QED
    BY <2>2, <2>3, <2>4 DEF u, Apart, Refusing, SameRequest
<1> QED
  BY <1>1, <1>2

-----------------------------------------------------------------------------
(* The invariant.                                                          *)

\* The text in the packet that the host gets next, and what it has seen with that.
Coming(t, h) == h.phase = "in" /\ OfConsole(h) /\ "in" \notin t.stalled /\ t.in # NoPacket
Ahead(t, h) == IF Coming(t, h) THEN SeeAll(h.seen, t.in.body) ELSE h.seen

\* What is said of host h when the ring goes on with c bytes of the message and byte next.
Sees(t, h, c, next) ==
    h.seen \in Seen /\ h.seen.ok /\ h.seen.last < next /\ Follows(Ahead(t, h), c, next)

\* The text flows on: p bytes of it were copied that the write index does not show yet.
Flowing(t, h, p) ==
    \E c \in 0 .. MarkSize, next \in Nat \ {0} : Ordered(t, c, next, p) /\ Sees(t, h, c, next)

\* p bytes were copied that the write index does not show yet.
Pending(p) ==
    /\ \A w \in Writers : writer[w].pc = "advance" => p = Piece(w)
    /\ (\A w \in Writers : writer[w].pc # "advance") => p = 0

\* The text flows on, unless one of the unguarded cases has happened.
Streaming == s.void \/ \E p \in Nat : Pending(p) /\ Flowing(s, host, p)

\* Who writes has locked the console, and dbgthread waits while it writes.
OneWriter ==
    /\ \A v, w \in Writers : Started(v) /\ Started(w) => v = w
    /\ worker.pc # "writing" => writer["worker"].pc = "idle"

\* What is about to be written has room.
WriterSizes ==
    \A w \in Writers :
        /\ writer[w].left >= 0
        /\ writer[w].pc \in {"copy", "advance"} =>
              /\ writer[w].n \in 0 .. writer[w].left
              /\ s.void \/ writer[w].n <= dbgconsole_getfree(s)

\* A request for an answer finds the answer or nothing, and a CONSOLE READ is never refused.
Answering(t, h) ==
    /\ h.kind = "answer" => t.dbgstate \in {"IDLE", "RESPOND", "READ_CONSOLE"} /\ t.req \notin t.late
    /\ t.refused \subseteq 0 .. t.req
    /\ h.kind = "con_read" => t.req \notin t.refused
    /\ h.asked.kind = "con_read" => h.asked.of \notin t.refused
    /\ h.phase = "in" /\ t.in # NoPacket /\ t.txcallback = "read_console" => OfConsole(h)

\* The invariant.
ConsoleInvariant ==
    UsbInvariant /\ Streaming /\ OneWriter /\ WriterSizes /\ Answering(s, host) /\ Keyed(s, reader)

-----------------------------------------------------------------------------
(* The text and the host.                                                  *)

\* The text flows on when the ring is left alone and the host sees what was coming.
LEMMA FlowsOn ==
    ASSUME NEW t, NEW u, SameText(t, u), NEW h, NEW g, NEW p, Flowing(t, h, p),
           \A c \in 0 .. MarkSize, next \in Nat \ {0} : Sees(t, h, c, next) => Sees(u, g, c, next)
    PROVE  Flowing(u, g, p)
BY OrderedApart DEF Flowing

\* It may see nothing new, what was on its way, or give up what it was about to get.
LEMMA SeesOn ==
    ASSUME NEW t, NEW u, NEW h, NEW g, NEW c \in 0 .. MarkSize, NEW next \in Nat \ {0}, Sees(t, h, c, next),
           \/ g.seen = h.seen /\ Ahead(u, g) = Ahead(t, h)
           \/ g.seen = Ahead(t, h) /\ Ahead(u, g) = g.seen
    PROVE  Sees(u, g, c, next)
BY DEF Sees, Follows

\* A host that gives up counts the text that was taken for it as dropped.
LEMMA SeesDropped ==
    ASSUME NEW t, Host(host), NEW c \in 0 .. MarkSize, NEW next \in Nat \ {0}, Sees(s, host, c, next)
    PROVE  Sees(t, Dropped(host), c, next)
<1> DEFINE g == Dropped(host)
<1>1. g.phase = "idle" /\ Ahead(t, g) = g.seen
  BY DEF Dropped, Idle, Host, Ahead, Coming
<1>2. host.seen \in Seen /\ host.seen.ok /\ host.seen.last < next /\ Follows(Ahead(s, host), c, next)
  BY DEF Sees
<1>3. CASE OfConsole(host)
  <2>1. g.seen = [host.seen EXCEPT !.marks = MarkSize]
    BY <1>3 DEF Dropped, Idle, Host, OfConsole
  <2> HIDE DEF g
  <2>2. MarkSize \in 0 .. MarkSize /\ MarkSize + c >= MarkSize
    BY Sizes
  <2>3. g.seen \in Seen /\ g.seen.last = host.seen.last /\ g.seen.marks = MarkSize
    BY <1>2, <2>1, <2>2 DEF Seen
  <2>4. g.seen.ok
    BY <1>2, <2>1, Zenon DEF Seen
  <2> QED
    BY <1>1, <1>2, <2>2, <2>3, <2>4 DEF g, Sees, Follows
<1>4. CASE ~OfConsole(host)
  <2>1. g.seen = [host.seen EXCEPT !.marks = @]
    BY <1>4 DEF Dropped, Idle, Host, OfConsole
  <2>3. [host.seen EXCEPT !.marks = @] = host.seen
    BY <1>2 DEF Seen
  <2>2. Ahead(s, host) = host.seen
    BY <1>4 DEF Ahead, Coming
  <2> QED
    BY <1>1, <1>2, <2>1, <2>2, <2>3 DEF Sees
<1> QED
  BY <1>3, <1>4

\* Text for the host was taken out of the ring.
LEMMA FlowsOut ==
    ASSUME NEW t, NEW u, NEW seen, NEW c \in 0 .. MarkSize, NEW next \in Nat \ {0}, NEW p,
           seen \in Seen, seen.ok, seen.last < next, Goes(t, u, seen, next, p),
           NEW g, g.seen = seen, Ahead(u, g) = SeeAll(seen, u.in.body)
    PROVE  Flowing(u, g, p)
<1>1. PICK d \in 0 .. MarkSize, after \in Nat \ {0} :
          after >= next /\ Ordered(u, d, after, p) /\ Follows(SeeAll(seen, u.in.body), d, after)
  BY DEF Goes
<1>2. seen.last < after
  <2>1. seen.last \in Int
    BY DEF Seen
  <2> QED
    BY <1>1, <2>1
<1> QED
  BY <1>1, <1>2 DEF Flowing, Sees

\* Nobody wrote in the meantime.
LEMMA PendingStays ==
    ASSUME NEW p, Pending(p), s'.sendwrite = s.sendwrite, writer' = writer
    PROVE  Pending(p)'
BY DEF Pending, Piece

\* A step that leaves the ring and its writers alone.
LEMMA RingAlone ==
    ASSUME Streaming, WriterSizes, OneWriter, SameText(s, s'), writer' = writer,
           worker'.pc # "writing" => worker.pc # "writing",
           \A c \in 0 .. MarkSize, next \in Nat \ {0} : Sees(s, host, c, next) => Sees(s', host', c, next)
    PROVE  Streaming' /\ WriterSizes' /\ OneWriter'
<1>1. Streaming'
  <2>1. CASE s.void
    BY <2>1, Zenon DEF Streaming, SameText
  <2>2. CASE \E p \in Nat : Pending(p) /\ Flowing(s, host, p)
    <3>1. PICK p \in Nat : Pending(p) /\ Flowing(s, host, p)
      BY <2>2
    <3>2. Pending(p)'
      BY <3>1, PendingStays DEF SameText
    <3>3. Flowing(s', host', p)
      BY <3>1, FlowsOn
    <3> QED
      BY <3>2, <3>3, Zenon DEF Streaming
  <2> QED
    BY <2>1, <2>2 DEF Streaming
<1>2. dbgconsole_getfree(s') = dbgconsole_getfree(s) /\ s'.void = s.void
  BY OrderedApart DEF SameText
<1>3. WriterSizes'
  BY <1>2 DEF WriterSizes
<1>4. OneWriter'
  BY DEF OneWriter, Started
<1> QED
  BY <1>1, <1>3, <1>4

\* A step that takes text for the host out of the ring.
LEMMA RingRead ==
    ASSUME Rings(s), Rings(s'), ThreadTypes, Streaming, WriterSizes, OneWriter, writer' = writer, worker' = worker,
           s'.sendwrite = s.sendwrite, s.void => s'.void,
           \A c \in 0 .. MarkSize, next \in Nat \ {0}, p \in Nat :
               Ordered(s, c, next, p) /\ Sees(s, host, c, next) /\ ~s'.void =>
                   Flowing(s', host', p) /\ Available(s') <= Available(s)
    PROVE  Streaming' /\ WriterSizes' /\ OneWriter'
<1>1. CASE s'.void
  <2>1. Streaming'
    BY <1>1, Zenon DEF Streaming
  <2>2. WriterSizes'
    BY <1>1, Zenon DEF WriterSizes
  <2>3. OneWriter'
    BY DEF OneWriter, Started
  <2> QED
    BY <2>1, <2>2, <2>3
<1>2. CASE ~s'.void
  <2>1. PICK p \in Nat : Pending(p) /\ Flowing(s, host, p)
    BY <1>2, Zenon DEF Streaming
  <2>2. Pending(p)'
    BY <2>1, PendingStays
  <2>3. Flowing(s', host', p) /\ Available(s') <= Available(s)
    BY <1>2, <2>1 DEF Flowing
  <2>4. Streaming'
    BY <2>1, <2>2, <2>3, Zenon DEF Streaming
  <2>5. dbgconsole_getfree(s) <= dbgconsole_getfree(s')
    <3>1. /\ dbgconsole_getfree(s) = SendSize - 1 - Available(s) /\ Available(s) \in 0 .. SendSize - 1
          /\ dbgconsole_getfree(s') = SendSize - 1 - Available(s') /\ Available(s') \in 0 .. SendSize - 1
          /\ SendSize \in Nat
      BY RingFacts
    <3> QED
      BY <2>3, <3>1
  <2>6. dbgconsole_getfree(s) \in Int /\ dbgconsole_getfree(s') \in Int
    BY RingFacts
  <2>7. WriterSizes'
    <3> SUFFICES ASSUME NEW w \in Writers
                 PROVE  /\ writer[w].left >= 0
                        /\ writer[w].pc \in {"copy", "advance"} =>
                              /\ writer[w].n \in 0 .. writer[w].left
                              /\ writer[w].n <= dbgconsole_getfree(s')
      BY DEF WriterSizes
    <3>1. /\ writer[w].left >= 0
          /\ writer[w].pc \in {"copy", "advance"} =>
                /\ writer[w].n \in 0 .. writer[w].left
                /\ s.void \/ writer[w].n <= dbgconsole_getfree(s)
      BY DEF WriterSizes
    <3>2. writer[w].n \in Int
      BY DEF ThreadTypes
    <3>3. ~s.void
      BY <1>2
    <3> QED
      BY <2>5, <2>6, <3>1, <3>2, <3>3
  <2>8. OneWriter'
    BY DEF OneWriter, Started
  <2> QED
    BY <2>4, <2>7, <2>8
<1> QED
  BY <1>1, <1>2

-----------------------------------------------------------------------------
(* The writers.                                                            *)

\* A step that keeps packets and stalls changes nothing of what is coming.
LEMMA SeesQuiet ==
    ASSUME NEW t, NEW u, u.in = t.in, u.stalled = t.stalled
    PROVE  \A h, c, next : Sees(t, h, c, next) => Sees(u, h, c, next)
BY DEF Sees, Ahead, Coming

\* What the operators that write the ring leave alone.
LEMMA Writing ==
    ASSUME NEW t, Device(t), NEW n
    PROVE  /\ LET u == PutText(t, n) IN SameKeys(t, u) /\ u.void = t.void /\ u.sendwrite = t.sendwrite
           /\ LET u == AdvanceWrite(t, n) IN SameKeys(t, u) /\ u.void = t.void
           /\ LET u == DropOldest(t, n) IN SameKeys(t, u) /\ u.void = t.void /\ u.sendwrite = t.sendwrite
BY DEF PutText, AdvanceWrite, DropOldest, Device, StaticFields, SameKeys

\* Writer w goes on.
Proceeds(w, x) == writer' = [writer EXCEPT ![w] = x]

\* The others stay where they are.
LEMMA OtherWriters ==
    ASSUME ThreadTypes, NEW w \in Writers, NEW x, Proceeds(w, x)
    PROVE  writer'[w] = x /\ \A v \in Writers : v # w => writer'[v] = writer[v]
BY DEF ThreadTypes, Proceeds

\* Still one writer writes, if it was the one that did or nobody was.
LEMMA OneWriterMoves ==
    ASSUME ThreadTypes, OneWriter, NEW w \in Writers, NEW x, Proceeds(w, x),
           x.pc \notin {"idle", "lock"} => Started(w) \/ \A v \in Writers : ~Started(v),
           worker' = worker, writer[w].pc # "idle" \/ w # "worker"
    PROVE  OneWriter'
<1>1. writer'[w] = x /\ \A v \in Writers : v # w => writer'[v] = writer[v]
  BY OtherWriters
<1>2. \A v \in Writers : v # w => (Started(v)' <=> Started(v))
  BY <1>1 DEF Started
<1>3. Started(w)' => Started(w) \/ \A v \in Writers : ~Started(v)
  BY <1>1 DEF Started
<1>4. worker'.pc # "writing" => writer'["worker"].pc = "idle"
  BY <1>1 DEF OneWriter, Writers
<1>5. \A u, v \in Writers : Started(u)' /\ Started(v)' => u = v
  BY <1>2, <1>3 DEF OneWriter
<1> QED
  BY <1>4, <1>5 DEF OneWriter

\* Still everything has room, if what writer w is about to write has.
LEMMA SizesMove ==
    ASSUME ThreadTypes, OneWriter, WriterSizes, NEW w \in Writers, NEW x, Proceeds(w, x),
           x.left >= 0,
           x.pc \in {"copy", "advance"} => x.n \in 0 .. x.left /\ (s'.void \/ x.n <= dbgconsole_getfree(s')),
           Started(w) \/ (s'.void = s.void /\ dbgconsole_getfree(s') = dbgconsole_getfree(s))
    PROVE  WriterSizes'
<1> SUFFICES ASSUME NEW v \in Writers
             PROVE  /\ writer'[v].left >= 0
                    /\ writer'[v].pc \in {"copy", "advance"} =>
                          /\ writer'[v].n \in 0 .. writer'[v].left
                          /\ s'.void \/ writer'[v].n <= dbgconsole_getfree(s')
  BY DEF WriterSizes
<1>1. CASE v = w
  BY <1>1, OtherWriters
<1>2. CASE v # w
  <2>1. writer'[v] = writer[v]
    BY <1>2, OtherWriters
  <2>2. /\ writer[v].left >= 0
        /\ writer[v].pc \in {"copy", "advance"} =>
              /\ writer[v].n \in 0 .. writer[v].left
              /\ s.void \/ writer[v].n <= dbgconsole_getfree(s)
    BY DEF WriterSizes
  <2>3. writer[v].pc \in {"copy", "advance"} => Started(v)
    BY DEF Started
  <2>4. Started(w) => ~Started(v)
    BY <1>2 DEF OneWriter
  <2> QED
    BY <2>1, <2>2, <2>3, <2>4
<1> QED
  BY <1>1, <1>2

\* Nobody else is about to move the write index when a writer is not.
LEMMA PendingMoves ==
    ASSUME ThreadTypes, NEW w \in Writers, NEW x, Proceeds(w, x), writer[w].pc # "advance", x.pc # "advance",
           s'.sendwrite = s.sendwrite, NEW p, Pending(p)
    PROVE  Pending(p)'
<1>1. writer'[w] = x /\ \A v \in Writers : v # w => writer'[v] = writer[v]
  BY OtherWriters
<1>2. \A v \in Writers : v # w => Piece(v)' = Piece(v)
  BY <1>1 DEF Piece
<1> QED
  BY <1>1, <1>2 DEF Pending

\* When a writer started, and is not about to, nobody is.
LEMMA NonePending ==
    ASSUME OneWriter, NEW w \in Writers, Started(w), writer[w].pc # "advance", NEW p, Pending(p)
    PROVE  p = 0
<1>1. \A v \in Writers : writer[v].pc = "advance" => Started(v)
  BY DEF Started
<1> QED
  BY <1>1 DEF OneWriter, Pending

\* A writer that leaves the ring alone.
LEMMA WriterLooks ==
    ASSUME ThreadTypes, Streaming, OneWriter, WriterSizes, NEW w \in Writers, NEW x, Proceeds(w, x),
           writer[w].pc # "advance", x.pc # "advance",
           x.pc \notin {"idle", "lock"} => Started(w) \/ \A v \in Writers : ~Started(v),
           worker' = worker, writer[w].pc # "idle" \/ w # "worker",
           x.left >= 0, x.pc = "copy" => x.n \in 0 .. x.left /\ x.n <= dbgconsole_getfree(s),
           SameText(s, s'), s'.in = s.in, s'.stalled = s.stalled, host' = host
    PROVE  Streaming' /\ WriterSizes' /\ OneWriter'
<1>1. OneWriter'
  BY OneWriterMoves
<1>2. dbgconsole_getfree(s') = dbgconsole_getfree(s) /\ s'.void = s.void /\ s'.sendwrite = s.sendwrite
  BY OrderedApart DEF SameText
<1>3. x.pc \in {"copy", "advance"} => x.n \in 0 .. x.left /\ (s'.void \/ x.n <= dbgconsole_getfree(s'))
  BY <1>2
<1>4. WriterSizes'
  BY <1>2, <1>3, SizesMove
<1>5. Streaming'
  <2>1. CASE s.void
    BY <1>2, <2>1, Zenon DEF Streaming
  <2>2. CASE \E p \in Nat : Pending(p) /\ Flowing(s, host, p)
    <3>1. PICK p \in Nat : Pending(p) /\ Flowing(s, host, p)
      BY <2>2
    <3>2. Pending(p)'
      BY <1>2, <3>1, PendingMoves
    <3>3. Flowing(s', host', p)
      BY <3>1, FlowsOn, SeesQuiet
    <3> QED
      BY <3>2, <3>3, Zenon DEF Streaming
  <2> QED
    BY <2>1, <2>2 DEF Streaming
<1> QED
  BY <1>1, <1>4, <1>5

\* The oldest text is dropped for the message: the host is told.
LEMMA FlowsDropped ==
    ASSUME NEW t, Device(t), Rings(t), NEW h, Flowing(t, h, 0), NEW n \in Nat, n + MarkSize <= Available(t)
    PROVE  Flowing(DropOldest(t, n), h, 0) /\ Available(DropOldest(t, n)) = Available(t) - n
<1> DEFINE u == DropOldest(t, n)
<1>1. PICK c \in 0 .. MarkSize, next \in Nat \ {0} : Ordered(t, c, next, 0) /\ Sees(t, h, c, next)
  BY DEF Flowing
<1> DEFINE after == next + (n + MarkSize - c)
<1>2. Ordered(u, MarkSize, after, 0) /\ Available(u) = Available(t) - n
  BY <1>1, DropOrdered
<1>3. n \in Int
  OBVIOUS
<1>4. Sees(u, h, c, next)
  <2>1. Quiet(t, u)
    BY <1>3, RingEffects
  <2> QED
    BY <1>1, <2>1, SeesQuiet DEF Quiet, Alike, SameStage
<1>5. MarkSize \in 0 .. MarkSize /\ after \in Nat \ {0} /\ after >= next
  BY Sizes
<1> HIDE DEF u, after
<1>6. Sees(u, h, MarkSize, after)
  <2>1. h.seen \in Seen /\ h.seen.ok /\ h.seen.last < next /\ Follows(Ahead(u, h), c, next)
    BY <1>4 DEF Sees
  <2>2. h.seen.last < after
    <3>1. h.seen.last \in Int
      BY <2>1 DEF Seen
    <3> QED
      BY <1>5, <2>1, <3>1
  <2>3. Ahead(u, h) \in Seen /\ Ahead(u, h).ok /\ Ahead(u, h).last < next
    BY <2>1 DEF Follows
  <2>4. Ahead(u, h).last < after /\ Ahead(u, h).marks + MarkSize >= MarkSize
    <3>1. Ahead(u, h).last \in Int /\ Ahead(u, h).marks \in Nat
      BY <2>3, Sizes DEF Seen
    <3> QED
      BY <1>5, <2>3, <3>1, Sizes
  <2> QED
    BY <2>1, <2>2, <2>3, <2>4 DEF Sees, Follows
<1> QED
  BY <1>2, <1>5, <1>6 DEF Flowing, u

\* Text is copied into the ring, and the write index goes over it.
LEMMA FlowsPut ==
    ASSUME NEW t, Device(t), Rings(t), NEW h, Flowing(t, h, 0), NEW p \in Nat, p <= dbgconsole_getfree(t)
    PROVE  Flowing(PutText(t, p), h, p)
<1>1. PICK c \in 0 .. MarkSize, next \in Nat \ {0} : Ordered(t, c, next, 0) /\ Sees(t, h, c, next)
  BY DEF Flowing
<1>2. c \in Nat /\ next \in Nat /\ p \in Int
  OBVIOUS
<1>3. Ordered(PutText(t, p), c, next, p)
  BY <1>1, <1>2, PutOrdered
<1>4. Quiet(t, PutText(t, p))
  BY <1>2, RingEffects
<1>5. Sees(PutText(t, p), h, c, next)
  BY <1>1, <1>4, SeesQuiet DEF Quiet, Alike, SameStage
<1> QED
  BY <1>3, <1>5 DEF Flowing

\* The write index goes over what was copied.
LEMMA FlowsAdvanced ==
    ASSUME NEW t, Device(t), Rings(t), NEW h, NEW p \in Nat, Flowing(t, h, p)
    PROVE  Flowing(AdvanceWrite(t, p), h, 0) /\ Available(AdvanceWrite(t, p)) = Available(t) + p
<1>1. PICK c \in 0 .. MarkSize, next \in Nat \ {0} : Ordered(t, c, next, p) /\ Sees(t, h, c, next)
  BY DEF Flowing
<1>2. c \in Nat /\ next \in Nat /\ p \in Int
  OBVIOUS
<1>3. Ordered(AdvanceWrite(t, p), c, next, 0) /\ Available(AdvanceWrite(t, p)) = Available(t) + p
  BY <1>1, <1>2, AdvanceOrdered
<1>4. Quiet(t, AdvanceWrite(t, p))
  BY <1>2, RingEffects
<1>5. Sees(AdvanceWrite(t, p), h, c, next)
  BY <1>1, <1>4, SeesQuiet DEF Quiet, Alike, SameStage
<1> QED
  BY <1>3, <1>5 DEF Flowing

\* The ghost flag is none of the ring's.
LEMMA FlowsFlagged ==
    ASSUME NEW t, Device(t), NEW b, NEW u, u = [t EXCEPT !.void = b]
    PROVE  /\ SameKeys(t, u) /\ u.sendwrite = t.sendwrite /\ (u.void <=> b)
           /\ Available(u) = Available(t) /\ dbgconsole_getfree(u) = dbgconsole_getfree(t)
           /\ \A h, p : Flowing(t, h, p) => Flowing(u, h, p)
<1>1. /\ u.sendbuf = t.sendbuf /\ u.sendread = t.sendread /\ u.sendwrite = t.sendwrite /\ u.text = t.text
      /\ u.in = t.in /\ u.stalled = t.stalled /\ SameKeys(t, u)
  BY DEF Device, StaticFields, SameKeys
<1>2. u.void <=> b
  BY Zenon DEF Device, StaticFields
<1>3. Available(u) = Available(t) /\ dbgconsole_getfree(u) = dbgconsole_getfree(t)
  BY <1>1 DEF Available, dbgconsole_getfree
<1>4. \A c, next, p : Ordered(t, c, next, p) => Ordered(u, c, next, p)
  BY <1>1, <1>3 DEF Ordered, Byte
<1>5. \A h, c, next : Sees(t, h, c, next) => Sees(u, h, c, next)
  BY <1>1, SeesQuiet
<1> HIDE DEF Ordered, Sees
<1>6. \A h, p : Flowing(t, h, p) => Flowing(u, h, p)
  BY <1>4, <1>5 DEF Flowing
<1> QED
  BY <1>1, <1>2, <1>3, <1>6

\* What is left of a message is a number, and what is dropped for it fits.
LEMMA PieceSizes ==
    ASSUME Rings(s), ThreadTypes, WriterSizes, NEW w \in Writers
    PROVE  /\ writer[w].left \in Nat /\ Droppable(writer[w].left) \in 0 .. writer[w].left
           /\ writer[w].pc \in {"copy", "advance"} =>
                 /\ writer[w].n \in 0 .. writer[w].left
                 /\ Piece(w) \in 0 .. writer[w].n
                 /\ s.void \/ Piece(w) <= dbgconsole_getfree(s)
<1>1. writer[w].left \in Nat
  BY DEF WriterSizes, ThreadTypes
<1>2. Droppable(writer[w].left) \in 0 .. writer[w].left
  BY <1>1, Sizes DEF Droppable, Fewer
<1>3. ASSUME writer[w].pc \in {"copy", "advance"}
      PROVE  /\ writer[w].n \in 0 .. writer[w].left /\ Piece(w) \in 0 .. writer[w].n
             /\ s.void \/ Piece(w) <= dbgconsole_getfree(s)
  <2>1. writer[w].n \in 0 .. writer[w].left /\ (s.void \/ writer[w].n <= dbgconsole_getfree(s))
    BY <1>3 DEF WriterSizes
  <2>2. SendSize - s.sendwrite \in Nat
    BY Sizes DEF Rings
  <2>3. Piece(w) \in 0 .. writer[w].n
    BY <1>1, <2>1, <2>2 DEF Piece, Fewer
  <2>4. dbgconsole_getfree(s) \in Int
    BY RingFacts
  <2>5. writer[w].n <= dbgconsole_getfree(s) => Piece(w) <= dbgconsole_getfree(s)
    BY <1>1, <2>1, <2>3, <2>4
  <2> QED
    BY <2>1, <2>3, <2>5
<1> QED
  BY <1>1, <1>2, <1>3

\* A writer starts, or looks for room.
LEMMA WriterWaits ==
    ASSUME UsbInvariant, Streaming, OneWriter, WriterSizes, NEW w \in Writers,
           console_locks(w) \/ makespace_waited(w) \/ makespace_looks(w)
    PROVE  Streaming' /\ WriterSizes' /\ OneWriter' /\ SameKeys(s, s')
<1>1. Device(s) /\ Rings(s) /\ ThreadTypes
  BY DEF UsbInvariant
<1>2. writer[w].left \in Nat
  BY <1>1, PieceSizes
<1>3. ASSUME NEW x, Proceeds(w, x), x.left = writer[w].left, x.pc \in {"space", "wait", "full"},
             Started(w) \/ \A v \in Writers : ~Started(v), writer[w].pc \notin {"idle", "advance"},
             SameText(s, s'), s'.in = s.in, s'.stalled = s.stalled, host' = host, worker' = worker
      PROVE  Streaming' /\ WriterSizes' /\ OneWriter'
  BY <1>1, <1>2, <1>3, WriterLooks
<1>4. CASE console_locks(w) \/ makespace_waited(w)
  <2> DEFINE x == [writer[w] EXCEPT !.pc = "space"]
  <2>1. Proceeds(w, x) /\ s' = s /\ host' = host /\ worker' = worker /\ writer[w].pc \in {"lock", "wait"}
    BY <1>4 DEF console_locks, makespace_waited, Proceeds
  <2>2. x.left = writer[w].left /\ x.pc = "space"
    BY <1>1 DEF ThreadTypes
  <2>3. Started(w) \/ \A v \in Writers : ~Started(v)
    BY <1>4 DEF console_locks, makespace_waited, Started
  <2>4. SameText(s, s') /\ SameKeys(s, s')
    BY <2>1 DEF SameText, SameKeys
  <2> HIDE DEF x
  <2> QED
    BY <1>3, <2>1, <2>2, <2>3, <2>4
<1>5. CASE makespace_looks(w)
  <2> DEFINE free == dbgconsole_getfree(s)
  <2>1. writer[w].pc = "space" /\ host' = host /\ worker' = worker
    BY <1>5 DEF makespace_looks
  <2>2. Started(w)
    BY <2>1 DEF Started
  <2>3. CASE free > 0 /\ writer' = [writer EXCEPT ![w].pc = "copy", ![w].n = Fewer(free, writer[w].left)] /\ s' = s
    <3> DEFINE x == [writer[w] EXCEPT !.pc = "copy", !.n = Fewer(free, writer[w].left)]
    <3>1. Proceeds(w, x)
      BY <2>3 DEF Proceeds
    <3>2. x.left = writer[w].left /\ x.pc = "copy" /\ x.n = Fewer(free, writer[w].left)
      BY <1>1 DEF ThreadTypes
    <3>3. free \in Nat
      BY <1>1, RingFacts
    <3>4. Fewer(free, writer[w].left) \in 0 .. writer[w].left /\ Fewer(free, writer[w].left) <= free
      BY <1>2, <3>3 DEF Fewer
    <3>5. SameText(s, s') /\ SameKeys(s, s') /\ s'.in = s.in /\ s'.stalled = s.stalled
      BY <2>3 DEF SameText, SameKeys
    <3> HIDE DEF x
    <3> QED
      BY <1>1, <1>2, <2>1, <2>2, <3>1, <3>2, <3>4, <3>5, WriterLooks
  <2>4. ASSUME NEW to \in {"wait", "full"}, writer' = [writer EXCEPT ![w].pc = to],
               s' = s \/ s' = [s EXCEPT !.attached = FALSE]
        PROVE  Streaming' /\ WriterSizes' /\ OneWriter' /\ SameKeys(s, s')
    <3> DEFINE x == [writer[w] EXCEPT !.pc = to]
    <3>1. Proceeds(w, x)
      BY <2>4 DEF Proceeds
    <3>2. x.left = writer[w].left /\ x.pc = to
      BY <1>1 DEF ThreadTypes
    <3>3. SameText(s, s') /\ SameKeys(s, s') /\ s'.in = s.in /\ s'.stalled = s.stalled
      BY <1>1, <2>4 DEF Device, StaticFields, SameText, SameKeys
    <3> HIDE DEF x
    <3> QED
      BY <1>3, <2>1, <2>2, <3>1, <3>2, <3>3
  <2> QED
    BY <1>5, <2>3, <2>4 DEF makespace_looks
<1> QED
  BY <1>4, <1>5

\* A writer drops the oldest text of a full ring.
LEMMA WriterDrops ==
    ASSUME UsbInvariant, Streaming, OneWriter, WriterSizes, NEW w \in Writers, makespace_drops(w)
    PROVE  Streaming' /\ WriterSizes' /\ OneWriter' /\ SameKeys(s, s')
<1> DEFINE n == Droppable(writer[w].left)
           v == DropOldest(s, n)
           b == v.void \/ Available(s) < n + MarkSize
           x == [writer[w] EXCEPT !.pc = "copy", !.n = n]
<1>1. Device(s) /\ Rings(s) /\ ThreadTypes
  BY DEF UsbInvariant
<1>2. writer[w].left \in Nat /\ n \in 0 .. writer[w].left
  BY <1>1, PieceSizes
<1>3. s' = [v EXCEPT !.void = b] /\ host' = host /\ worker' = worker /\ writer[w].pc = "full"
  BY DEF makespace_drops
<1>4. writer' = [writer EXCEPT ![w].pc = "copy", ![w].n = n]
  BY Zenon DEF makespace_drops
<1> HIDE DEF n
<1>5. Proceeds(w, x)
  BY <1>4 DEF Proceeds
<1>6. x.left = writer[w].left /\ x.pc = "copy" /\ x.n = n
  BY <1>1 DEF ThreadTypes
<1>7. Device(v) /\ Rings(v) /\ SameKeys(s, v) /\ (v.void = s.void) /\ v.sendwrite = s.sendwrite
  BY <1>1, <1>2, RingEffects, Writing
<1>8. Started(w)
  BY <1>3 DEF Started
<1> HIDE DEF v, x
<1>9. /\ SameKeys(v, s') /\ s'.sendwrite = v.sendwrite /\ (s'.void <=> b)
      /\ dbgconsole_getfree(s') = dbgconsole_getfree(v) /\ \A h, p : Flowing(v, h, p) => Flowing(s', h, p)
  BY <1>3, <1>7, FlowsFlagged
<1>10. OneWriter'
  BY <1>1, <1>3, <1>5, <1>8, OneWriterMoves
<1>11. SameKeys(s, s')
  BY <1>7, <1>9 DEF SameKeys
<1>12. CASE b
  <2>1. s'.void
    BY <1>9, <1>12
  <2>2. Streaming'
    BY <2>1, Zenon DEF Streaming
  <2>3. x.left >= 0 /\ x.n \in 0 .. x.left
    BY <1>2, <1>6
  <2>4. x.pc \in {"copy", "advance"} => x.n \in 0 .. x.left /\ (s'.void \/ x.n <= dbgconsole_getfree(s'))
    BY <2>1, <2>3, Zenon
  <2>5. WriterSizes'
    BY <1>1, <1>5, <1>8, <2>3, <2>4, SizesMove
  <2> QED
    BY <1>10, <1>11, <2>2, <2>5
<1>13. CASE ~b
  <2>1. ~s.void /\ ~(Available(s) < n + MarkSize)
    BY <1>7, <1>13, Zenon
  <2>2. n \in Nat /\ n + MarkSize <= Available(s)
    <3>1. Available(s) \in Int
      BY <1>1, RingFacts
    <3> QED
      BY <1>2, <2>1, <3>1, Sizes
  <2>3. PICK p \in Nat : Pending(p) /\ Flowing(s, host, p)
    BY <2>1, Zenon DEF Streaming
  <2>4. p = 0
    BY <1>3, <1>8, <2>3, NonePending
  <2>5. Flowing(v, host, 0) /\ Available(v) = Available(s) - n
    BY <1>1, <2>2, <2>3, <2>4, FlowsDropped DEF v
  <2>6. Pending(0)'
    BY <1>1, <1>3, <1>5, <1>6, <1>7, <1>9, <2>3, <2>4, PendingMoves
  <2>7. Flowing(s', host', 0)
    BY <1>3, <1>9, <2>5
  <2>8. Streaming'
    <3>1. 0 \in Nat
      OBVIOUS
    <3> QED
      BY <2>6, <2>7, <3>1, Zenon DEF Streaming
  <2>9. n <= dbgconsole_getfree(s')
    <3>1. /\ dbgconsole_getfree(v) = SendSize - 1 - Available(v) /\ Available(s) \in 0 .. SendSize - 1
          /\ SendSize \in Nat
      BY <1>1, <1>7, RingFacts
    <3> QED
      BY <1>9, <2>2, <2>5, <3>1
  <2>10. WriterSizes'
    BY <1>1, <1>2, <1>5, <1>6, <1>8, <2>9, SizesMove
  <2> QED
    BY <1>10, <1>11, <2>8, <2>10
<1> QED
  BY <1>12, <1>13

\* A writer copies a piece of its text.
LEMMA WriterCopies ==
    ASSUME UsbInvariant, Streaming, OneWriter, WriterSizes, NEW w \in Writers, write_copies(w)
    PROVE  Streaming' /\ WriterSizes' /\ OneWriter' /\ SameKeys(s, s')
<1> DEFINE p == Piece(w)
           x == [writer[w] EXCEPT !.pc = "advance"]
<1>1. Device(s) /\ Rings(s) /\ ThreadTypes
  BY DEF UsbInvariant
<1>2. s' = PutText(s, p) /\ host' = host /\ worker' = worker /\ writer[w].pc = "copy" /\ Proceeds(w, x)
  BY DEF write_copies, Proceeds
<1>3. /\ writer[w].left \in Nat /\ writer[w].n \in 0 .. writer[w].left /\ p \in 0 .. writer[w].n
      /\ s.void \/ p <= dbgconsole_getfree(s)
  BY <1>1, <1>2, PieceSizes
<1>4. x.left = writer[w].left /\ x.pc = "advance" /\ x.n = writer[w].n
  BY <1>1 DEF ThreadTypes
<1> HIDE DEF p, x
<1>5. SameKeys(s, s') /\ s'.void = s.void /\ s'.sendwrite = s.sendwrite
  BY <1>1, <1>2, Writing
<1>6. Started(w)
  BY <1>2 DEF Started
<1>7. OneWriter'
  BY <1>1, <1>2, <1>6, OneWriterMoves
<1>8. dbgconsole_getfree(s') = dbgconsole_getfree(s)
  <2>1. s'.sendread = s.sendread
    BY <1>1, <1>2 DEF PutText, Device, StaticFields
  <2> QED
    BY <1>5, <2>1 DEF dbgconsole_getfree
<1>9. WriterSizes'
  <2>1. x.left >= 0 /\ x.n \in 0 .. x.left
    BY <1>3, <1>4
  <2>2. s'.void \/ x.n <= dbgconsole_getfree(s')
    BY <1>2, <1>4, <1>5, <1>8 DEF WriterSizes
  <2> QED
    BY <1>1, <1>2, <1>6, <2>1, <2>2, SizesMove
<1>10. Streaming'
  <2>1. CASE s.void
    BY <1>5, <2>1, Zenon DEF Streaming
  <2>2. CASE ~s.void
    <3>1. PICK q \in Nat : Pending(q) /\ Flowing(s, host, q)
      BY <2>2, Zenon DEF Streaming
    <3>2. q = 0
      BY <1>2, <1>6, <3>1, NonePending
    <3>3. p \in Nat /\ p <= dbgconsole_getfree(s)
      BY <1>3, <2>2
    <3>4. Flowing(s', host', p)
      BY <1>1, <1>2, <3>1, <3>2, <3>3, FlowsPut
    <3>5. PICK m \in Nat : m = p
      BY <3>3
    <3>6. Pending(m)'
      <4>1. writer'[w] = x /\ \A v \in Writers : v # w => writer'[v] = writer[v]
        BY <1>1, <1>2, OtherWriters
      <4>2. Piece(w)' = p
        BY <1>4, <1>5, <4>1 DEF Piece, p
      <4>3. \A v \in Writers : v # w => writer[v].pc # "advance"
        BY <1>6 DEF OneWriter, Started
      <4> QED
        BY <1>4, <3>5, <4>1, <4>2, <4>3 DEF Pending
    <3> QED
      BY <3>4, <3>5, <3>6, Zenon DEF Streaming
  <2> QED
    BY <2>1, <2>2
<1> QED
  BY <1>5, <1>7, <1>9, <1>10

\* It moves the write index.
LEMMA WriterAdvances ==
    ASSUME UsbInvariant, Streaming, OneWriter, WriterSizes, NEW w \in Writers, write_advances(w)
    PROVE  Streaming' /\ WriterSizes' /\ OneWriter' /\ SameKeys(s, s')
<1> DEFINE p == Piece(w)
           left == writer[w].left - p
           n == writer[w].n - p
           x == [pc |-> IF n > 0 THEN "copy" ELSE IF left > 0 THEN "space" ELSE "idle", left |-> left, n |-> n]
<1>1. Device(s) /\ Rings(s) /\ ThreadTypes
  BY DEF UsbInvariant
<1>2. s' = AdvanceWrite(s, p) /\ host' = host /\ worker' = worker /\ writer[w].pc = "advance"
  BY DEF write_advances
<1>3. Proceeds(w, x)
  BY Zenon DEF write_advances, Proceeds
<1>4. /\ writer[w].left \in Nat /\ writer[w].n \in 0 .. writer[w].left /\ p \in 0 .. writer[w].n
  BY <1>1, <1>2, PieceSizes
<1>5. x.left = left /\ x.pc \in {"copy", "space", "idle"} /\ x.n = n
  OBVIOUS
<1> HIDE DEF p, x
<1>6. left \in Nat /\ n \in 0 .. left /\ n \in Nat
  BY <1>4
<1>7. SameKeys(s, s') /\ s'.void = s.void
  BY <1>1, <1>2, Writing
<1>8. Started(w)
  BY <1>2 DEF Started
<1>9. OneWriter'
  BY <1>1, <1>2, <1>3, <1>8, OneWriterMoves
<1>10. x.left >= 0 /\ x.n \in 0 .. x.left
  BY <1>5, <1>6
<1>11. CASE s.void
  <2>1. s'.void
    BY <1>7, <1>11, Zenon
  <2>2. Streaming'
    BY <2>1, Zenon DEF Streaming
  <2>3. x.pc \in {"copy", "advance"} => x.n \in 0 .. x.left /\ (s'.void \/ x.n <= dbgconsole_getfree(s'))
    BY <1>10, <2>1, Zenon
  <2>4. WriterSizes'
    BY <1>1, <1>3, <1>8, <1>10, <2>3, SizesMove
  <2> QED
    BY <1>7, <1>9, <2>2, <2>4
<1>12. CASE ~s.void
  <2>1. PICK q \in Nat : Pending(q) /\ Flowing(s, host, q)
    BY <1>12, Zenon DEF Streaming
  <2>2. q = p
    BY <1>2, <2>1 DEF Pending, p
  <2>3. Flowing(s', host', 0) /\ Available(s') = Available(s) + p
    BY <1>1, <1>2, <2>1, <2>2, FlowsAdvanced
  <2>4. Pending(0)'
    <3>1. writer'[w] = x /\ \A v \in Writers : v # w => writer'[v] = writer[v]
      BY <1>1, <1>3, OtherWriters
    <3>2. \A v \in Writers : v # w => writer[v].pc # "advance"
      BY <1>8 DEF OneWriter, Started
    <3> QED
      BY <1>5, <3>1, <3>2 DEF Pending
  <2>5. 0 \in Nat
    OBVIOUS
  <2>6. Streaming'
    BY <2>3, <2>4, <2>5, Zenon DEF Streaming
  <2>7. n <= dbgconsole_getfree(s')
    <3>1. writer[w].n <= dbgconsole_getfree(s)
      BY <1>2, <1>12 DEF WriterSizes
    <3>2. p \in Int
      BY <1>4
    <3>3. Rings(s')
      BY <1>1, <1>2, <3>2, RingEffects
    <3>4. /\ dbgconsole_getfree(s) = SendSize - 1 - Available(s) /\ Available(s) \in 0 .. SendSize - 1
          /\ dbgconsole_getfree(s') = SendSize - 1 - Available(s') /\ SendSize \in Nat
      BY <1>1, <3>3, RingFacts
    <3> QED
      BY <1>4, <2>3, <3>1, <3>4
  <2>8. WriterSizes'
    BY <1>1, <1>3, <1>5, <1>8, <1>10, <2>7, SizesMove
  <2> QED
    BY <1>7, <1>9, <2>6, <2>8
<1> QED
  BY <1>11, <1>12

\* A thread begins to write.
LEMMA ThreadWrites ==
    ASSUME UsbInvariant, Streaming, OneWriter, WriterSizes, NEW length \in work.writes, thread_writes(length)
    PROVE  Streaming' /\ WriterSizes' /\ OneWriter' /\ SameKeys(s, s')
<1> DEFINE x == [pc |-> "lock", left |-> length, n |-> 0]
<1>1. ThreadTypes /\ length \in Nat
  BY DEF UsbInvariant, ThreadTypes
<1>2. /\ Proceeds("thread", x) /\ s' = s /\ host' = host /\ worker' = worker
      /\ writer["thread"].pc = "idle" /\ "thread" \in Writers
  BY DEF thread_writes, Proceeds, Writers
<1>3. SameText(s, s') /\ SameKeys(s, s') /\ s'.in = s.in /\ s'.stalled = s.stalled
  BY <1>2 DEF SameText, SameKeys
<1>4. x.left >= 0 /\ x.pc = "lock"
  BY <1>1
<1> HIDE DEF x
<1> QED
  BY <1>1, <1>2, <1>3, <1>4, WriterLooks

\* So does dbgthread.
LEMMA WorkerWrites ==
    ASSUME UsbInvariant, Streaming, OneWriter, WriterSizes, worker_runs
    PROVE  Streaming' /\ WriterSizes' /\ OneWriter' /\ SameKeys(s, s')
<1>1. ThreadTypes
  BY DEF UsbInvariant
<1>2. s' = s /\ host' = host /\ worker.pc = "run"
  BY DEF worker_runs
<1>3. SameText(s, s') /\ SameKeys(s, s') /\ s'.in = s.in /\ s'.stalled = s.stalled
  BY <1>2 DEF SameText, SameKeys
<1>4. CASE worker.kind # "cwrite"
  <2>1. writer' = writer /\ worker' = [worker EXCEPT !.pc = "finish"]
    BY <1>4 DEF worker_runs
  <2>2. worker'.pc # "writing" => worker.pc # "writing"
    BY <1>2
  <2> QED
    BY <1>2, <1>3, <2>1, <2>2, RingAlone, SeesQuiet
<1>5. CASE worker.kind = "cwrite"
  <2> DEFINE x == [pc |-> "lock", left |-> worker.units, n |-> 0]
  <2>1. Proceeds("worker", x) /\ worker' = [worker EXCEPT !.pc = "writing"] /\ "worker" \in Writers
    BY <1>5 DEF worker_runs, Proceeds, Writers
  <2>2. x.left >= 0 /\ x.pc = "lock"
    BY <1>1 DEF ThreadTypes
  <2>3. writer["worker"].pc = "idle"
    BY <1>2 DEF OneWriter
  <2> HIDE DEF x
  <2>4. writer'["worker"] = x /\ \A v \in Writers : v # "worker" => writer'[v] = writer[v]
    BY <1>1, <2>1, OtherWriters
  <2>5. OneWriter'
    <3>1. \A v \in Writers : Started(v)' => Started(v)
      BY <2>2, <2>3, <2>4 DEF Started
    <3>2. worker'.pc = "writing"
      BY <1>1, <2>1 DEF ThreadTypes
    <3> QED
      BY <3>1, <3>2 DEF OneWriter
  <2>6. WriterSizes'
    BY <1>1, <1>2, <2>1, <2>2, SizesMove
  <2>7. Streaming'
    <3>1. CASE s.void
      BY <1>2, <3>1, Zenon DEF Streaming
    <3>2. CASE ~s.void
      <4>1. PICK p \in Nat : Pending(p) /\ Flowing(s, host, p)
        BY <3>2, Zenon DEF Streaming
      <4>2. Pending(p)'
        BY <1>1, <1>2, <2>1, <2>2, <2>3, <4>1, PendingMoves
      <4> QED
        BY <1>2, <4>1, <4>2, Zenon DEF Streaming
    <3> QED
      BY <3>1, <3>2
  <2> QED
    BY <1>3, <2>5, <2>6, <2>7
<1> QED
  BY <1>4, <1>5

\* A panic writes while no writer is past its check.
LEMMA PanicFlows ==
    ASSUME NEW t, Device(t), Rings(t), NEW h, Flowing(t, h, 0), NEW length \in 1 .. SendSize - MarkSize - 1
    PROVE  Flowing(dbgconsole_swrite(t, length), h, 0)
<1> DEFINE free == dbgconsole_getfree(t)
           now == Fewer(length, free)
           rest == length - now
           a == PutText(t, now)
           v == AdvanceWrite(a, now)
           w == DropOldest(v, rest)
           d == PutText(w, rest)
           x == AdvanceWrite(d, rest)
<1>1. SendSize \in Nat /\ MarkSize \in Nat /\ SendSize > MarkSize + 1
  BY Sizes
<1>2. length \in Nat /\ length + MarkSize <= SendSize - 1
  BY <1>1
<1>3. free \in Nat /\ free = SendSize - 1 - Available(t) /\ Available(t) \in Nat
  BY RingFacts
<1>4. dbgconsole_swrite(t, length) = IF now = length THEN v ELSE x
  BY DEF dbgconsole_swrite
<1> HIDE DEF free
<1>5. now \in Nat /\ now \in Int /\ now <= free /\ rest \in Nat /\ rest \in Int /\ (now # length => now = free)
  BY <1>2, <1>3 DEF Fewer
<1> HIDE DEF now
<1>6. Device(a) /\ Rings(a) /\ Flowing(a, h, now)
  BY <1>5, RingEffects, FlowsPut DEF free
<1>7. Available(a) = Available(t)
  BY DEF Device, StaticFields, PutText, Available
<1> HIDE DEF a
<1>8. Device(v) /\ Rings(v)
  BY <1>5, <1>6, RingEffects
<1>9. Flowing(v, h, 0) /\ Available(v) = Available(a) + now
  BY <1>5, <1>6, FlowsAdvanced
<1> HIDE DEF v
<1>10. ASSUME now # length PROVE Flowing(x, h, 0)
  <2>1. Available(v) = SendSize - 1
    BY <1>1, <1>3, <1>5, <1>7, <1>9, <1>10
  <2>2. rest + MarkSize <= Available(v)
    BY <1>1, <1>2, <1>5, <2>1
  <2> HIDE DEF rest
  <2>3. Device(w) /\ Rings(w)
    BY <1>5, <1>8, RingEffects
  <2>4. Flowing(w, h, 0) /\ Available(w) = Available(v) - rest
    BY <1>5, <1>8, <1>9, <2>2, FlowsDropped
  <2> HIDE DEF w
  <2>5. rest <= dbgconsole_getfree(w)
    <3>1. dbgconsole_getfree(w) = SendSize - 1 - Available(w)
      BY <2>3, RingFacts
    <3> QED
      BY <1>1, <1>5, <2>1, <2>4, <3>1
  <2>6. Device(d) /\ Rings(d) /\ Flowing(d, h, rest)
    BY <1>5, <2>3, <2>4, <2>5, RingEffects, FlowsPut
  <2> HIDE DEF d
  <2> QED
    BY <1>5, <2>6, FlowsAdvanced
<1> QED
  BY <1>4, <1>9, <1>10

\* The step of a panic, in the middle of a write or not.
LEMMA PanicWrites ==
    ASSUME UsbInvariant, Streaming, OneWriter, WriterSizes, NEW length \in work.panics, panic_writes(length)
    PROVE  Streaming' /\ WriterSizes' /\ OneWriter' /\ SameKeys(s, s')
<1> DEFINE v == dbgconsole_swrite(s, length)
           b == v.void \/ \E w \in Writers : PastTheCheck(w)
<1>1. Device(s) /\ Rings(s) /\ ThreadTypes /\ length \in Int /\ length \in 1 .. SendSize - MarkSize - 1
  BY DEF UsbInvariant, ThreadTypes
<1>2. s' = [v EXCEPT !.void = b] /\ host' = host /\ worker' = worker /\ writer' = writer
  BY DEF panic_writes
<1>3. SameKeys(s, v) /\ v.void = s.void
  <2> DEFINE now == Fewer(length, dbgconsole_getfree(s))
             rest == length - now
             a == PutText(s, now)
             c == AdvanceWrite(a, now)
             d == DropOldest(c, rest)
             e == PutText(d, rest)
             f == AdvanceWrite(e, rest)
  <2>1. v = c \/ v = f
    BY DEF dbgconsole_swrite
  <2>2. now \in Int /\ rest \in Int
    <3>1. dbgconsole_getfree(s) \in Int
      BY <1>1, RingFacts
    <3> QED
      BY <1>1, <3>1 DEF Fewer
  <2> HIDE DEF v, now, rest
  <2>3. Device(a) /\ Rings(a) /\ SameKeys(s, a) /\ a.void = s.void
    BY <1>1, <2>2, RingEffects, Writing
  <2> HIDE DEF a
  <2>4. Device(c) /\ Rings(c) /\ SameKeys(a, c) /\ c.void = a.void
    BY <2>2, <2>3, RingEffects, Writing
  <2> HIDE DEF c
  <2>5. Device(d) /\ Rings(d) /\ SameKeys(c, d) /\ d.void = c.void
    BY <2>2, <2>4, RingEffects, Writing
  <2> HIDE DEF d
  <2>6. Device(e) /\ Rings(e) /\ SameKeys(d, e) /\ e.void = d.void
    BY <2>2, <2>5, RingEffects, Writing
  <2> HIDE DEF e
  <2>7. SameKeys(e, f) /\ f.void = e.void
    BY <2>2, <2>6, RingEffects, Writing
  <2> HIDE DEF f
  <2> QED
    BY <2>1, <2>3, <2>4, <2>5, <2>6, <2>7 DEF SameKeys
<1>4. Device(v) /\ Rings(v)
  BY <1>1, PanicEffect
<1>5. ASSUME ~s.void, NEW p, Pending(p), Flowing(s, host, p), \A w \in Writers : ~PastTheCheck(w)
      PROVE  p = 0 /\ Flowing(v, host, 0)
  <2>1. p = 0
    BY <1>5 DEF Pending, PastTheCheck
  <2> QED
    BY <1>1, <1>5, <2>1, PanicFlows
<1> HIDE DEF v, b
<1>6. SameKeys(v, s') /\ (s'.void <=> b) /\ \A h, p : Flowing(v, h, p) => Flowing(s', h, p)
  BY <1>2, <1>4, FlowsFlagged
<1>7. SameKeys(s, s') /\ OneWriter'
  BY <1>2, <1>3, <1>6 DEF SameKeys, OneWriter, Started
<1>8. CASE b
  <2>1. s'.void
    BY <1>6, <1>8
  <2>2. Streaming' /\ WriterSizes'
    <3>1. Streaming'
      BY <2>1, Zenon DEF Streaming
    <3>2. WriterSizes'
      BY <1>2, <2>1, Zenon DEF WriterSizes
    <3> QED
      BY <3>1, <3>2
  <2> QED
    BY <1>7, <2>2
<1>9. CASE ~b
  <2>1. ~s.void /\ \A w \in Writers : ~PastTheCheck(w)
    BY <1>3, <1>9, Zenon DEF b
  <2>2. PICK p \in Nat : Pending(p) /\ Flowing(s, host, p)
    BY <2>1, Zenon DEF Streaming
  <2>3. p = 0 /\ Flowing(v, host, 0)
    BY <1>5, <2>1, <2>2
  <2>4. Flowing(s', host', 0)
    BY <1>2, <1>6, <2>3
  <2>5. \A w \in Writers : writer'[w].pc \notin {"copy", "advance"}
    BY <1>2, <2>1 DEF PastTheCheck
  <2>6. Pending(0)' /\ 0 \in Nat
    BY <2>5 DEF Pending
  <2>7. Streaming'
    BY <2>4, <2>6, Zenon DEF Streaming
  <2>8. WriterSizes'
    BY <1>2, <2>5 DEF WriterSizes
  <2> QED
    BY <1>7, <2>7, <2>8
<1> QED
  BY <1>8, <1>9

-----------------------------------------------------------------------------
(* What the host types, and the rest of the invariant.                     *)

\* A step that is none of the host's business.
LEMMA AnsweringQuiet ==
    ASSUME NEW t, NEW u, NEW h, Quiet(t, u), Answering(t, h)
    PROVE  Answering(u, h)
BY DEF Quiet, Alike, SameRequest, SameStage, Answering

\* The data that the monitor expects have the room they had.
LEMMA KeyedQuiet ==
    ASSUME NEW t, NEW u, NEW r, SameKeys(t, u), u.dbgstate = t.dbgstate, u.memlen = t.memlen, Keyed(t, r)
    PROVE  Keyed(u, r)
BY KeysApart DEF Keyed

\* A thread reads what was typed.
LEMMA ThreadReads ==
    ASSUME ConsoleInvariant, NEW length \in {1, RecvSize}, thread_reads(length)
    PROVE  Streaming' /\ WriterSizes' /\ OneWriter' /\ Keyed(s', reader')
<1> DEFINE n == Fewer(dbgconsole_getavailable(s), length)
<1>1. Device(s) /\ Rings(s) /\ Keyed(s, reader) /\ Streaming /\ WriterSizes /\ OneWriter
  BY DEF ConsoleInvariant, UsbInvariant
<1>2. /\ n > 0 /\ s' = Hear(s, n) /\ worker' = worker /\ writer' = writer /\ host' = host
      /\ reader' = FoldLeft(Listen, reader, Heard(s, n))
  BY DEF thread_reads
<1>3. n \in Nat /\ n <= dbgconsole_getavailable(s)
  <2>1. dbgconsole_getavailable(s) \in Nat /\ length \in Nat
    BY <1>1, KeyFacts
  <2> QED
    BY <2>1 DEF Fewer
<1>4. reader' = ListenAll(reader, Heard(s, n))
  BY <1>2 DEF ListenAll, FoldLeft, MapThenFoldSet
<1> HIDE DEF n
<1>5. InKeys(s', reader') /\ RecvFree(s') = RecvFree(s) + n
  BY <1>1, <1>2, <1>3, <1>4, HeardKeys DEF Keyed
<1>6. n \in Int
  BY <1>3
<1>7. Quiet(s, s')
  BY <1>1, <1>2, <1>6, RingEffects
<1>8. SameText(s, s')
  BY <1>1, <1>2 DEF Hear, Device, StaticFields, SameText
<1>9. Keyed(s', reader')
  <2>1. s'.dbgstate = s.dbgstate /\ s'.memlen = s.memlen
    BY <1>7 DEF Quiet, Alike, SameLeft
  <2>2. s.memlen \in Nat /\ RecvFree(s) \in Int
    <3>1. RecvFree(s) = RecvSize - 1 - dbgconsole_getavailable(s) /\ RecvSize \in Nat
          /\ dbgconsole_getavailable(s) \in 0 .. RecvSize - 1
      BY <1>1, KeyFacts
    <3> QED
      BY <1>1, <3>1 DEF Device
  <2>3. s.dbgstate = "WRITE_CONSOLE" => s.memlen <= RecvFree(s)
    BY <1>1 DEF Keyed
  <2> QED
    BY <1>3, <1>5, <2>1, <2>2, <2>3 DEF Keyed
<1>10. s'.in = s.in /\ s'.stalled = s.stalled
  BY <1>7 DEF Quiet, Alike, SameStage
<1>11. Streaming' /\ WriterSizes' /\ OneWriter'
  BY <1>1, <1>2, <1>8, <1>10, RingAlone, SeesQuiet
<1> QED
  BY <1>9, <1>11

\* The steps of the threads that use the console.
LEMMA ConsoleKept ==
    ASSUME ConsoleInvariant, ConsoleStep
    PROVE  Streaming' /\ WriterSizes' /\ OneWriter' /\ Answering(s', host') /\ Keyed(s', reader')
<1>1. UsbInvariant /\ Streaming /\ OneWriter /\ WriterSizes /\ Answering(s, host) /\ Keyed(s, reader)
  BY DEF ConsoleInvariant
<1>2. Quiet(s, s') /\ host' = host
  BY <1>1, ConsoleQuiet DEF QuietStep
<1>3. Answering(s', host')
  BY <1>1, <1>2, AnsweringQuiet
<1>4. SameKeys(s, s') /\ reader' = reader => Keyed(s', reader')
  BY <1>1, <1>2, KeyedQuiet DEF Quiet, Alike, SameLeft
<1>5. ASSUME NEW w \in Writers, WriterStep(w)
      PROVE  Streaming' /\ WriterSizes' /\ OneWriter' /\ SameKeys(s, s') /\ reader' = reader
  <2>1. reader' = reader
    BY <1>5 DEF WriterStep, console_locks, makespace_looks, makespace_waited, makespace_drops, write_copies,
       write_advances
  <2>2. Streaming' /\ WriterSizes' /\ OneWriter' /\ SameKeys(s, s')
    BY <1>1, <1>5, WriterWaits, WriterDrops, WriterCopies, WriterAdvances DEF WriterStep
  <2> QED
    BY <2>1, <2>2
<1>6. ASSUME NEW length \in work.writes, thread_writes(length)
      PROVE  Streaming' /\ WriterSizes' /\ OneWriter' /\ SameKeys(s, s') /\ reader' = reader
  BY <1>1, <1>6, ThreadWrites DEF thread_writes
<1>7. ASSUME NEW length \in work.panics, panic_writes(length)
      PROVE  Streaming' /\ WriterSizes' /\ OneWriter' /\ SameKeys(s, s') /\ reader' = reader
  BY <1>1, <1>7, PanicWrites DEF panic_writes
<1> QED
  BY <1>3, <1>4, <1>5, <1>6, <1>7, ThreadReads DEF ConsoleStep

-----------------------------------------------------------------------------
(* The host.                                                               *)

\* What a step has to keep.
Kept == Streaming' /\ WriterSizes' /\ OneWriter' /\ Answering(s', host') /\ Keyed(s', reader')

\* A host that asks for no text sees none.
LEMMA AheadNone ==
    ASSUME NEW t, NEW h, ~Coming(t, h)
    PROVE  Ahead(t, h) = h.seen
BY DEF Ahead

\* No text is on its way to a host that asked for none or waits for no packet, nor in no packet.
LEMMA NotComing ==
    ASSUME NEW t, NEW h, ~OfConsole(h) \/ h.phase # "in" \/ "in" \in t.stalled \/ t.in = NoPacket
    PROVE  ~Coming(t, h)
BY DEF Coming

\* A step in which no text is on its way to the host, before or after.
LEMMA NothingComes ==
    ASSUME ConsoleInvariant, SameText(s, s'), writer' = writer, worker'.pc # "writing" => worker.pc # "writing",
           ~Coming(s, host), ~Coming(s', host'), host'.seen = host.seen
    PROVE  Streaming' /\ WriterSizes' /\ OneWriter'
<1>1. Ahead(s, host) = host.seen /\ Ahead(s', host') = host'.seen
  BY AheadNone
<1>2. \A c \in 0 .. MarkSize, next \in Nat \ {0} : Sees(s, host, c, next) => Sees(s', host', c, next)
  BY <1>1, SeesOn
<1> QED
  BY <1>2, RingAlone DEF ConsoleInvariant

\* How a request for an answer is handled.
LEMMA AnswerCases ==
    ASSUME NEW t, NEW r, r.kind = "answer"
    PROVE  LET u == usb_handle_ep0_setup(t, r) IN
           \/ u = Refuse(t) /\ (t.configuration = 0 \/ t.dbgstate \notin {"RESPOND", "READ_CONSOLE"})
           \/ u = AnswerCommand(t, r.units) /\ t.dbgstate = "RESPOND"
           \/ u = AnswerConsole(t, r.units) /\ t.dbgstate = "READ_CONSOLE"
BY DEF usb_handle_ep0_setup, usbdebug_handle_setup, StandardKinds

\* The host makes a request.
LEMMA SetupKept ==
    ASSUME ConsoleInvariant, NEW r \in Requests, host_setup(r)
    PROVE  Kept
<1> DEFINE t == SetupReceived(s)
           u == usb_handle_ep0_setup(t, r)
           asked == IF r.kind \in CommandKinds THEN NoCommand ELSE host.asked
           g == [host EXCEPT !.phase = Stage(r), !.kind = r.kind, !.units = r.units, !.asked = asked]
<1>1. /\ Device(s) /\ Rings(s) /\ Host(host) /\ ThreadTypes /\ Stages(s, host) /\ AskedReady(s, host)
      /\ Streaming /\ WriterSizes /\ OneWriter /\ Answering(s, host) /\ Keyed(s, reader)
      /\ s.req \in Nat /\ s.late \subseteq 0 .. s.req
  BY DEF ConsoleInvariant, UsbInvariant, Transfer, Device
<1>2. /\ s' = u /\ host.phase = "idle" /\ MayAsk(r) /\ host' = g
      /\ worker' = worker /\ writer' = writer /\ reader' = reader
  BY DEF host_setup
<1>3. /\ g.kind = r.kind /\ g.asked = asked /\ g.seen = host.seen /\ g.phase = Stage(r)
      /\ host.kind = "none"
  BY <1>1, <1>2 DEF Host, Stages
<1>4. Apart(s, t)
  BY <1>1, PacketsApart DEF Device
<1>5. /\ Device(t) /\ Rings(t) /\ SameCommand(s, t) /\ SameLeft(s, t)
      /\ t.req = s.req + 1 /\ t.refused = s.refused /\ t.late = s.late
      /\ t.in = NoPacket /\ ~t.out /\ t.stalled = {}
  BY <1>1, SetupEffect
<1>6. t.configuration = 0 => t.dbgstate = "IDLE"
  BY <1>1, <1>5 DEF Stages, SameCommand
<1> HIDE DEF t
<1>7. /\ Device(u) /\ Rings(u) /\ SameWorker(t, u)
      /\ r.kind # "answer" /\ u.in # NoPacket => u.txcallback # "read_console"
      /\ r.kind \in StandardKinds => SameLeft(t, u) /\ u.dbgstate \in {t.dbgstate, "IDLE"}
      /\ r.kind \in CommandKinds => u.dbgstate \in {"SETUP", "IDLE"}
  BY <1>5, <1>6, HandleSetup
<1>8. ~Coming(s, host)
  BY <1>2, NotComing
<1>9. /\ u.req = s.req + 1 /\ u.refused = s.refused /\ u.late = s.late
      /\ u.req \notin u.late /\ u.refused \subseteq 0 .. u.req /\ u.req \notin u.refused
  <2>1. u.req = s.req + 1 /\ u.refused = s.refused /\ u.late = s.late
    BY <1>5, <1>7 DEF SameWorker, SameRequest
  <2>2. s.req + 1 \notin 0 .. s.req /\ 0 .. s.req \subseteq 0 .. s.req + 1
    BY <1>1
  <2>3. s.refused \subseteq 0 .. s.req
    BY <1>1 DEF Answering
  <2> QED
    BY <1>1, <2>1, <2>2, <2>3
<1>10. asked.kind = "con_read" => asked.of \notin u.refused
  BY <1>1, <1>9 DEF Answering, NoCommand
<1> HIDE DEF u, g, asked
<1>11. CASE r.kind # "answer"
  <2>1. Apart(s, u)
    <3>1. Apart(t, u)
      BY <1>5, <1>11, RequestApart DEF u, Device
    <3> QED
      BY <1>4, <3>1, ApartTwice
  <2>2. ~Coming(u, g)
    BY <1>3, <1>11, NotComing DEF OfConsole
  <2>3. Streaming' /\ WriterSizes' /\ OneWriter'
    BY <1>2, <1>3, <1>8, <2>1, <2>2, NothingComes DEF Apart
  <2>4. Answering(s', host')
    BY <1>2, <1>3, <1>7, <1>9, <1>10, <1>11 DEF Answering
  <2>5. u.dbgstate = "WRITE_CONSOLE" => s.dbgstate = "WRITE_CONSOLE" /\ u.memlen = s.memlen
    <3>1. r.kind \in StandardKinds \cup CommandKinds
      BY <1>11 DEF Requests
    <3> QED
      BY <1>5, <1>7, <3>1 DEF SameCommand, SameLeft
  <2>6. Keyed(s', reader')
    BY <1>1, <1>2, <2>1, <2>5, KeysApart DEF Apart, Keyed
  <2> QED
    BY <2>3, <2>4, <2>6 DEF Kept
<1>12. CASE r.kind = "answer"
  <2>1. asked = host.asked /\ host.asked # NoCommand /\ r.kind \notin CommandKinds /\ g.phase = "in"
    BY <1>2, <1>3, <1>12 DEF MayAsk, asked, CommandKinds, WorkerKinds, Stage
  <2>2. s.dbgstate = "IDLE" \/ s.dbgstate = IF host.asked.kind = "con_read" THEN "READ_CONSOLE" ELSE "RESPOND"
    BY <1>1, <1>3, <2>1 DEF AskedReady, Ready
  <2>3. t.dbgstate = s.dbgstate /\ r.units \in Nat
    BY <1>5 DEF SameCommand, Requests
  <2>4. ASSUME u.dbgstate \in {t.dbgstate, "IDLE"}, SameKeys(t, u),
               u.in # NoPacket /\ u.txcallback = "read_console" => OfConsole(g)
        PROVE  Answering(s', host') /\ Keyed(s', reader')
    <3>1. u.dbgstate \in {"IDLE", "RESPOND", "READ_CONSOLE"}
      BY <2>2, <2>3, <2>4
    <3>2. Answering(s', host')
      BY <1>2, <1>3, <1>9, <1>10, <1>12, <2>4, <3>1 DEF Answering
    <3>3. SameKeys(s, u)
      BY <1>4, <2>4 DEF Apart, SameKeys
    <3>4. Keyed(s', reader')
      BY <1>1, <1>2, <3>1, <3>3, KeysApart DEF Keyed
    <3> QED
      BY <3>2, <3>4
  <2>5. CASE u = Refuse(t) /\ (t.configuration = 0 \/ t.dbgstate \notin {"RESPOND", "READ_CONSOLE"})
    <3>1. SameCommand(t, u) /\ u.in = NoPacket /\ "in" \in u.stalled
      BY <1>5, <2>5, RefuseEffect
    <3>2. Apart(t, u)
      BY <1>5, <2>5, PacketsApart DEF Device
    <3>3. Apart(s, u)
      BY <1>4, <3>2, ApartTwice
    <3>4. ~Coming(u, g)
      BY <3>1, NotComing
    <3>5. Streaming' /\ WriterSizes' /\ OneWriter'
      BY <1>2, <1>3, <1>8, <3>3, <3>4, NothingComes DEF Apart
    <3> QED
      BY <2>4, <3>1, <3>2, <3>5 DEF Kept, Apart, SameCommand
  <2>6. CASE u = AnswerCommand(t, r.units) /\ t.dbgstate = "RESPOND"
    <3>1. Stays(t, u) /\ u.txcallback \in {"short", "tx"}
      BY <1>5, <2>3, <2>6, AnswerEffect
    <3>2. Apart(t, u)
      BY <1>5, <2>6, AnswerApart DEF Device
    <3>3. Apart(s, u)
      BY <1>4, <3>2, ApartTwice
    <3>4. ~Coming(u, g)
      <4>1. ~OfConsole(g)
        BY <1>3, <2>1, <2>2, <2>3, <2>6 DEF OfConsole
      <4> QED
        BY <4>1, NotComing
    <3>5. Streaming' /\ WriterSizes' /\ OneWriter'
      BY <1>2, <1>3, <1>8, <3>3, <3>4, NothingComes DEF Apart
    <3> QED
      BY <2>4, <3>1, <3>2, <3>5 DEF Kept, Apart, Stays
  <2>7. CASE u = AnswerConsole(t, r.units) /\ t.dbgstate = "READ_CONSOLE"
    <3>1. OfConsole(g)
      BY <1>3, <1>12, <2>1, <2>2, <2>3, <2>7 DEF OfConsole
    <3>2. Stays(t, u)
      BY <1>5, <2>3, <2>7, TextEffect
    <3>3. /\ SameKeys(t, u) /\ u.sendwrite = t.sendwrite /\ (t.void => u.void)
          /\ u.stalled = t.stalled /\ u.in.of = t.req
          /\ GoesOn(t, u)
      BY <1>5, <2>3, <2>7, TextAnswered
    <3>4. u.in # NoPacket
      BY <1>1, <1>5, <3>3 DEF NoPacket
    <3>5. Ahead(u, g) = SeeAll(g.seen, u.in.body)
      BY <1>5, <2>1, <3>1, <3>3, <3>4 DEF Ahead, Coming
    <3>6. ASSUME NEW c \in 0 .. MarkSize, NEW next \in Nat \ {0}, NEW p \in Nat,
                 Ordered(s, c, next, p), Sees(s, host, c, next), ~u.void
          PROVE  Flowing(u, g, p) /\ Available(u) <= Available(s)
      <4>1. host.seen \in Seen /\ host.seen.ok /\ host.seen.last < next /\ Follows(host.seen, c, next)
        BY <1>8, <3>6, AheadNone DEF Sees
      <4>2. Goes(t, u, host.seen, next, p)
        <5>1. Ordered(t, c, next, p)
          BY <1>4, <3>6, OrderedApart DEF Apart
        <5> QED
          BY <3>3, <3>6, <4>1, <5>1 DEF GoesOn
      <4>3. Flowing(u, g, p)
        BY <1>3, <3>5, <4>1, <4>2, FlowsOut
      <4>4. Available(u) <= Available(s)
        BY <1>4, <4>2, OrderedApart DEF Goes, Apart
      <4> QED
        BY <4>3, <4>4
    <3>7. u.sendwrite = s.sendwrite /\ (s.void => u.void)
      BY <1>4, <3>3, Zenon DEF Apart, SameText
    <3>8. Streaming' /\ WriterSizes' /\ OneWriter'
      BY <1>1, <1>2, <1>7, <3>6, <3>7, RingRead
    <3> QED
      BY <2>4, <3>1, <3>2, <3>3, <3>8 DEF Kept, Stays
  <2> QED
    BY <1>12, <2>5, <2>6, <2>7, AnswerCases DEF u
<1> QED
  BY <1>11, <1>12

\* A step of the host's in which it gets no text and types none.
LEMMA NoTextKept ==
    ASSUME ConsoleInvariant, Apart(s, s'), writer' = writer, worker' = worker, reader' = reader,
           s'.dbgstate = s.dbgstate, s'.memlen = s.memlen,
           ~Coming(s, host), ~Coming(s', host'), host'.seen = host.seen, Answering(s', host')
    PROVE  Kept
<1>1. Streaming' /\ WriterSizes' /\ OneWriter'
  BY NothingComes DEF Apart
<1>2. Keyed(s', reader')
  BY KeyedQuiet DEF Apart, ConsoleInvariant
<1> QED
  BY <1>1, <1>2 DEF Kept

\* A host that ends its request or gives it up.
LEMMA EndedSeen ==
    ASSUME Host(host)
    PROVE  /\ Ended(host).seen = host.seen /\ Ended(host).phase = "idle" /\ Ended(host).kind = "none"
           /\ Dropped(host).phase = "idle" /\ Dropped(host).kind = "none"
BY DEF Ended, Dropped, Idle, Host

\* The host sends a command, or data for it.
LEMMA SendsKept ==
    ASSUME ConsoleInvariant, host_sends
    PROVE  Kept
<1> DEFINE payload == IF host.kind \in PayloadKinds THEN host.units ELSE 0
           last == Lesser(payload, host.sent + (IF host.begun THEN Packet ELSE AnswerData))
           data == Units(s.req, host.sent, last)
<1>1. /\ Device(s) /\ Rings(s) /\ Host(host) /\ Stages(s, host) /\ CommandStage(s, host) /\ AskedReady(s, host)
      /\ Answering(s, host) /\ Keyed(s, reader)
  BY DEF ConsoleInvariant, UsbInvariant, Transfer
<1>2. /\ s' = OutComplete(s, [kind |-> host.kind, units |-> host.units], data)
      /\ writer' = writer /\ worker' = worker /\ reader' = reader /\ host.phase = "out" /\ s.out
      /\ host' = [host EXCEPT !.begun = TRUE, !.sent = last, !.phase = IF last < payload THEN "out" ELSE "status_in"]
  BY DEF host_sends
<1>3. host.kind \in CommandKinds /\ host.kind # "answer" /\ s.rxcallback = "data" /\ s.in = NoPacket
  BY <1>1, <1>2 DEF Stages, CommandStage, CommandKinds, WorkerKinds
<1>4. /\ s.dbgstate = "WRITE_MEM" => host.kind = "write"
      /\ s.dbgstate = "WRITE_CONSOLE" => host.kind = "con_write"
  BY <1>1, <1>2 DEF CommandStage
<1>5. Len(data) \in Nat
  <2>1. s.req \in Nat /\ host.sent \in Nat /\ host.units \in Nat /\ Packet \in Nat /\ AnswerData \in Nat
    BY <1>1, UsbAssumption DEF Device, Host, AnswerData
  <2>2. last \in Nat /\ host.sent <= last
    <3>1. CASE ~host.begun /\ host.sent = 0
      BY <2>1, <3>1 DEF Lesser
    <3>2. CASE host.begun /\ host.sent < host.units /\ host.kind \in {"write", "con_write"}
      <4>1. last = Lesser(host.units, host.sent + Packet)
        BY <3>2 DEF PayloadKinds
      <4> QED
        BY <2>1, <3>2, <4>1 DEF Lesser
    <3> QED
      BY <1>1, <1>2, <3>1, <3>2 DEF CommandStage
  <2> HIDE DEF last
  <2>3. Len(data) = last - host.sent
    BY <2>1, <2>2, UnitsSeq
  <2> QED
    BY <2>1, <2>2, <2>3
<1>6. host'.seen = host.seen /\ host'.kind = host.kind /\ host'.asked = host.asked /\ host'.phase # "in"
  BY <1>1, <1>2 DEF Host
<1>7. host.units \in Nat
  BY <1>1 DEF Host
<1> HIDE DEF payload, last, data
<1>8. SameText(s, s') /\ Keyed(s', reader') /\ Refusing(s, s', host.kind)
  BY <1>1, <1>2, <1>3, <1>4, <1>5, <1>7, DataKeyed
<1>9. ~Coming(s, host) /\ ~Coming(s', host')
  BY <1>2, <1>6, NotComing
<1>10. Streaming' /\ WriterSizes' /\ OneWriter'
  BY <1>2, <1>6, <1>8, <1>9, NothingComes
<1>11. s'.req = s.req /\ s'.late = s.late
  BY SendsStep DEF ConsoleInvariant
<1>12. host.asked = NoCommand
  BY <1>1, <1>2, <1>3 DEF AskedReady
<1>13. Answering(s', host')
  <2>1. s'.refused \subseteq 0 .. s'.req
    BY <1>1, <1>8, <1>11 DEF Answering, Refusing, Device
  <2>2. host.kind = "con_read" => s'.refused = s.refused
    BY <1>8 DEF Refusing, WorkerKinds
  <2>3. host.kind = "con_read" => s'.req \notin s'.refused
    BY <1>1, <1>11, <2>2 DEF Answering
  <2> QED
    BY <1>3, <1>6, <1>12, <2>1, <2>3 DEF Answering, NoCommand
<1> QED
  BY <1>8, <1>10, <1>13 DEF Kept

\* The host acknowledges what it got.
LEMMA AcknowledgesKept ==
    ASSUME ConsoleInvariant, host_acknowledges
    PROVE  Kept
<1>1. Device(s) /\ Rings(s) /\ Host(host) /\ Stages(s, host) /\ Answering(s, host)
  BY DEF ConsoleInvariant, UsbInvariant, Transfer
<1>2. /\ s' = OutComplete(s, NoCommand, << >>) /\ host' = Ended(host) /\ host.phase = "status_out" /\ s.out
      /\ writer' = writer /\ worker' = worker /\ reader' = reader
  BY DEF host_acknowledges
<1>3. s.rxcallback = "ack" /\ host.kind \in {"descriptor", "status", "answer"}
  BY <1>1, <1>2 DEF Stages
<1>4. Apart(s, s')
  BY <1>1, <1>2, <1>3, OutApart DEF Device
<1>5. SameRequest(s, s') /\ s'.dbgstate = s.dbgstate /\ s'.memlen = s.memlen
  BY <1>1, <1>2, <1>3, OutEffect DEF SameCommand, SameLeft
<1>6. host'.seen = host.seen /\ host'.phase = "idle" /\ host'.kind = "none"
  BY <1>1, <1>2, EndedSeen
<1>7. host'.asked \in {host.asked, NoCommand}
  <2>1. host.kind \notin CommandKinds /\ s.req \in Nat
    BY <1>1, <1>3 DEF CommandKinds, WorkerKinds, Device
  <2> QED
    BY <1>1, <1>2, <2>1, IdleHost
<1>8. Answering(s', host')
  BY <1>1, <1>5, <1>6, <1>7 DEF Answering, SameRequest, NoCommand
<1>9. ~Coming(s, host) /\ ~Coming(s', host')
  BY <1>2, <1>6, NotComing
<1> QED
  BY <1>2, <1>4, <1>5, <1>6, <1>8, <1>9, NoTextKept

\* The host is acknowledged.
LEMMA IsAcknowledgedKept ==
    ASSUME ConsoleInvariant, host_is_acknowledged
    PROVE  Kept
<1>1. Device(s) /\ Rings(s) /\ Host(host) /\ Stages(s, host) /\ Answering(s, host)
  BY DEF ConsoleInvariant, UsbInvariant, Transfer
<1>2. /\ s' = InComplete(s) /\ host' = Ended(host) /\ host.phase = "status_in" /\ s.in # NoPacket
      /\ writer' = writer /\ worker' = worker /\ reader' = reader
  BY DEF host_is_acknowledged
<1>3. host.kind \notin {"descriptor", "status", "answer", "none"} /\ s.txcallback \in {"none", "ack", "short", "tx"}
  BY <1>1, <1>2 DEF Stages, Device
<1>4. Apart(s, s')
  BY <1>1, <1>2, <1>3, InApart DEF Device
<1>5. SameRequest(s, s') /\ s'.dbgstate = s.dbgstate /\ s'.memlen = s.memlen
  BY <1>1, <1>2, <1>3, InEffect DEF SameCommand, SameLeft
<1>6. host'.seen = host.seen /\ host'.phase = "idle" /\ host'.kind = "none"
  BY <1>1, <1>2, EndedSeen
<1>7. host'.asked.kind = "con_read" => host'.asked.of \notin s.refused
  <2>1. host'.asked = This(s, host) \/ host'.asked = host.asked
    BY <1>1, <1>2, <1>3, IdleHost DEF Device
  <2> QED
    BY <1>1, <2>1 DEF Answering, This
<1>8. Answering(s', host')
  BY <1>1, <1>5, <1>6, <1>7 DEF Answering, SameRequest
<1>9. ~Coming(s, host) /\ ~Coming(s', host')
  BY <1>2, <1>6, NotComing
<1> QED
  BY <1>2, <1>4, <1>5, <1>6, <1>8, <1>9, NoTextKept

\* The host gives its request up, or is told to, or there is a reset.
LEMMA GivenUpKept ==
    ASSUME ConsoleInvariant, Apart(s, s'), SameRequest(s, s'), s'.memlen = s.memlen,
           s'.dbgstate \in {s.dbgstate, "IDLE"}, host' = Dropped(host),
           writer' = writer, worker' = worker, reader' = reader
    PROVE  Kept
<1>1. /\ Device(s) /\ Host(host) /\ Streaming /\ WriterSizes /\ OneWriter /\ Answering(s, host) /\ Keyed(s, reader)
  BY DEF ConsoleInvariant, UsbInvariant
<1>2. Streaming' /\ WriterSizes' /\ OneWriter'
  BY <1>1, RingAlone, SeesDropped DEF Apart
<1>3. host'.phase = "idle" /\ host'.kind = "none" /\ host'.asked \in {host.asked, NoCommand}
  BY <1>1, EndedSeen, IdleHost DEF Device
<1>4. Answering(s', host')
  BY <1>1, <1>3 DEF Answering, SameRequest, NoCommand
<1>5. Keyed(s', reader')
  BY <1>1, KeysApart DEF Apart, Keyed
<1> QED
  BY <1>2, <1>4, <1>5 DEF Kept

\* The host is refused, or its request takes too long.
LEMMA DroppedKept ==
    ASSUME ConsoleInvariant, host_is_refused \/ host_gives_up
    PROVE  Kept
<1>1. s' = s /\ host' = Dropped(host) /\ writer' = writer /\ worker' = worker /\ reader' = reader
  BY DEF host_is_refused, host_gives_up
<1>2. DOMAIN s = StaticFields
  BY DEF ConsoleInvariant, UsbInvariant, Device
<1>3. Apart(s, s') /\ SameRequest(s, s')
  BY <1>1, <1>2 DEF Apart, SameText, SameKeys, SameRequest
<1> QED
  BY <1>1, <1>3, GivenUpKept

\* The host resets the bus.
LEMMA ResetsKept ==
    ASSUME ConsoleInvariant, host_resets
    PROVE  Kept
<1>1. Device(s) /\ Rings(s) /\ Answering(s, host) /\ Keyed(s, reader)
  BY DEF ConsoleInvariant, UsbInvariant
<1>2. /\ s' = usb_handle_bus_reset(s) /\ host' = IF host.phase = "idle" THEN host ELSE Dropped(host)
      /\ writer' = writer /\ worker' = worker /\ reader' = reader
  BY DEF host_resets
<1>3. Apart(s, s')
  BY <1>1, <1>2, StandardApart DEF Device
<1>4. SameRequest(s, s') /\ s'.memlen = s.memlen /\ s'.dbgstate \in {s.dbgstate, "IDLE"} /\ s'.in = NoPacket
  BY <1>1, <1>2 DEF usb_handle_bus_reset, usb_unconfigure, EnableMonitor, usb_ep0_start_rx, Device, StaticFields,
     SameRequest
<1>5. CASE host.phase # "idle"
  BY <1>2, <1>3, <1>4, <1>5, GivenUpKept
<1>6. CASE host.phase = "idle"
  <2>1. ~Coming(s, host) /\ ~Coming(s', host') /\ host' = host
    BY <1>2, <1>6, NotComing
  <2>2. Streaming' /\ WriterSizes' /\ OneWriter'
    BY <1>2, <1>3, <2>1, NothingComes DEF Apart
  <2>3. Answering(s', host')
    BY <1>1, <1>4, <2>1 DEF Answering, SameRequest
  <2>4. Keyed(s', reader')
    BY <1>1, <1>2, <1>3, <1>4, KeysApart DEF Apart, Keyed
  <2> QED
    BY <2>2, <2>3, <2>4 DEF Kept
<1> QED
  BY <1>5, <1>6

-----------------------------------------------------------------------------
(* dbgthread and the invariant.                                            *)

\* A step of dbgthread's that is not about what the host waits for.
LEMMA WorkerAlike ==
    ASSUME ConsoleInvariant, NEW b,
           s' = s \/ s' = [s EXCEPT !.signalled = b] \/ s' = [s EXCEPT !.dbgbusy = b],
           worker'.pc # "writing" => worker.pc # "writing",
           host' = host, writer' = writer, reader' = reader
    PROVE  Kept
<1>1. Device(s) /\ Streaming /\ WriterSizes /\ OneWriter /\ Answering(s, host) /\ Keyed(s, reader)
  BY DEF ConsoleInvariant, UsbInvariant
<1>2. /\ SameText(s, s') /\ SameKeys(s, s') /\ SameRequest(s, s') /\ s'.in = s.in /\ s'.stalled = s.stalled
      /\ s'.txcallback = s.txcallback /\ s'.dbgstate = s.dbgstate /\ s'.memlen = s.memlen
  BY <1>1 DEF Device, StaticFields, SameText, SameKeys, SameRequest
<1>3. Streaming' /\ WriterSizes' /\ OneWriter'
  BY <1>1, <1>2, RingAlone, SeesQuiet
<1>4. Answering(s', host')
  BY <1>1, <1>2 DEF Answering, SameRequest
<1>5. Keyed(s', reader')
  BY <1>1, <1>2, KeyedQuiet
<1> QED
  BY <1>3, <1>4, <1>5 DEF Kept

\* dbgthread's own write is over.
LEMMA HasWrittenKept ==
    ASSUME ConsoleInvariant, worker_has_written
    PROVE  Kept
<1>1. Streaming /\ WriterSizes /\ OneWriter /\ Answering(s, host) /\ Keyed(s, reader)
  BY DEF ConsoleInvariant
<1>2. s' = s /\ host' = host /\ reader' = reader /\ writer' = writer /\ writer["worker"].pc = "idle"
  BY DEF worker_has_written
<1>3. Streaming'
  BY <1>1, <1>2 DEF Streaming, Pending, Piece
<1>4. WriterSizes' /\ OneWriter'
  BY <1>1, <1>2 DEF WriterSizes, OneWriter, Started
<1> QED
  BY <1>1, <1>2, <1>3, <1>4 DEF Kept

\* dbgthread acknowledges its command, or finds that another one came in between.
LEMMA FinishesKept ==
    ASSUME ConsoleInvariant, worker_finishes
    PROVE  Kept
<1> DEFINE v == usb_ep0_start_tx(s, Zero(worker.of), "none")
           u == [Finish(s) EXCEPT !.dbgbusy = FALSE]
<1>1. /\ Device(s) /\ Answering(s, host) /\ Keyed(s, reader) /\ ThreadTypes /\ s.req \in Nat
  BY DEF ConsoleInvariant, UsbInvariant, Device
<1>2. /\ s' = u /\ host' = host /\ reader' = reader /\ writer' = writer /\ worker' = Resting
      /\ worker.pc = "finish"
  BY DEF worker_finishes
<1>3. CASE s.dbgstate # "ASYNC"
  <2>1. s' = [s EXCEPT !.dbgbusy = FALSE]
    BY <1>2, <1>3 DEF Finish
  <2> QED
    BY <1>2, <2>1, WorkerAlike
<1>4. CASE s.dbgstate = "ASYNC"
  <2>1. /\ Apart(s, u) /\ u.dbgstate = "RESPOND" /\ u.txcallback = "none" /\ u.req = s.req /\ u.refused = s.refused
        /\ u.late \in {s.late, s.late \cup {s.req}}
    BY <1>1, <1>4 DEF Finish, usb_ep0_start_tx, Device, StaticFields, Apart, SameText, SameKeys
  <2>2. host.kind # "answer"
    BY <1>1, <1>4 DEF Answering
  <2>3. ~Coming(s, host) /\ ~Coming(u, host)
    BY <2>2, NotComing DEF OfConsole
  <2> HIDE DEF u
  <2>4. Streaming' /\ WriterSizes' /\ OneWriter'
    BY <1>2, <2>1, <2>3, NothingComes DEF Apart
  <2>5. Answering(s', host')
    BY <1>1, <1>2, <2>1, <2>2 DEF Answering
  <2>6. Keyed(s', reader')
    BY <1>1, <1>2, <2>1, KeysApart DEF Apart, Keyed
  <2> QED
    BY <2>4, <2>5, <2>6 DEF Kept
<1> QED
  BY <1>3, <1>4

\* The steps of dbgthread, and a stack overflow.
LEMMA WorkerKept ==
    ASSUME ConsoleInvariant, stack_overflows \/ WorkerStep
    PROVE  Kept
<1>1. CASE stack_overflows
  <2>1. s' = [s EXCEPT !.signalled = TRUE] /\ worker' = worker /\ host' = host /\ writer' = writer /\ reader' = reader
    BY <1>1 DEF stack_overflows
  <2> QED
    BY <2>1, WorkerAlike
<1>2. CASE worker_wakes
  <2>1. s' = [s EXCEPT !.signalled = FALSE] /\ worker.pc = "wait" /\ host' = host /\ writer' = writer /\ reader' = reader
    BY <1>2 DEF worker_wakes
  <2> QED
    BY <2>1, WorkerAlike
<1>3. CASE worker_checks
  <2>1. /\ s' = s \/ s' = [s EXCEPT !.dbgbusy = FALSE]
        /\ worker.pc = "check" /\ host' = host /\ writer' = writer /\ reader' = reader
    BY <1>3 DEF worker_checks
  <2> QED
    BY <2>1, WorkerAlike
<1>4. CASE worker_runs
  <2>1. Streaming' /\ WriterSizes' /\ OneWriter'
    BY <1>4, WorkerWrites DEF ConsoleInvariant
  <2>2. s' = s /\ host' = host /\ reader' = reader
    BY <1>4 DEF worker_runs
  <2> QED
    BY <2>1, <2>2 DEF Kept, ConsoleInvariant
<1> QED
  BY <1>1, <1>2, <1>3, <1>4, HasWrittenKept, FinishesKept DEF WorkerStep

-----------------------------------------------------------------------------
(* The host gets data.                                                     *)

\* The host gets a packet: what has changed of it.
LEMMA ReceivesHost ==
    ASSUME UsbInvariant, host_receives
    PROVE  /\ host'.kind = host.kind /\ host'.asked = host.asked /\ host'.units = host.units
           /\ OfConsole(host') <=> OfConsole(host)
           /\ Coming(s, host) <=> OfConsole(host)
           /\ host.seen \in Seen => host'.seen = Ahead(s, host)
           /\ host'.phase = IF Size(s.in) < Packet \/ Size(Received(s, host)) >= Wanted THEN "status_out" ELSE "in"
<1>1. Host(host)
  BY DEF UsbInvariant
<1>2. /\ host.phase = "in" /\ "in" \notin s.stalled /\ s.in # NoPacket
      /\ host' = [host EXCEPT !.got = Received(s, host),
                              !.seen = FoldLeft(See, @, IF OfConsole(host) THEN s.in.body ELSE << >>),
                              !.phase = IF Size(s.in) < Packet \/ Size(Received(s, host)) >= Wanted
                                        THEN "status_out" ELSE "in"]
  BY DEF host_receives, Received, OfConsole
<1>3. /\ host'.kind = host.kind /\ host'.asked = host.asked /\ host'.units = host.units
      /\ host'.phase = IF Size(s.in) < Packet \/ Size(Received(s, host)) >= Wanted THEN "status_out" ELSE "in"
      /\ host'.seen = FoldLeft(See, host.seen, IF OfConsole(host) THEN s.in.body ELSE << >>)
  BY <1>1, <1>2 DEF Host
<1>4. OfConsole(host') <=> OfConsole(host)
  BY <1>3 DEF OfConsole
<1>5. Coming(s, host) <=> OfConsole(host)
  BY <1>2 DEF Coming
<1>6. host'.seen = SeeAll(host.seen, IF OfConsole(host) THEN s.in.body ELSE << >>)
  BY <1>3 DEF SeeAll, FoldLeft, MapThenFoldSet
<1>7. host.seen \in Seen => host'.seen = Ahead(s, host)
  BY <1>5, <1>6, SeeNone DEF Ahead
<1> QED
  BY <1>3, <1>4, <1>5, <1>7

\* Console text comes while the answer is not an exception.
LEMMA ConsoleFlow ==
    ASSUME ConsoleInvariant, Coming(s, host)
    PROVE  \E k, j \in Nat : /\ Carries(s, host, k, j) /\ Continues(s, host, k + j)
                             /\ Size(s.in) < Packet => k + j = Total(host)
<1>1. /\ DataStage(s, host) /\ Answering(s, host)
      /\ host.phase = "in" /\ OfConsole(host) /\ "in" \notin s.stalled
  BY DEF ConsoleInvariant, UsbInvariant, Transfer, Coming
<1>2. ~Exceptional(s, host)
  BY <1>1 DEF Answering, OfConsole, Exceptional
<1>3. Flow(s, host)
  BY <1>1, <1>2 DEF DataStage
<1> QED
  BY <1>3 DEF Flow

\* The text has all been sent, or the request is for no text.
LEMMA LastReceived ==
    ASSUME ConsoleInvariant, host_receives, s.txcallback # "read_console"
    PROVE  Kept
<1>1. /\ Device(s) /\ Rings(s) /\ Host(host) /\ UsbInvariant
      /\ Streaming /\ WriterSizes /\ OneWriter /\ Answering(s, host) /\ Keyed(s, reader)
  BY DEF ConsoleInvariant, UsbInvariant
<1>2. s' = InComplete(s) /\ writer' = writer /\ worker' = worker /\ reader' = reader
  BY DEF host_receives
<1>3. Apart(s, s')
  BY <1>1, <1>2, InApart DEF Device
<1>4. /\ SameRequest(s, s') /\ SameCommand(s, s') /\ SameLeft(s, s')
      /\ s'.in # NoPacket => s'.txcallback # "read_console"
      /\ s.txcallback = "short" => "in" \in s'.stalled
      /\ s.txcallback = "tx" => s'.in.body = Units(s.tx.of, s.tx.sent, s.tx.sent + Lesser(Packet, s.tx.left))
  BY <1>1, <1>2, InEffect
<1>5. ASSUME NEW c \in 0 .. MarkSize, NEW next \in Nat \ {0}, Sees(s, host, c, next)
      PROVE  Sees(s', host', c, next)
  <2>1. host'.seen = Ahead(s, host) /\ host'.seen \in Seen
    BY <1>1, <1>5, ReceivesHost DEF Sees, Follows
  <2>2. Ahead(s', host') = host'.seen
    <3>1. CASE ~Coming(s', host')
      BY <3>1, AheadNone
    <3>2. CASE Coming(s', host')
      <4>1. Coming(s, host) /\ OfConsole(host)
        BY <1>1, <3>2, ReceivesHost DEF Coming
      <4>2. PICK k, j \in Nat : Continues(s, host, k + j)
        BY <4>1, ConsoleFlow
      <4>3. s.txcallback = "tx" /\ ~(s.tx.left > 0)
        BY <1>4, <3>2, <4>1, <4>2 DEF Continues, Coming
      <4>4. s.tx.left \in Nat /\ s.tx.sent \in Nat
        BY <1>1 DEF Device
      <4>5. s.tx.sent + Lesser(Packet, s.tx.left) = s.tx.sent
        BY <4>3, <4>4, UsbAssumption DEF Lesser
      <4>6. s'.in.body = << >>
        BY <1>4, <4>3, <4>4, <4>5, UnitsNone
      <4> QED
        BY <2>1, <3>2, <4>6, SeeNone DEF Ahead
    <3> QED
      BY <3>1, <3>2
  <2> QED
    BY <1>5, <2>1, <2>2, SeesOn
<1>6. Streaming' /\ WriterSizes' /\ OneWriter'
  BY <1>1, <1>2, <1>3, <1>5, RingAlone DEF Apart
<1>7. Answering(s', host')
  <2>1. host'.kind = host.kind /\ host'.asked = host.asked
    BY <1>1, ReceivesHost
  <2> QED
    BY <1>1, <1>4, <2>1 DEF Answering, SameRequest, SameCommand
<1>8. Keyed(s', reader')
  BY <1>1, <1>2, <1>3, <1>4, KeyedQuiet DEF Apart, SameCommand, SameLeft
<1> QED
  BY <1>6, <1>7, <1>8 DEF Kept

\* More text is on its way as long as more is wanted.
LEMMA TextGoesOn ==
    ASSUME ConsoleInvariant, host_receives, s.txcallback = "read_console"
    PROVE  /\ OfConsole(host) /\ s.memlen <= s.count
           /\ s.count = 0 \/ host'.phase = "in"
<1>1. /\ Device(s) /\ Host(host) /\ UsbInvariant /\ Answering(s, host)
  BY DEF ConsoleInvariant, UsbInvariant
<1>2. host.phase = "in" /\ s.in # NoPacket
  BY DEF host_receives
<1>3. OfConsole(host) /\ Coming(s, host)
  BY <1>1, <1>2, ReceivesHost DEF Answering
<1>4. PICK k, j \in Nat : /\ Carries(s, host, k, j) /\ Continues(s, host, k + j)
                          /\ Size(s.in) < Packet => k + j = Total(host)
  BY <1>3, ConsoleFlow
<1>5. s.count = Total(host) - (k + j) /\ s.memlen <= s.count
  BY <1>4 DEF Continues
<1>6. host.units = Total(host) /\ Len(host.got.body) = k /\ Len(s.in.body) = j
  BY <1>3, <1>4 DEF Carries, OfConsole
<1>7. s.count \in Nat /\ host.units \in Nat
  BY <1>1 DEF Device, Host
<1>8. Size(Received(s, host)) \in Int /\ Size(Received(s, host)) <= k + j + 1
  <2>1. Len(Received(s, host).body) = k + j
    BY <1>1, <1>6, ReceivedTypes
  <2> QED
    BY <2>1 DEF Size
<1>9. Wanted = host.units + 1
  BY <1>3 DEF Wanted, OfConsole
<1>10. s.count = 0 \/ host'.phase = "in"
  <2>1. s.count # 0 => k + j < host.units
    BY <1>5, <1>6, <1>7
  <2>2. k + j < host.units => ~(Size(Received(s, host)) >= Wanted)
    BY <1>7, <1>8, <1>9
  <2>3. k + j < host.units => ~(Size(s.in) < Packet)
    BY <1>4, <1>6, <1>7
  <2> QED
    BY <1>1, <2>1, <2>2, <2>3, ReceivesHost
<1> QED
  BY <1>3, <1>5, <1>10

\* Text has come, and the next piece of it is taken out of the ring.
LEMMA MoreReceived ==
    ASSUME ConsoleInvariant, host_receives, s.txcallback = "read_console"
    PROVE  Kept
<1>1. /\ Device(s) /\ Rings(s) /\ Host(host) /\ UsbInvariant /\ ThreadTypes /\ Stages(s, host)
      /\ Streaming /\ WriterSizes /\ OneWriter /\ Answering(s, host) /\ Keyed(s, reader)
  BY DEF ConsoleInvariant, UsbInvariant, Transfer
<1>2. /\ s' = InComplete(s) /\ writer' = writer /\ worker' = worker /\ reader' = reader
      /\ host.phase = "in" /\ "in" \notin s.stalled
  BY DEF host_receives
<1>3. OfConsole(host) /\ s.memlen <= s.count /\ (s.count = 0 \/ host'.phase = "in")
  BY TextGoesOn
<1>4. /\ SameKeys(s, s') /\ s'.sendwrite = s.sendwrite /\ (s.void => s'.void)
      /\ s'.stalled = s.stalled /\ s'.in.of = s.req /\ (s.count = 0 => s'.in.body = << >>)
      /\ GoesOn(s, s')
  BY <1>1, <1>2, <1>3, TextReceived
<1>5. Rings(s') /\ SameRequest(s, s') /\ SameCommand(s, s')
  BY <1>1, <1>2, InEffect
<1>6. /\ host'.kind = host.kind /\ host'.asked = host.asked /\ OfConsole(host')
      /\ host.seen \in Seen => host'.seen = Ahead(s, host)
  BY <1>1, <1>3, ReceivesHost
<1>7. ASSUME NEW c \in 0 .. MarkSize, NEW next \in Nat \ {0}, NEW p \in Nat,
             Ordered(s, c, next, p), Sees(s, host, c, next), ~s'.void
      PROVE  Flowing(s', host', p) /\ Available(s') <= Available(s)
  <2> DEFINE seen == Ahead(s, host)
  <2>1. host'.seen = seen
    BY <1>6, <1>7 DEF Sees
  <2> HIDE DEF seen
  <2>2. seen \in Seen /\ seen.ok /\ seen.last < next /\ Follows(seen, c, next)
    BY <1>7 DEF seen, Sees, Follows
  <2>3. Goes(s, s', seen, next, p)
    BY <1>4, <1>7, <2>2 DEF GoesOn
  <2>4. Ahead(s', host') = SeeAll(seen, s'.in.body)
    <3>1. CASE s.count = 0
      <4>1. SeeAll(seen, s'.in.body) = seen
        BY <1>4, <2>2, <3>1, SeeNone
      <4> QED
        BY <2>1, <4>1 DEF Ahead
    <3>2. CASE s.count # 0
      <4>1. s'.in # NoPacket
        BY <1>1, <1>2, <1>4 DEF Stages, NoPacket, Device
      <4> QED
        BY <1>2, <1>3, <1>4, <1>6, <2>1, <3>2, <4>1 DEF Ahead, Coming
    <3> QED
      BY <3>1, <3>2
  <2>5. Flowing(s', host', p)
    BY <2>1, <2>2, <2>3, <2>4, FlowsOut
  <2> QED
    BY <2>3, <2>5 DEF Goes
<1>8. Streaming' /\ WriterSizes' /\ OneWriter'
  BY <1>1, <1>2, <1>4, <1>5, <1>7, RingRead
<1>9. Answering(s', host')
  BY <1>1, <1>5, <1>6 DEF Answering, SameRequest, SameCommand
<1>10. Keyed(s', reader')
  <2>1. s'.dbgstate # "WRITE_CONSOLE"
    BY <1>1, <1>3, <1>5 DEF Answering, OfConsole, SameCommand
  <2> QED
    BY <1>1, <1>2, <1>4, <2>1, KeysApart DEF Keyed
<1> QED
  BY <1>8, <1>9, <1>10 DEF Kept

-----------------------------------------------------------------------------
(* The theorem.                                                            *)

\* The rings are empty when the monitor is enabled.
LEMMA ConsoleInit == Init => ConsoleInvariant
<1> SUFFICES ASSUME Init PROVE ConsoleInvariant
  OBVIOUS
<1>1. /\ s = Statics /\ worker = Resting
      /\ writer = [w \in Writers |-> [pc |-> "idle", left |-> 0, n |-> 0]]
      /\ reader = [last |-> 0, ok |-> TRUE]
      /\ host = [phase |-> "idle", kind |-> "none", units |-> 0, begun |-> FALSE, sent |-> 0,
                 got |-> NoAnswer, asked |-> NoCommand, seen |-> [last |-> 0, marks |-> 0, ok |-> TRUE]]
  BY DEF Init
<1>2. UsbInvariant
  BY UsbInit
<1>3. /\ s.sendread = 0 /\ s.sendwrite = 0 /\ s.recvread = 0 /\ s.recvwrite = 0 /\ s.text = 0 /\ s.typed = 0
      /\ s.req = 0 /\ s.refused = {} /\ s.dbgstate = "IDLE" /\ s.in = NoPacket
  BY <1>1 DEF Statics
<1>4. \A n \in Nat \ {0} : (0 - 0) % n = 0
  OBVIOUS
<1>5. Available(s) = 0 /\ dbgconsole_getavailable(s) = 0
  BY <1>3, <1>4, Sizes DEF Available, dbgconsole_getavailable
<1>6. Streaming
  <2>1. Pending(0)
    BY <1>1 DEF Pending
  <2>2. Ordered(s, 0, 1, 0)
    BY <1>3, <1>5, Sizes DEF Ordered
  <2>3. host.seen \in Seen /\ host.seen.ok /\ host.seen.last < 1 /\ host.seen.last + 1 = 1
    BY <1>1, Sizes DEF Seen
  <2>4. Ahead(s, host) = host.seen
    BY <1>1 DEF Ahead, Coming
  <2>5. Sees(s, host, 0, 1)
    BY <2>3, <2>4 DEF Sees, Follows
  <2>6. 0 \in 0 .. MarkSize /\ 1 \in Nat \ {0} /\ 0 \in Nat
    BY Sizes
  <2> QED
    BY <2>1, <2>2, <2>5, <2>6 DEF Streaming, Flowing
<1>7. OneWriter /\ WriterSizes
  <2>1. \A w \in Writers : writer[w].pc = "idle" /\ writer[w].left = 0
    BY <1>1
  <2>2. "worker" \in Writers
    BY DEF Writers
  <2> QED
    BY <2>1, <2>2 DEF OneWriter, WriterSizes, Started
<1>8. Answering(s, host)
  <2>1. host.phase = "idle" /\ host.kind = "none" /\ host.asked.kind = "none"
    BY <1>1 DEF NoCommand
  <2> QED
    BY <1>3, <2>1 DEF Answering
<1>9. Keyed(s, reader)
  <2>1. reader \in Readers /\ reader.ok /\ reader.last = 0
    BY <1>1 DEF Readers
  <2> QED
    BY <1>3, <1>5, <2>1 DEF Keyed, InKeys
<1> QED
  BY <1>2, <1>6, <1>7, <1>8, <1>9 DEF ConsoleInvariant

\* Every step keeps the invariant.
LEMMA ConsoleStays == ConsoleInvariant /\ [Next]_vars => ConsoleInvariant'
<1> SUFFICES ASSUME ConsoleInvariant, [Next]_vars PROVE ConsoleInvariant'
  OBVIOUS
<1>1. UsbInvariant'
  BY UsbStep DEF ConsoleInvariant
<1>2. CASE UNCHANGED vars
  <2>1. s' = s /\ worker' = worker /\ writer' = writer /\ reader' = reader /\ host' = host
    BY <1>2 DEF vars
  <2>2. Streaming' /\ OneWriter' /\ WriterSizes'
    BY <2>1 DEF ConsoleInvariant, Streaming, Pending, Piece, OneWriter, WriterSizes, Started
  <2> QED
    BY <1>1, <2>1, <2>2 DEF ConsoleInvariant
<1>3. CASE Next
  <2>1. work.kinds \subseteq Requests
    BY DEF ConsoleInvariant, UsbInvariant, ThreadTypes
  <2>2. ASSUME NEW r \in work.kinds, host_setup(r) PROVE Kept
    BY <2>1, <2>2, SetupKept
  <2>3. ASSUME HostStep PROVE Kept
    <3>1. ASSUME host_is_refused PROVE Kept
      BY <3>1, DroppedKept
    <3> QED
      BY <2>3, <3>1, SendsKept, LastReceived, MoreReceived, AcknowledgesKept, IsAcknowledgedKept DEF HostStep
  <2>4. Kept
    BY <1>3, <2>2, <2>3, DroppedKept, ResetsKept, WorkerKept, ConsoleKept DEF Next, ConsoleStep, Kept
  <2> QED
    BY <1>1, <2>4 DEF Kept, ConsoleInvariant
<1> QED
  BY <1>2, <1>3

\* The console is in order as long as the invariant holds.
LEMMA ConsoleOrdered == ConsoleInvariant => ConsoleInOrder
<1> SUFFICES ASSUME ConsoleInvariant, ~s.void PROVE ConsoleInOrder
  BY Zenon DEF ConsoleInOrder
<1>1. \E p \in Nat : Flowing(s, host, p)
  BY Zenon DEF ConsoleInvariant, Streaming
<1>2. host.seen.ok
  BY <1>1 DEF Flowing, Sees
<1>3. reader.ok
  BY DEF ConsoleInvariant, Keyed, InKeys
<1> QED
  BY <1>2, <1>3 DEF ConsoleInOrder

\* What the rings of usbdebug.c hold goes on from what was read of them, whoever writes, drops,
\* reads or gives up in between.
THEOREM ConsoleInvariantHolds == Spec => []ConsoleInvariant
<1>1. Init => ConsoleInvariant
  BY ConsoleInit
<1>2. ConsoleInvariant /\ [Next]_vars => ConsoleInvariant'
  BY ConsoleStays
<1> QED
  BY <1>1, <1>2, PTL DEF Spec

\* The host gets the text of the console in the order in which it was written, with the whole
\* overflow message wherever some is missing, and a thread reads all that the host typed.
THEOREM ConsoleIsInOrder == Spec => []ConsoleInOrder
<1>1. ConsoleInvariant => ConsoleInOrder
  BY ConsoleOrdered
<1> QED
  BY <1>1, ConsoleInvariantHolds, PTL
=============================================================================
