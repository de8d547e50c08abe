----------------------------- MODULE LifeProofs -----------------------------
(***************************************************************************)
(* Threads that are created and terminated (ThreadLife): a thread that was *)
(* killed is forgotten by the kernel, and the others keep what they have.  *)
(* The argument is ControlInvariant for the threads that live, with what   *)
(* the lists add; the loop of thread_terminate over the owned mutexes      *)
(* keeps it, and its end is reached, by an induction over its rounds.      *)
(***************************************************************************)
EXTENDS ThreadLife, ControlProofs, FoldProofs

(* The loop over owned_mutexes.                                            *)

\* The fields that the loop works on.
Structures ==
    [owned : [Threads -> Seq(Mutexes)], owner : [Mutexes -> Threads \cup {NULL}],
     count : [Mutexes -> Nat], block : [Threads -> BlockRecord],
     state : [AllThreads -> States], waiters : [Mutexes -> SUBSET Threads],
     ahead : [Threads -> SUBSET Threads], strayed : BOOLEAN, m : Mutexes \cup {NULL}]

\* Unlinking a mutex from a list that may not have it.
LEMMA UnlinkAny ==
    ASSUME NEW l \in Seq(Mutexes), NEW m \in Mutexes, Once(l)
    PROVE  /\ Unlink(l, m) \in Seq(Mutexes) /\ Once(Unlink(l, m))
           /\ \A n : In(Unlink(l, m), n) <=> n # m /\ In(l, n)
<1>1. CASE In(l, m)
  BY <1>1, UnlinkList, UnlinkType
<1>2. CASE ~In(l, m)
  BY <1>2 DEF In, Unlink
<1> QED
  BY <1>1, <1>2

\* Unlinking the first mutex of a list leaves the rest, and owned_next of the first is the
\* first of the rest.
LEMMA UnlinkFirst ==
    ASSUME NEW l \in Seq(Mutexes), l # << >>, Once(l)
    PROVE  /\ Len(Unlink(l, l[1])) = Len(l) - 1
           /\ LET rest == {i \in 2 .. Len(l) : l[i - 1] = l[1]}
              IN  FirstOf(Unlink(l, l[1])) = IF rest = {} THEN NULL ELSE l[CHOOSE i \in rest : TRUE]
<1> DEFINE k == CHOOSE i \in 1 .. Len(l) : l[i] = l[1]
           u == [i \in 1 .. Len(l) - 1 |-> IF i < k THEN l[i] ELSE l[i + 1]]
           rest == {i \in 2 .. Len(l) : l[i - 1] = l[1]}
<1>1. Len(l) \in Nat /\ Len(l) >= 1 /\ 1 \in 1 .. Len(l)
  OBVIOUS
<1>2. k = 1
  <2>1. k \in 1 .. Len(l) /\ l[k] = l[1]
    BY <1>1
  <2> QED
    BY <1>1, <2>1 DEF Once
<1>3. Unlink(l, l[1]) = u
  BY <1>1 DEF Unlink
<1> HIDE DEF k, u
<1>a. u \in Seq(Mutexes)
  <2>1. l[1] \in Mutexes
    BY <1>1
  <2> QED
    BY <1>3, <2>1, UnlinkType
<1>b. Len(l) = 1 \/ Len(l) > 1
  <2> DEFINE len == Len(l)
  <2>1. len \in Nat /\ len >= 1
    BY <1>1
  <2> HIDE DEF len
  <2>2. len = 1 \/ len > 1
    BY <2>1
  <2> QED
    BY <2>2 DEF len
<1>4. Len(u) = Len(l) - 1 /\ (Len(l) > 1 => u[1] = l[2])
  <2>1. \A i \in 1 .. Len(l) - 1 : u[i] = l[i + 1]
    BY <1>1, <1>2 DEF u
  <2>2. Len(l) - 1 \in Nat /\ DOMAIN u = 1 .. Len(l) - 1
    BY <1>1 DEF u
  <2>3. u \in Seq(Mutexes)
    BY <1>a
  <2> HIDE DEF u
  <2>4. Len(u) = Len(l) - 1
    BY <2>2, <2>3
  <2>5. Len(l) > 1 => 1 \in 1 .. Len(l) - 1
    BY <1>1
  <2> QED
    BY <2>1, <2>4, <2>5
<1>5. rest = IF Len(l) > 1 THEN {2} ELSE {}
  <2>1. ASSUME NEW i \in rest PROVE i = 2 /\ Len(l) > 1
    <3>1. i \in 2 .. Len(l) /\ i - 1 \in 1 .. Len(l) /\ l[i - 1] = l[1]
      BY <1>1
    <3>2. i - 1 = 1
      BY <1>1, <3>1 DEF Once
    <3> QED
      BY <3>1, <3>2
  <2>2. Len(l) > 1 => 2 \in rest
    BY <1>1
  <2> HIDE DEF rest
  <2> QED
    BY <2>1, <2>2
<1>6. (u = << >>) <=> Len(l) = 1
  <2>1. u \in Seq(Mutexes)
    BY <1>a
  <2> HIDE DEF u
  <2> QED
    BY <1>1, <1>4, <2>1
<1> HIDE DEF u, rest
<1>7. FirstOf(u) = IF rest = {} THEN NULL ELSE l[CHOOSE i \in rest : TRUE]
  <2>1. CASE Len(l) = 1
    BY <1>5, <1>6, <2>1 DEF FirstOf
  <2>2. CASE Len(l) > 1
    <3>1. rest = {2} /\ u # << >> /\ u[1] = l[2]
      BY <1>4, <1>5, <1>6, <2>2
    <3>2. (CHOOSE i \in rest : TRUE) = 2 /\ rest # {}
      BY <3>1
    <3> QED
      BY <3>1, <3>2 DEF FirstOf
  <2> QED
    BY <1>b, <2>1, <2>2
<1> QED
  BY <1>3, <1>4, <1>7 DEF rest

\* Of the threads that wait for a mutex, F apart, one is the first.
LEMMA FirstWaits ==
    ASSUME TypeOK, QueuedWaits, QueueIsLinear, NEW m \in Mutexes, NEW F, waiters[m] \ F # {}
    PROVE  \E h \in waiters[m] \ F : ahead[h] \ F = {}
<1> DEFINE W == waiters[m] \ F
           B(h) == ahead[h] \ F
           T == {Cardinality(B(h)) : h \in W}
<1>1. IsFiniteSet(Threads) /\ waiters[m] \subseteq Threads /\ \A h \in W : h \in Threads
  BY LifeAssumption DEF TypeOK, MutexesType
<1>2. ASSUME NEW h \in W PROVE B(h) \subseteq W /\ h \notin B(h)
  BY AheadWaits
<1>3. IsFiniteSet(W)
  BY <1>1, FS_Subset
<1>4. ASSUME NEW h \in W PROVE IsFiniteSet(B(h)) /\ Cardinality(B(h)) \in Nat
  BY <1>2, <1>3, FS_Subset, FS_CardinalityType
<1>5. T \in SUBSET Nat /\ T # {}
  BY <1>4
<1>6. PICK k \in T : \A y \in T : k <= y
  BY <1>5, Smallest
<1>7. PICK h \in W : k = Cardinality(B(h))
  BY <1>6
<1>8. ASSUME NEW y \in B(h) PROVE FALSE
  <2>1. y \in W /\ y # h /\ y \in ahead[h] /\ y \in waiters[m] /\ h \in waiters[m]
    BY <1>2, <1>7
  <2>2. ahead[y] \subseteq ahead[h] \ {h}
    BY <2>1 DEF QueueIsLinear
  <2>3. B(y) \subseteq B(h) /\ y \notin B(y)
    BY <1>2, <2>1, <2>2
  <2>4. Cardinality(B(y)) < Cardinality(B(h))
    <3>1. B(y) # B(h)
      BY <2>3
    <3> HIDE DEF B
    <3> QED
      BY <1>4, <1>7, <2>3, <3>1, FS_Subset, FS_CardinalityType
  <2>5. Cardinality(B(h)) <= Cardinality(B(y))
    BY <1>6, <1>7, <2>1
  <2> QED
    BY <1>4, <1>7, <2>1, <2>4, <2>5
<1> QED
  BY <1>7, <1>8

\* A list that has each mutex once is no longer than there are mutexes.
LEMMA OnceIsShort ==
    ASSUME NEW l \in Seq(Mutexes), Once(l)
    PROVE  Len(l) <= Cardinality(Mutexes) /\ Cardinality(Mutexes) \in Nat
<1> DEFINE f == [i \in 1 .. Len(l) |-> l[i]]
<1>1. Len(l) \in Nat /\ f \in [1 .. Len(l) -> Mutexes]
  OBVIOUS
<1>2. f \in Injection(1 .. Len(l), Mutexes)
  BY <1>1 DEF Once, Injection, IsInjective
<1>3. IsFiniteSet(Mutexes)
  BY LifeAssumption
<1>4. Cardinality(1 .. Len(l)) <= Cardinality(Mutexes)
  BY <1>2, <1>3, FS_Injection
<1>5. Cardinality(1 .. Len(l)) = Len(l)
  <2>1. Len(l) \in Int /\ 1 \in Int /\ Len(l) >= 0
    BY <1>1
  <2> DEFINE n == Len(l)
  <2>2. Cardinality(1 .. n) = IF 1 > n THEN 0 ELSE n - 1 + 1
    BY <2>1, FS_Interval
  <2> HIDE DEF n
  <2>3. Cardinality(1 .. n) = n
    BY <2>1, <2>2 DEF n
  <2> QED
    BY <2>3 DEF n
<1> QED
  BY <1>3, <1>4, <1>5, FS_CardinalityType

\* Where the loop is when it has handed mutexes over to the threads of R.
Handed(x, R, r, n) ==
    /\ owner[n] = x /\ count[n] > 0
    /\ \/ r.owner[n] = x /\ r.count[n] = 0
       \/ r.owner[n] \in R /\ r.count[n] = 1 /\ r.owner[n] \in waiters[n]

Lists(r) ==
    \A y \in Threads : /\ Once(r.owned[y])
                       /\ \A n \in Mutexes : In(r.owned[y], n) <=> r.count[n] > 0 /\ r.owner[n] = y

Dequeued(E, R, r) ==
    /\ R \subseteq Threads
    /\ \A y \in R : \E n \in Mutexes : y \in waiters[n]
    /\ r.waiters = [n \in Mutexes |-> waiters[n] \ (E \cup R)]
    /\ r.ahead = [y \in Threads |-> IF y \in E \cup R THEN {} ELSE ahead[y] \ (E \cup R)]

Woken(x, E, R, r) ==
    /\ \A y \in AllThreads : r.state[y] = IF y \in R THEN "READY" ELSE Fields(x, E).state[y]
    /\ \A y \in Threads : r.block[y] = IF y \in R THEN NotBlocked ELSE block[y]

Owners(R, r) ==
    \A n \in Mutexes : \/ r.owner[n] \in R
                       \/ r.owner[n] = owner[n] /\ (r.count[n] > 0 => count[n] > 0)

OnCourse(x, R, r) ==
    ~r.strayed =>
        /\ x \notin R /\ r.m = FirstOf(r.owned[x])
        /\ \A n \in Mutexes : \/ r.owner[n] = owner[n] /\ r.count[n] = count[n]
                              \/ Handed(x, R, r, n)

Loops(x, E, R, r) ==
    /\ r \in Structures /\ Lists(r) /\ Dequeued(E, R, r) /\ Woken(x, E, R, r)
    /\ r.m # NULL => r.count[r.m] > 0 /\ r.owner[r.m] \in Threads
    /\ Owners(R, r) /\ OnCourse(x, R, r)

\* Every round shortens the list of the victim.
Shorter(x, r, u) ==
    ~u.strayed => ~r.strayed /\ (u.owned[x] = << >> \/ Len(u.owned[x]) < Len(r.owned[x]))

\* What the fields of the record are.
LEMMA StructuresType ==
    ASSUME NEW r \in Structures
    PROVE  /\ r.owned \in [Threads -> Seq(Mutexes)] /\ r.owner \in [Mutexes -> Threads \cup {NULL}]
           /\ r.count \in [Mutexes -> Nat] /\ r.block \in [Threads -> BlockRecord]
           /\ r.state \in [AllThreads -> States] /\ r.waiters \in [Mutexes -> SUBSET Threads]
           /\ r.ahead \in [Threads -> SUBSET Threads] /\ r.strayed \in BOOLEAN
           /\ r.m \in Mutexes \cup {NULL}
BY DEF Structures

\* The mutex that comes next is another one of the list.
LEMMA NextOwnedListed ==
    ASSUME NEW r \in Structures, Lists(r), NEW o \in Threads, r.m \in Mutexes, r.owner[r.m] = o
    PROVE  /\ NextOwned(r) \in Mutexes \cup {NULL}
           /\ NextOwned(r) # NULL => NextOwned(r) # r.m /\ In(r.owned[o], NextOwned(r))
           /\ r.owned[o] # << >> /\ r.owned[o][1] = r.m =>
                NextOwned(r) = FirstOf(Unlink(r.owned[o], r.m)) /\ Len(Unlink(r.owned[o], r.m)) = Len(r.owned[o]) - 1
<1> DEFINE l == r.owned[o]
           rest == {i \in 2 .. Len(l) : l[i - 1] = r.m}
           n == NextOwned(r)
<1>1. l \in Seq(Mutexes) /\ Once(l)
  BY StructuresType DEF Lists
<1>2. n = IF rest = {} THEN NULL ELSE l[CHOOSE i \in rest : TRUE]
  BY DEF NextOwned
<1> HIDE DEF n
<1>3. ASSUME n # NULL PROVE n \in Mutexes /\ n # r.m /\ In(l, n)
  <2>1. rest # {}
    BY <1>2, <1>3
  <2>2. PICK i \in rest : n = l[i]
    BY <1>2, <2>1
  <2>3. i \in 1 .. Len(l) /\ i - 1 \in 1 .. Len(l) /\ l[i - 1] = r.m /\ i # i - 1
    BY <1>1, <2>2
  <2> HIDE DEF l
  <2>4. l[i] # r.m /\ l[i] \in Mutexes
    BY <1>1, <2>3 DEF Once
  <2> QED
    BY <2>2, <2>3, <2>4 DEF In
<1>4. ASSUME l # << >>, l[1] = r.m
      PROVE  n = FirstOf(Unlink(l, r.m)) /\ Len(Unlink(l, r.m)) = Len(l) - 1
  <2> HIDE DEF l
  <2>1. /\ Len(Unlink(l, l[1])) = Len(l) - 1
        /\ FirstOf(Unlink(l, l[1])) =
             IF {i \in 2 .. Len(l) : l[i - 1] = l[1]} = {} THEN NULL
             ELSE l[CHOOSE i \in {i \in 2 .. Len(l) : l[i - 1] = l[1]} : TRUE]
    BY <1>1, <1>4, UnlinkFirst
  <2> QED
    BY <1>2, <1>4, <2>1
<1> QED
  BY <1>2, <1>3, <1>4 DEF n

\* A mutex that nobody waits for is free, and the loop goes on.
LEMMA RoundFrees ==
    ASSUME TypeOK, NEW x \in Threads, NEW E, NEW R, NEW r, Loops(x, E, R, r),
           r.m # NULL, r.waiters[r.m] = {}
    PROVE  Loops(x, E, R, UnlockOne(r, x)) /\ Shorter(x, r, UnlockOne(r, x))
<1> DEFINE o == r.owner[r.m]
           l == r.owned[o]
           u == UnlockOne(r, x)
<1>1. r \in Structures /\ Lists(r) /\ r.m \in Mutexes /\ r.count[r.m] > 0 /\ o \in Threads
  BY StructuresType DEF Loops
<1>2. /\ NextOwned(r) \in Mutexes \cup {NULL}
      /\ NextOwned(r) # NULL => NextOwned(r) # r.m /\ In(l, NextOwned(r))
      /\ l # << >> /\ l[1] = r.m =>
           NextOwned(r) = FirstOf(Unlink(l, r.m)) /\ Len(Unlink(l, r.m)) = Len(l) - 1
  BY <1>1, NextOwnedListed
<1>3. l \in Seq(Mutexes) /\ Once(l)
  BY <1>1, StructuresType DEF Lists
<1>4. /\ Unlink(l, r.m) \in Seq(Mutexes) /\ Once(Unlink(l, r.m))
      /\ \A n : In(Unlink(l, r.m), n) <=> n # r.m /\ In(l, n)
  BY <1>1, <1>3, UnlinkAny
<1>5. u = [r EXCEPT !.owned[o] = Unlink(l, r.m), !.count[r.m] = 0, !.m = NextOwned(r)]
  BY DEF UnlockOne
<1> HIDE DEF l, o, u
<1>6. /\ u.owned = [r.owned EXCEPT ![o] = Unlink(l, r.m)] /\ u.count = [r.count EXCEPT ![r.m] = 0]
      /\ u.m = NextOwned(r) /\ u.owner = r.owner /\ u.block = r.block /\ u.state = r.state
      /\ u.waiters = r.waiters /\ u.ahead = r.ahead /\ u.strayed = r.strayed
      /\ DOMAIN u = DOMAIN r
  BY <1>1, <1>5 DEF Structures
<1>7. /\ \A y \in Threads : u.owned[y] = IF y = o THEN Unlink(l, r.m) ELSE r.owned[y]
      /\ \A n \in Mutexes : u.count[n] = IF n = r.m THEN 0 ELSE r.count[n]
  BY <1>1, <1>6, StructuresType
<1>8. u \in Structures
  <2>1. u.owned \in [Threads -> Seq(Mutexes)] /\ u.count \in [Mutexes -> Nat]
    BY <1>1, <1>4, <1>6, StructuresType
  <2> QED
    BY <1>1, <1>2, <1>5, <1>6, <2>1 DEF Structures
<1>9. Lists(u)
  <2>1. ASSUME NEW y \in Threads PROVE Once(u.owned[y])
    BY <1>1, <1>4, <1>7 DEF Lists
  <2>2. ASSUME NEW y \in Threads, NEW n \in Mutexes
        PROVE  In(u.owned[y], n) <=> u.count[n] > 0 /\ u.owner[n] = y
    <3>1. In(r.owned[y], n) <=> r.count[n] > 0 /\ r.owner[n] = y
      BY <1>1 DEF Lists
    <3>2. CASE y = o
      BY <1>4, <1>6, <1>7, <3>1, <3>2 DEF l, o
    <3>3. CASE y # o
      BY <1>6, <1>7, <3>1, <3>3 DEF o
    <3> QED
      BY <3>2, <3>3
  <2> QED
    BY <2>1, <2>2 DEF Lists
<1>10. u.m # NULL => u.count[u.m] > 0 /\ u.owner[u.m] \in Threads
  <2>1. ASSUME NextOwned(r) # NULL
        PROVE  r.count[NextOwned(r)] > 0 /\ r.owner[NextOwned(r)] = o /\ NextOwned(r) # r.m
               /\ NextOwned(r) \in Mutexes
    BY <1>1, <1>2, <2>1 DEF Lists, l
  <2> QED
    BY <1>1, <1>6, <1>7, <2>1
<1>11. Dequeued(E, R, u) /\ Woken(x, E, R, u)
  <2>1. Dequeued(E, R, r) /\ Woken(x, E, R, r)
    BY DEF Loops
  <2> QED
    BY <1>6, <2>1 DEF Dequeued, Woken
<1>12. Owners(R, u)
  <2>1. Owners(R, r)
    BY DEF Loops
  <2> QED
    BY <1>6, <1>7, <2>1 DEF Owners
<1>13. OnCourse(x, R, u) /\ Shorter(x, r, u)
  <2> SUFFICES ASSUME ~u.strayed
               PROVE  /\ x \notin R /\ u.m = FirstOf(u.owned[x])
                      /\ \A n \in Mutexes : \/ u.owner[n] = owner[n] /\ u.count[n] = count[n]
                                            \/ Handed(x, R, u, n)
                      /\ Len(u.owned[x]) < Len(r.owned[x])
    BY <1>6 DEF OnCourse, Shorter
  <2>1. /\ x \notin R /\ r.m = FirstOf(r.owned[x])
        /\ \A n \in Mutexes : \/ r.owner[n] = owner[n] /\ r.count[n] = count[n]
                              \/ Handed(x, R, r, n)
    BY <1>6 DEF OnCourse, Loops
  <2>2. r.owned[x] # << >> /\ r.owned[x][1] = r.m /\ r.owned[x] \in Seq(Mutexes)
    BY <1>1, <2>1, StructuresType DEF FirstOf
  <2>3. In(r.owned[x], r.m)
    <3>1. 1 \in 1 .. Len(r.owned[x])
      BY <2>2
    <3> QED
      BY <2>2, <3>1 DEF In
  <2>4. o = x /\ l = r.owned[x]
    BY <1>1, <2>3 DEF Lists, o, l
  <2>5. u.owned[x] = Unlink(l, r.m) /\ u.m = FirstOf(u.owned[x]) /\ Len(u.owned[x]) = Len(l) - 1
    BY <1>2, <1>6, <1>7, <2>2, <2>4
  <2>6. Len(u.owned[x]) < Len(r.owned[x])
    BY <1>3, <2>4, <2>5
  <2>7. ASSUME NEW n \in Mutexes
        PROVE  \/ u.owner[n] = owner[n] /\ u.count[n] = count[n]
               \/ Handed(x, R, u, n)
    <3>1. CASE n = r.m
      <4>1. owner[n] = x /\ count[n] > 0
        BY <1>1, <2>1, <2>4, <3>1 DEF Handed, o
      <4>2. u.owner[n] = x /\ u.count[n] = 0
        BY <1>6, <1>7, <2>4, <3>1 DEF o
      <4> QED
        BY <4>1, <4>2 DEF Handed
    <3>2. CASE n # r.m
      BY <1>6, <1>7, <2>1, <3>2 DEF Handed
    <3> QED
      BY <3>1, <3>2
  <2> QED
    BY <2>1, <2>5, <2>6, <2>7
<1> QED
  BY <1>8, <1>9, <1>10, <1>11, <1>12, <1>13 DEF Loops, u

\* A mutex that threads wait for goes to the first of them, and the loop goes on in its list.
LEMMA RoundHandsOver ==
    ASSUME TypeOK, QueuedWaits, NEW x \in Threads, NEW E, NEW R, NEW r, Loops(x, E, R, r),
           r.m # NULL, NEW h \in r.waiters[r.m]
    PROVE  Loops(x, E, R \cup {h}, HandOver(r, x, h)) /\ Shorter(x, r, HandOver(r, x, h))
<1> DEFINE o == r.owner[r.m]
           l == r.owned[o]
           k == Unlink(r.owned[h], r.m)
           u == HandOver(r, x, h)
           R2 == R \cup {h}
<1>1. r \in Structures /\ Lists(r) /\ r.m \in Mutexes /\ r.count[r.m] > 0 /\ o \in Threads
  BY StructuresType DEF Loops
<1>2. /\ NextOwned(r) \in Mutexes \cup {NULL}
      /\ NextOwned(r) # NULL => NextOwned(r) # r.m /\ In(l, NextOwned(r))
      /\ l # << >> /\ l[1] = r.m =>
           NextOwned(r) = FirstOf(Unlink(l, r.m)) /\ Len(Unlink(l, r.m)) = Len(l) - 1
  BY <1>1, NextOwnedListed
<1>a. h \in Threads /\ h \in AllThreads /\ h \notin E \cup R /\ h \in waiters[r.m]
  BY <1>1, StructuresType DEF Loops, Dequeued, AllThreads
<1>3. /\ l \in Seq(Mutexes) /\ Once(l) /\ r.owned[h] \in Seq(Mutexes) /\ Once(r.owned[h])
  BY <1>1, <1>a, StructuresType DEF Lists
<1>4. /\ Unlink(l, r.m) \in Seq(Mutexes) /\ Once(Unlink(l, r.m))
      /\ \A n : In(Unlink(l, r.m), n) <=> n # r.m /\ In(l, n)
  BY <1>1, <1>3, UnlinkAny
<1>b. /\ k \in Seq(Mutexes) /\ Once(k)
      /\ \A n : In(k, n) <=> n # r.m /\ In(r.owned[h], n)
  BY <1>1, <1>3, UnlinkAny
<1>c. /\ <<r.m>> \o k \in Seq(Mutexes) /\ Once(<<r.m>> \o k)
      /\ \A n : In(<<r.m>> \o k, n) <=> n = r.m \/ In(r.owned[h], n)
  <2>1. ~In(k, r.m)
    BY <1>b
  <2> HIDE DEF k
  <2>2. <<r.m>> \o k \in Seq(Mutexes)
    BY <1>1, <1>b, PrependType
  <2>3. Once(<<r.m>> \o k) /\ \A n : In(<<r.m>> \o k, n) <=> n = r.m \/ In(k, n)
    BY ONLY <1>1, <1>b, <2>1, PrependList
  <2> QED
    BY <1>b, <2>2, <2>3
<1>5. u = [r EXCEPT !.owned = [y \in Threads |-> CASE y = h -> <<r.m>> \o Unlink(@[h], r.m)
                                                 [] y = o /\ y # h -> Unlink(@[y], r.m)
                                                 [] OTHER -> @[y]],
                    !.count[r.m] = 1, !.owner[r.m] = h,
                    !.state[h] = "READY", !.block[h] = NotBlocked,
                    !.waiters[r.m] = @ \ {h},
                    !.ahead = [y \in Threads |-> IF y = h THEN {} ELSE @[y] \ {h}],
                    !.strayed = @ \/ FirstOf(r.owned[h]) # NextOwned(r),
                    !.m = FirstOf(r.owned[h])]
  BY Zenon DEF HandOver
<1> HIDE DEF u
<1>6. /\ u.owned = [y \in Threads |-> CASE y = h -> <<r.m>> \o Unlink(r.owned[h], r.m)
                                        [] y = o /\ y # h -> Unlink(r.owned[y], r.m)
                                        [] OTHER -> r.owned[y]]
      /\ u.count = [r.count EXCEPT ![r.m] = 1] /\ u.owner = [r.owner EXCEPT ![r.m] = h]
      /\ u.state = [r.state EXCEPT ![h] = "READY"] /\ u.block = [r.block EXCEPT ![h] = NotBlocked]
      /\ u.waiters = [r.waiters EXCEPT ![r.m] = @ \ {h}]
      /\ u.ahead = [y \in Threads |-> IF y = h THEN {} ELSE r.ahead[y] \ {h}]
      /\ u.strayed = (r.strayed \/ FirstOf(r.owned[h]) # NextOwned(r))
      /\ u.m = FirstOf(r.owned[h])
      /\ DOMAIN u = DOMAIN r
  BY <1>1, <1>5 DEF Structures
<1>7. /\ \A y \in Threads : u.owned[y] = IF y = h THEN <<r.m>> \o k
                                         ELSE IF y = o THEN Unlink(l, r.m) ELSE r.owned[y]
      /\ \A n \in Mutexes : u.count[n] = IF n = r.m THEN 1 ELSE r.count[n]
      /\ \A n \in Mutexes : u.owner[n] = IF n = r.m THEN h ELSE r.owner[n]
  BY <1>1, <1>6, StructuresType
<1> HIDE DEF l, o, k
<1>8. u \in Structures
  <2>1. u.owned \in [Threads -> Seq(Mutexes)]
    <3>1. \A y \in Threads : u.owned[y] \in Seq(Mutexes)
      BY <1>1, <1>4, <1>7, <1>c, StructuresType
    <3> QED
      BY <1>6, <3>1
  <2>2. /\ u.count \in [Mutexes -> Nat] /\ u.owner \in [Mutexes -> Threads \cup {NULL}]
    BY <1>1, <1>6, <1>a, StructuresType
  <2>3. /\ u.state \in [AllThreads -> States] /\ u.block \in [Threads -> BlockRecord]
    BY <1>1, <1>6, <1>a, StructuresType DEF States, NotBlocked, Blocked, BlockRecord, BlockTypes
  <2>4. /\ u.waiters \in [Mutexes -> SUBSET Threads] /\ u.ahead \in [Threads -> SUBSET Threads]
    BY <1>1, <1>6, <1>a, StructuresType
  <2>5. u.m \in Mutexes \cup {NULL}
    BY <1>3, <1>6 DEF FirstOf
  <2>6. u.strayed \in BOOLEAN
    BY <1>6
  <2>7. u = [r EXCEPT !.owned = u.owned, !.count = u.count, !.owner = u.owner, !.state = u.state,
                      !.block = u.block, !.waiters = u.waiters, !.ahead = u.ahead,
                      !.strayed = u.strayed, !.m = u.m]
    BY <1>1, <1>5, <1>6 DEF Structures
  <2> QED
    BY <1>1, <2>1, <2>2, <2>3, <2>4, <2>5, <2>6, <2>7 DEF Structures
<1>9. Lists(u)
  <2>1. ASSUME NEW y \in Threads PROVE Once(u.owned[y])
    BY <1>1, <1>4, <1>7, <1>c DEF Lists
  <2>2. ASSUME NEW y \in Threads, NEW n \in Mutexes
        PROVE  In(u.owned[y], n) <=> u.count[n] > 0 /\ u.owner[n] = y
    <3>1. \A z \in Threads : In(r.owned[z], n) <=> r.count[n] > 0 /\ r.owner[n] = z
      BY <1>1 DEF Lists
    <3>2. CASE y = h
      BY <1>7, <1>a, <1>c, <3>1, <3>2
    <3>3. CASE y # h /\ y = o
      BY <1>4, <1>7, <3>1, <3>3 DEF l, o
    <3>4. CASE y # h /\ y # o
      BY <1>7, <3>1, <3>4 DEF o
    <3> QED
      BY <3>2, <3>3, <3>4
  <2> QED
    BY <2>1, <2>2 DEF Lists
<1>10. u.m # NULL => u.count[u.m] > 0 /\ u.owner[u.m] \in Threads
  <2> SUFFICES ASSUME u.m # NULL PROVE u.count[u.m] > 0 /\ u.owner[u.m] \in Threads
    OBVIOUS
  <2>1. r.owned[h] # << >> /\ u.m = r.owned[h][1]
    BY <1>6 DEF FirstOf
  <2>2. In(r.owned[h], u.m) /\ u.m \in Mutexes
    <3>1. 1 \in 1 .. Len(r.owned[h])
      BY <1>3, <2>1
    <3> QED
      BY <1>3, <2>1, <3>1 DEF In
  <2>3. r.count[u.m] > 0 /\ r.owner[u.m] = h
    BY <1>1, <1>a, <2>2 DEF Lists
  <2> QED
    BY <1>7, <1>a, <2>2, <2>3
<1>11. Dequeued(E, R2, u)
  <2>1. /\ R \subseteq Threads /\ \A y \in R : \E n \in Mutexes : y \in waiters[n]
        /\ r.waiters = [n \in Mutexes |-> waiters[n] \ (E \cup R)]
        /\ r.ahead = [y \in Threads |-> IF y \in E \cup R THEN {} ELSE ahead[y] \ (E \cup R)]
    BY DEF Loops, Dequeued
  <2>2. R2 \subseteq Threads /\ \A y \in R2 : \E n \in Mutexes : y \in waiters[n]
    BY <1>1, <1>a, <2>1
  <2>3. \A n \in Mutexes : h \in waiters[n] => n = r.m
    BY <1>1, <1>a, OneQueue
  <2>4. u.waiters = [n \in Mutexes |-> waiters[n] \ (E \cup R2)]
    <3>1. \A n \in Mutexes : u.waiters[n] = waiters[n] \ (E \cup R2)
      BY <1>1, <1>6, <2>1, <2>3
    <3>2. u.waiters = [n \in Mutexes |-> u.waiters[n]]
      BY <1>8, StructuresType
    <3> QED
      BY <3>1, <3>2
  <2>5. u.ahead = [y \in Threads |-> IF y \in E \cup R2 THEN {} ELSE ahead[y] \ (E \cup R2)]
    <3>1. ASSUME NEW y \in Threads
          PROVE  u.ahead[y] = IF y \in E \cup R2 THEN {} ELSE ahead[y] \ (E \cup R2)
      <4>1. u.ahead[y] = IF y = h THEN {} ELSE r.ahead[y] \ {h}
        BY <1>6
      <4>2. r.ahead[y] = IF y \in E \cup R THEN {} ELSE ahead[y] \ (E \cup R)
        BY <2>1
      <4> QED
        BY <4>1, <4>2
    <3>2. u.ahead = [y \in Threads |-> u.ahead[y]]
      BY <1>6
    <3> QED
      BY <3>1, <3>2
  <2> QED
    BY <2>2, <2>4, <2>5 DEF Dequeued
<1>d. Woken(x, E, R2, u)
  <2>1. Woken(x, E, R, r) /\ r.state \in [AllThreads -> States] /\ r.block \in [Threads -> BlockRecord]
    BY <1>1, StructuresType DEF Loops
  <2> QED
    BY <1>6, <1>a, <2>1 DEF Woken
<1>12. Owners(R2, u)
  <2>1. Owners(R, r)
    BY DEF Loops
  <2> QED
    BY <1>7, <2>1 DEF Owners
<1>13. OnCourse(x, R2, u) /\ Shorter(x, r, u)
  <2> SUFFICES ASSUME ~u.strayed
               PROVE  /\ ~r.strayed /\ x \notin R2 /\ u.m = FirstOf(u.owned[x])
                      /\ \A n \in Mutexes : \/ u.owner[n] = owner[n] /\ u.count[n] = count[n]
                                            \/ Handed(x, R2, u, n)
                      /\ Len(u.owned[x]) < Len(r.owned[x])
    BY DEF OnCourse, Shorter
  <2>0. ~r.strayed /\ FirstOf(r.owned[h]) = NextOwned(r)
    BY <1>6
  <2>1. /\ x \notin R /\ r.m = FirstOf(r.owned[x])
        /\ \A n \in Mutexes : \/ r.owner[n] = owner[n] /\ r.count[n] = count[n]
                              \/ Handed(x, R, r, n)
    BY <2>0 DEF OnCourse, Loops
  <2>2. r.owned[x] # << >> /\ r.owned[x][1] = r.m /\ r.owned[x] \in Seq(Mutexes)
    BY <1>1, <2>1, StructuresType DEF FirstOf
  <2>3. In(r.owned[x], r.m)
    <3>1. 1 \in 1 .. Len(r.owned[x])
      BY <2>2
    <3> QED
      BY <2>2, <3>1 DEF In
  <2>4. o = x /\ l = r.owned[x]
    BY <1>1, <2>3 DEF Lists, o, l
  <2>5. h # x
    <3>1. r.m # NextOwned(r)
      BY <1>2, <2>4
    <3> QED
      BY <2>0, <2>1, <3>1
  <2>6. u.owned[x] = Unlink(l, r.m) /\ u.m = FirstOf(u.owned[x]) /\ Len(u.owned[x]) = Len(l) - 1
    BY <1>2, <1>6, <1>7, <2>0, <2>2, <2>4, <2>5
  <2>7. Len(u.owned[x]) < Len(r.owned[x])
    BY <1>3, <2>4, <2>6
  <2>8. ASSUME NEW n \in Mutexes
        PROVE  \/ u.owner[n] = owner[n] /\ u.count[n] = count[n]
               \/ Handed(x, R2, u, n)
    <3>1. CASE n = r.m
      <4>1. owner[n] = x /\ count[n] > 0
        BY <1>1, <2>1, <2>4, <3>1 DEF Handed, o
      <4>2. u.owner[n] = h /\ u.count[n] = 1 /\ h \in R2
        BY <1>7, <3>1
      <4> QED
        BY <1>a, <3>1, <4>1, <4>2 DEF Handed
    <3>2. CASE n # r.m
      BY <1>7, <2>1, <3>2 DEF Handed
    <3> QED
      BY <3>1, <3>2
  <2> QED
    BY <2>0, <2>1, <2>5, <2>6, <2>7, <2>8
<1> QED
  BY <1>8, <1>9, <1>10, <1>11, <1>12, <1>13, <1>d DEF Loops, u

\* Either way.
LEMMA RoundLoops ==
    ASSUME TypeOK, QueuedWaits, QueueIsLinear, NEW x \in Threads, NEW E, NEW R, NEW r,
           Loops(x, E, R, r)
    PROVE  /\ \E R2 \in SUBSET Threads : Loops(x, E, R2, UnlockOne(r, x))
           /\ Shorter(x, r, UnlockOne(r, x))
<1>1. /\ r \in Structures /\ R \in SUBSET Threads /\ r.m \in Mutexes \cup {NULL}
      /\ r.owned \in [Threads -> Seq(Mutexes)]
  BY StructuresType DEF Loops, Dequeued
<1>2. CASE r.m = NULL
  <2>1. UnlockOne(r, x) = r
    BY <1>2 DEF UnlockOne
  <2>2. ASSUME ~r.strayed PROVE r.owned[x] = << >>
    <3>1. FirstOf(r.owned[x]) = NULL /\ r.owned[x] \in Seq(Mutexes)
      BY <1>1, <1>2, <2>2 DEF Loops, OnCourse
    <3>2. r.owned[x] # << >> => r.owned[x][1] \in Mutexes
      BY <3>1
    <3> QED
      BY <3>1, <3>2, ThreadsAssumption DEF FirstOf
  <2> QED
    BY <1>1, <2>1, <2>2 DEF Shorter
<1>3. CASE r.m # NULL /\ r.waiters[r.m] = {}
  BY <1>1, <1>3, RoundFrees
<1>4. CASE r.m # NULL /\ r.waiters[r.m] # {}
  <2> DEFINE h == CHOOSE y \in r.waiters[r.m] : r.ahead[y] = {}
             F == E \cup R
  <2>1. r.m \in Mutexes /\ r.waiters[r.m] = waiters[r.m] \ F
        /\ \A y \in Threads : r.ahead[y] = IF y \in F THEN {} ELSE ahead[y] \ F
    BY <1>1, <1>4 DEF Loops, Dequeued
  <2>2. \A y \in r.waiters[r.m] : y \in Threads /\ y \notin F
    BY <2>1 DEF TypeOK, MutexesType
  <2> HIDE DEF F
  <2>3. PICK y \in waiters[r.m] \ F : ahead[y] \ F = {}
    BY <1>4, <2>1, FirstWaits
  <2>4. y \in r.waiters[r.m] /\ r.ahead[y] = {}
    BY <2>1, <2>2, <2>3
  <2>5. h \in r.waiters[r.m] /\ h \in Threads
    BY <2>2, <2>4
  <2>6. UnlockOne(r, x) = HandOver(r, x, h)
    BY <1>4 DEF UnlockOne
  <2> HIDE DEF h
  <2>7. Loops(x, E, R \cup {h}, HandOver(r, x, h)) /\ Shorter(x, r, HandOver(r, x, h))
    BY <1>4, <2>5, RoundHandsOver
  <2>8. R \cup {h} \in SUBSET Threads
    BY <1>1, <2>5
  <2> QED
    BY <2>6, <2>7, <2>8
<1> QED
  BY <1>2, <1>3, <1>4

\* The record before the loop.
Enters(x, E) == [Fields(x, E) EXCEPT !.m = FirstOf(owned[x])]

LEMMA LoopEnters ==
    ASSUME TypeOK, OwnedOnce, OwnedListed, NEW x \in Threads, NEW E \in SUBSET Threads
    PROVE  Loops(x, E, {}, Enters(x, E)) /\ Enters(x, E).owned = owned
<1> DEFINE f == Fields(x, E)
           r == Enters(x, E)
           st == IF state[x] = "RUNNING" THEN state ELSE [state EXCEPT ![x] = "SUSPENDED"]
<1>a. /\ owned \in [Threads -> Seq(Mutexes)] /\ owner \in [Mutexes -> Threads \cup {NULL}]
      /\ count \in [Mutexes -> Nat] /\ waiters \in [Mutexes -> SUBSET Threads]
      /\ ahead \in [Threads -> SUBSET Threads] /\ block \in [Threads -> BlockRecord]
      /\ state \in [AllThreads -> States]
  BY DEF TypeOK, ThreadsType, MutexesType
<1>1. /\ r.owned = owned /\ r.owner = owner /\ r.count = count /\ r.block = block
      /\ r.state = st /\ f.state = st
      /\ r.waiters = [n \in Mutexes |-> waiters[n] \ E]
      /\ r.ahead = [y \in Threads |-> IF y \in E THEN {} ELSE ahead[y] \ E]
      /\ r.strayed = FALSE /\ r.m = FirstOf(owned[x])
  BY DEF Enters, Fields
<1>2. r = [owned |-> r.owned, owner |-> r.owner, count |-> r.count, block |-> r.block,
           state |-> r.state, waiters |-> r.waiters, ahead |-> r.ahead, strayed |-> r.strayed, m |-> r.m]
  <2>1. f = [owned |-> f.owned, owner |-> f.owner, count |-> f.count, block |-> f.block,
             state |-> f.state, waiters |-> f.waiters, ahead |-> f.ahead, strayed |-> f.strayed,
             m |-> f.m]
    BY DEF Fields
  <2> HIDE DEF f
  <2>2. r = [f EXCEPT !.m = FirstOf(owned[x])]
    BY DEF Enters, f
  <2> HIDE DEF r
  <2> QED
    BY <2>1, <2>2
<1>3. st \in [AllThreads -> States]
  BY <1>a DEF States
<1>4. r.m \in Mutexes \cup {NULL}
  BY <1>a, <1>1 DEF FirstOf
<1> HIDE DEF r, f, st
<1>5. r \in Structures
  <2>1. r.waiters \in [Mutexes -> SUBSET Threads] /\ r.ahead \in [Threads -> SUBSET Threads]
    BY <1>a, <1>1
  <2>2. r.strayed \in BOOLEAN
    BY <1>1
  <2> QED
    BY <1>a, <1>1, <1>2, <1>3, <1>4, <2>1, <2>2 DEF Structures
<1>6. Lists(r)
  BY <1>1 DEF Lists, OwnedOnce, OwnedListed
<1>7. r.m # NULL => r.count[r.m] > 0 /\ r.owner[r.m] \in Threads
  <2> SUFFICES ASSUME r.m # NULL PROVE r.count[r.m] > 0 /\ r.owner[r.m] = x
    OBVIOUS
  <2>1. owned[x] # << >> /\ r.m = owned[x][1] /\ owned[x] \in Seq(Mutexes)
    BY <1>1, <1>a DEF FirstOf
  <2>2. 1 \in 1 .. Len(owned[x]) /\ r.m \in Mutexes
    BY <2>1
  <2>3. In(owned[x], r.m)
    BY <2>1, <2>2 DEF In
  <2> QED
    BY <1>1, <2>2, <2>3 DEF OwnedListed
<1>8. Dequeued(E, {}, r)
  BY <1>1 DEF Dequeued
<1>9. Woken(x, E, {}, r)
  BY <1>1 DEF Woken, f
<1>10. Owners({}, r) /\ OnCourse(x, {}, r)
  BY <1>1 DEF Owners, OnCourse
<1> QED
  BY <1>1, <1>5, <1>6, <1>7, <1>8, <1>9, <1>10 DEF Loops, r

\* There is a function f of the rounds: f[k] is the record after k of them.
LEMMA UnlockFold ==
    ASSUME TypeOK, QueuedWaits, QueueIsLinear, NEW x \in Threads, NEW E, NEW R \in SUBSET Threads,
           NEW r, Loops(x, E, R, [r EXCEPT !.m = FirstOf(r.owned[x])]), NEW l \in Nat,
           l = Cardinality(Threads) + 2 * Cardinality(Mutexes)
    PROVE  \E f : /\ f[0] = [r EXCEPT !.m = FirstOf(r.owned[x])] /\ f[l] = UnlockAll(r, x)
                  /\ \A i \in 1 .. l : f[i] = UnlockOne(f[i - 1], x)
                  /\ \A i \in 0 .. l : \E R2 \in SUBSET Threads : Loops(x, E, R2, f[i])
<1> DEFINE base == [r EXCEPT !.m = FirstOf(r.owned[x])]
           V == {s \in Structures : \E R2 \in SUBSET Threads : Loops(x, E, R2, s)}
           step == [i \in 1 .. l |-> [s \in V |-> UnlockOne(s, x)]]
           rounds == [i \in 1 .. l |-> i]
           Is(iter) == iter = [S \in SUBSET DOMAIN rounds |->
                                  IF S = {} THEN base ELSE UnlockOne(iter[S \ {Max(S)}], x)]
           fold == CHOOSE iter : Is(iter)
<1>1. DOMAIN rounds = 1 .. l
  OBVIOUS
<1>0. base \in V
  <2>1. base \in Structures
    BY DEF Loops
  <2> QED
    BY <2>1
<1>2. \A s \in V : UnlockOne(s, x) \in V
  <2>1. ASSUME NEW s \in Structures, NEW R2 \in SUBSET Threads, Loops(x, E, R2, s)
        PROVE  \E R3 \in SUBSET Threads : Loops(x, E, R3, UnlockOne(s, x))
    BY <2>1, RoundLoops
  <2>2. \A s : \A R3 : Loops(x, E, R3, s) => s \in Structures
    BY DEF Loops
  <2> QED
    BY <2>1, <2>2
<1>3. UnlockAll(r, x) = fold[1 .. l]
  BY <1>1 DEF UnlockAll, FoldLeft, MapThenFoldSet
<1> HIDE DEF V, base, rounds
<1>4. step \in [1 .. l -> [V -> V]]
  BY <1>2
<1>a. \A i \in 1 .. l, s \in V : step[i][s] = UnlockOne(s, x)
  OBVIOUS
<1> HIDE DEF step
<1>5. PICK iter \in [SUBSET (1 .. l) -> V] : Iterates(iter, l, base, step)
  BY <1>0, <1>4, Iteration
<1>6. ASSUME NEW S \in SUBSET (1 .. l), S # {}
      PROVE  step[Max(S)][iter[S \ {Max(S)}]] = UnlockOne(iter[S \ {Max(S)}], x)
  <2>1. Max(S) \in 1 .. l
    BY <1>6, Largest
  <2>2. S \ {Max(S)} \in SUBSET (1 .. l)
    OBVIOUS
  <2>3. iter[S \ {Max(S)}] \in V
    BY <1>5, <2>2
  <2> QED
    BY <1>a, <2>1, <2>3
<1>7. Is(iter)
  BY <1>1, <1>5, <1>6 DEF Iterates
<1>8. Is(fold)
  BY <1>7
<1> HIDE DEF fold
<1> DEFINE f == [i \in 0 .. l |-> fold[1 .. i]]
           S == {i \in 0 .. l : f[i] \in V}
<1>9. f[0] = base
  <2>1. 1 .. 0 = {} /\ {} \in SUBSET (1 .. l) /\ 0 \in 0 .. l
    OBVIOUS
  <2>2. fold[{}] = base
    BY <1>1, <1>8, <2>1
  <2> QED
    BY <2>1, <2>2
<1>10. ASSUME NEW i \in 1 .. l PROVE f[i] = UnlockOne(f[i - 1], x)
  <2>1. /\ 1 .. i \in SUBSET (1 .. l) /\ 1 .. i # {}
        /\ Max(1 .. i) = i /\ (1 .. i) \ {i} = 1 .. i - 1
    BY Prefix
  <2>2. fold[1 .. i] = UnlockOne(fold[1 .. i - 1], x)
    BY <1>1, <1>8, <2>1
  <2>3. i \in 0 .. l /\ i - 1 \in 0 .. l
    OBVIOUS
  <2> QED
    BY <2>2, <2>3
<1>11. f[l] = UnlockAll(r, x)
  BY <1>3
<1> HIDE DEF f
<1>12. \A i \in 0 .. l : i \in S
  <2>1. 0 \in S
    BY <1>0, <1>9
  <2>2. ASSUME NEW i \in 1 .. l, i - 1 \in S PROVE i \in S
    <3>1. f[i - 1] \in V /\ i \in 0 .. l
      BY <2>2
    <3> QED
      BY <1>2, <1>10, <3>1
  <2> HIDE DEF S
  <2> QED
    BY <2>1, <2>2, UpTo
<1>13. \A i \in 0 .. l : \E R2 \in SUBSET Threads : Loops(x, E, R2, f[i])
  BY <1>12 DEF V
<1> QED
  BY <1>9, <1>10, <1>11, <1>13 DEF base

\* The loop ends, and unless it strayed the victim owns nothing then.
LEMMA LoopEnds ==
    ASSUME TypeOK, QueuedWaits, QueueIsLinear, OwnedOnce, OwnedListed,
           NEW x \in Threads, NEW E \in SUBSET Threads
    PROVE  LET s == UnlockAll(Fields(x, E), x)
           IN  \E R \in SUBSET Threads : Loops(x, E, R, s) /\ (~s.strayed => s.owned[x] = << >>)
<1> DEFINE l == Cardinality(Threads) + 2 * Cardinality(Mutexes)
           s == UnlockAll(Fields(x, E), x)
           n == Len(owned[x])
<1>1. Cardinality(Threads) \in Nat /\ Cardinality(Mutexes) \in Nat
  BY LifeAssumption, FS_CardinalityType
<1>2. n \in Nat /\ n <= Cardinality(Mutexes)
  <2>1. owned[x] \in Seq(Mutexes) /\ Once(owned[x])
    BY DEF TypeOK, MutexesType, OwnedOnce
  <2> QED
    BY <2>1, OnceIsShort
<1>3. l \in Nat /\ n <= l
  BY <1>1, <1>2
<1> HIDE DEF l, n
<1>4. Enters(x, E) = [Fields(x, E) EXCEPT !.m = FirstOf(Fields(x, E).owned[x])]
  <2>1. Fields(x, E).owned = owned
    BY DEF Fields
  <2> QED
    BY <2>1 DEF Enters
<1>5. Loops(x, E, {}, Enters(x, E)) /\ Enters(x, E).owned = owned
  BY LoopEnters
<1>6. PICK f : /\ f[0] = Enters(x, E) /\ f[l] = s
               /\ \A i \in 1 .. l : f[i] = UnlockOne(f[i - 1], x)
               /\ \A i \in 0 .. l : \E R \in SUBSET Threads : Loops(x, E, R, f[i])
  <2>1. Loops(x, E, {}, [Fields(x, E) EXCEPT !.m = FirstOf(Fields(x, E).owned[x])])
    BY <1>4, <1>5
  <2>2. {} \in SUBSET Threads /\ l = Cardinality(Threads) + 2 * Cardinality(Mutexes)
    BY DEF l
  <2> DEFINE b == Fields(x, E)
  <2>3. Loops(x, E, {}, [b EXCEPT !.m = FirstOf(b.owned[x])])
    BY <2>1
  <2> HIDE DEF b
  <2>4. \E f : /\ f[0] = [b EXCEPT !.m = FirstOf(b.owned[x])] /\ f[l] = UnlockAll(b, x)
               /\ \A i \in 1 .. l : f[i] = UnlockOne(f[i - 1], x)
               /\ \A i \in 0 .. l : \E R2 \in SUBSET Threads : Loops(x, E, R2, f[i])
    BY <1>3, <2>2, <2>3, UnlockFold
  <2>5. [b EXCEPT !.m = FirstOf(b.owned[x])] = Enters(x, E) /\ UnlockAll(b, x) = s
    BY <1>4 DEF b
  <2> HIDE DEF s
  <2> QED
    BY <2>4, <2>5
<1> HIDE DEF s
<1> DEFINE S == {i \in 0 .. l : ~f[i].strayed =>
                     f[i].owned[x] = << >> \/ Len(f[i].owned[x]) + i <= n}
<1>7. \A i \in 0 .. l : f[i].owned[x] \in Seq(Mutexes)
  <2>1. \A i \in 0 .. l : f[i] \in Structures
    BY <1>6 DEF Loops
  <2> QED
    BY <2>1, StructuresType
<1>8. \A i \in 0 .. l : i \in S
  <2>1. 0 \in S
    BY <1>2, <1>3, <1>5, <1>6 DEF n
  <2>2. ASSUME NEW i \in 1 .. l, i - 1 \in S PROVE i \in S
    <3>1. i - 1 \in 0 .. l /\ i \in 0 .. l /\ i \in Nat /\ i - 1 \in Nat /\ i - 1 + 1 = i
      BY <1>3
    <3>2. PICK R \in SUBSET Threads : Loops(x, E, R, f[i - 1])
      BY <1>6, <3>1
    <3>3. Shorter(x, f[i - 1], f[i])
      BY <1>6, <3>2, RoundLoops
    <3> SUFFICES ASSUME ~f[i].strayed, f[i].owned[x] # << >>
                 PROVE  Len(f[i].owned[x]) + i <= n
      BY <3>1
    <3>4. ~f[i - 1].strayed /\ Len(f[i].owned[x]) < Len(f[i - 1].owned[x])
      BY <3>3 DEF Shorter
    <3> DEFINE a == Len(f[i].owned[x])
               b == Len(f[i - 1].owned[x])
    <3>5. a \in Nat /\ b \in Nat
      BY <1>7, <3>1
    <3>6. f[i - 1].owned[x] # << >>
      <4>1. b # 0
        BY <3>4, <3>5
      <4> QED
        BY <4>1
    <3>7. b + (i - 1) <= n
      BY <2>2, <3>4, <3>6
    <3> HIDE DEF a, b
    <3>8. a < b
      BY <3>4 DEF a, b
    <3>9. a + i <= n
      BY <1>2, <3>1, <3>5, <3>7, <3>8
    <3> QED
      BY <3>9 DEF a
  <2> HIDE DEF S
  <2> QED
    BY <1>3, <2>1, <2>2, UpTo
<1>9. l \in 0 .. l
  BY <1>3
<1>10. ~s.strayed => s.owned[x] = << >>
  <2> SUFFICES ASSUME ~s.strayed, s.owned[x] # << >> PROVE FALSE
    OBVIOUS
  <2> DEFINE k == Len(s.owned[x])
  <2>1. s.owned[x] \in Seq(Mutexes)
    BY <1>6, <1>7, <1>9
  <2>2. k + l <= n
    BY <1>6, <1>8, <1>9
  <2>3. k \in Nat /\ k # 0
    BY <2>1
  <2> HIDE DEF k
  <2> QED
    BY <1>2, <1>3, <2>2, <2>3
<1>11. PICK R \in SUBSET Threads : Loops(x, E, R, s)
  BY <1>6, <1>9
<1> QED
  BY <1>10, <1>11 DEF s

-----------------------------------------------------------------------------
(* The first critical section of thread_terminate.                         *)

\* What it does to the structures when it dequeues E and hands mutexes over to R.
Released(x, E, R) ==
    /\ E \subseteq {x} /\ (E # {} => state[x] = "BLOCKED" /\ block[x].type = "MUTEX")
    /\ \A y \in R : y \in Threads /\ \E n \in Mutexes : y \in waiters[n]
    /\ mutex_remove_from_queue(E \cup R)
    /\ \A y \in AllThreads :
         state'[y] = IF y \in R THEN "READY"
                     ELSE IF y = x /\ state[x] # "RUNNING" THEN "SUSPENDED" ELSE state[y]
    /\ \A y \in Threads : block'[y] = IF y \in R THEN NotBlocked ELSE block[y]
    /\ \A n \in Mutexes : \/ owner'[n] \in R
                          \/ owner'[n] = owner[n] /\ (count'[n] > 0 => count[n] > 0)

\* When it unlocks only the mutexes of the victim, each is free or a waiter's then.
Unlocked(x, R) ==
    /\ x \notin R /\ owned'[x] = << >>
    /\ \A n \in Mutexes :
         \/ owner'[n] = owner[n] /\ count'[n] = count[n]
         \/ /\ owner[n] = x /\ count[n] > 0
            /\ \/ owner'[n] = x /\ count'[n] = 0
               \/ owner'[n] \in R /\ count'[n] = 1 /\ owner'[n] \in waiters[n]

LEMMA BeginReleases ==
    ASSUME TypeOK, QueuedWaits, QueueIsLinear, OwnedOnce, OwnedListed,
           NEW t \in Threads, NEW x \in Threads, Begin(t, x)
    PROVE  /\ \E E, R : Released(x, E, R) /\ (~strayed' => Unlocked(x, R))
           /\ MutexesType' /\ state' \in [AllThreads -> States] /\ block' \in [Threads -> BlockRecord]
           /\ OwnedOnce' /\ OwnedListed' /\ strayed' \in BOOLEAN
<1>1. PICK E \in Unqueued(x) : \E s \in {UnlockAll(Fields(x, E), x)} :
         /\ state' = s.state /\ block' = s.block
         /\ owned' = s.owned /\ owner' = s.owner /\ count' = s.count
         /\ waiters' = s.waiters /\ ahead' = s.ahead
         /\ strayed' = s.strayed
  BY Zenon DEF Begin
<1> DEFINE s == UnlockAll(Fields(x, E), x)
<1>2. /\ state' = s.state /\ block' = s.block
      /\ owned' = s.owned /\ owner' = s.owner /\ count' = s.count
      /\ waiters' = s.waiters /\ ahead' = s.ahead
      /\ strayed' = s.strayed
  BY <1>1
<1>3. E \in SUBSET Threads /\ E \subseteq {x}
      /\ (E # {} => state[x] = "BLOCKED" /\ block[x].type = "MUTEX")
  BY <1>1 DEF Unqueued
<1>4. PICK R \in SUBSET Threads : Loops(x, E, R, s) /\ (~s.strayed => s.owned[x] = << >>)
  BY <1>3, LoopEnds
<1> HIDE DEF s
<1>5. /\ MutexesType' /\ state' \in [AllThreads -> States] /\ block' \in [Threads -> BlockRecord]
      /\ strayed' \in BOOLEAN
  <2>1. s \in Structures
    BY <1>4 DEF Loops
  <2> QED
    BY <1>2, <2>1, StructuresType DEF MutexesType
<1>6. OwnedOnce' /\ OwnedListed'
  BY <1>2, <1>4 DEF Loops, Lists, OwnedOnce, OwnedListed
<1>7. Released(x, E, R)
  <2>1. mutex_remove_from_queue(E \cup R) /\ \A y \in R : y \in Threads /\ \E n \in Mutexes : y \in waiters[n]
    BY <1>2, <1>4 DEF Loops, Dequeued, mutex_remove_from_queue
  <2>2. ASSUME NEW y \in AllThreads
        PROVE  state'[y] = IF y \in R THEN "READY"
                           ELSE IF y = x /\ state[x] # "RUNNING" THEN "SUSPENDED" ELSE state[y]
    <3>1. Fields(x, E).state = IF state[x] = "RUNNING" THEN state ELSE [state EXCEPT ![x] = "SUSPENDED"]
      BY DEF Fields
    <3>2. state'[y] = IF y \in R THEN "READY" ELSE Fields(x, E).state[y]
      BY <1>2, <1>4 DEF Loops, Woken
    <3> QED
      BY <3>1, <3>2 DEF TypeOK, ThreadsType
  <2>3. \A y \in Threads : block'[y] = IF y \in R THEN NotBlocked ELSE block[y]
    BY <1>2, <1>4 DEF Loops, Woken
  <2>4. \A n \in Mutexes : \/ owner'[n] \in R
                           \/ owner'[n] = owner[n] /\ (count'[n] > 0 => count[n] > 0)
    BY <1>2, <1>4 DEF Loops, Owners
  <2> QED
    BY <1>3, <2>1, <2>2, <2>3, <2>4 DEF Released
<1>8. ~strayed' => Unlocked(x, R)
  BY <1>2, <1>4 DEF Loops, OnCourse, Handed, Unlocked
<1> QED
  BY <1>5, <1>6, <1>7, <1>8

-----------------------------------------------------------------------------
(* What the kernel's steps leave alone.                                    *)

\* A thread that the scheduler does not look at, and one inside thread_terminate or
\* thread_killlevel.
Apart(x) == state[x] = "SUSPENDED" /\ current # x
Ends(x) == pc[x] \in {"free", "kill"}

\* No switch runs a suspended thread, unless it waits for the monitor's wakeup.
LEMMA SwitchLeaves ==
    ASSUME TypeOK, NEW st \in [AllThreads -> States], NEW bl, NEW sg,
           NEW tgt \in Threads \cup {NULL}, NEW blk, NEW fz,
           scheduler_switch(st, bl, sg, tgt, blk, fz),
           NEW x \in Threads, st[x] = "SUSPENDED", x # current, x # waiter[dbgwakeup]
    PROVE  state'[x] = "SUSPENDED" /\ current' # x
<1>a. PICK ov \in BOOLEAN :
        \E E \in SUBSET Overdue(StackState(ov, Preempt(st)), StackBlock(ov, bl), fz) :
        \E next \in Eligible(Expired(StackState(ov, Preempt(st)), E), tgt, blk, fz) :
          switch_to(st, bl, sg, fz, ov, E, next)
  BY DEF scheduler_switch
<1>b. PICK E \in SUBSET Overdue(StackState(ov, Preempt(st)), StackBlock(ov, bl), fz) :
        \E next \in Eligible(Expired(StackState(ov, Preempt(st)), E), tgt, blk, fz) :
          switch_to(st, bl, sg, fz, ov, E, next)
  BY <1>a
<1>1. PICK next \in Eligible(Expired(StackState(ov, Preempt(st)), E), tgt, blk, fz) :
        switch_to(st, bl, sg, fz, ov, E, next)
  BY <1>b
<1> DEFINE s0 == Preempt(st)
           s1 == StackState(ov, s0)
           s2 == Expired(s1, E)
<1>2. x \in AllThreads /\ x # idle
  BY ThreadsAssumption DEF AllThreads
<1>3. s0 \in [AllThreads -> States] /\ s0[x] = "SUSPENDED"
  BY <1>2 DEF Preempt, States, TypeOK, ThreadsType
<1> HIDE DEF s0
<1>4. s1[x] = "SUSPENDED" /\ s1 \in [AllThreads -> States]
  BY <1>2, <1>3, LifeAssumption DEF StackState, States, TypeOK, WakeupsType
<1>5. x \notin E
  BY <1>4 DEF Overdue, s0
<1> HIDE DEF s1
<1>6. s2[x] = "SUSPENDED" /\ s2 \in [AllThreads -> States]
  BY <1>2, <1>4, <1>5 DEF Expired, States
<1> HIDE DEF s2
<1>7. next # x /\ current' = next /\ state' = [s2 EXCEPT ![next] = "RUNNING"]
  <2>1. switch_to(st, bl, sg, fz, ov, E, next)
    BY <1>1
  <2>2. next \in Eligible(s2, tgt, blk, fz)
    BY <1>1 DEF s0, s1, s2
  <2>3. next # x
    BY <1>2, <1>6, <2>2 DEF Eligible
  <2> QED
    BY <2>1, <2>3 DEF switch_to, s0, s1, s2
<1> QED
  BY <1>2, <1>6, <1>7

\* Nor does it queue anybody.
LEMMA SwitchQueues ==
    ASSUME NEW st, NEW bl, NEW sg, NEW tgt, NEW blk, NEW fz,
           scheduler_switch(st, bl, sg, tgt, blk, fz)
    PROVE  \A n \in Mutexes : waiters'[n] \subseteq waiters[n]
BY DEF scheduler_switch, switch_to, mutex_remove_from_queue

\* A thread that runs inside the kernel is at none of these places.
LEMMA KernelEnds ==
    ASSUME TypeOK, [Next]_vars, NEW x \in Threads
    PROVE  /\ Ends(x)' => Ends(x)
           /\ Ends(x) => pc'[x] = pc[x] /\ arg'[x] = arg[x]
<1> DEFINE Kept == (Ends(x)' => Ends(x)) /\ (Ends(x) => pc'[x] = pc[x] /\ arg'[x] = arg[x])
<1>a. pc \in [Threads -> PCs] /\ arg \in [Threads -> Mutexes \cup Wakeups \cup Threads \cup {NULL}]
  BY DEF TypeOK, CallsType
<1>b. ASSUME UNCHANGED <<pc, arg>> PROVE Kept
  BY <1>b DEF Ends
<1>c. ASSUME NEW t \in Threads, ~Ends(t), NEW p \in PCs \ {"free", "kill"}, NEW a,
             pc' = [pc EXCEPT ![t] = p], arg' = arg \/ arg' = [arg EXCEPT ![t] = a]
      PROVE  Kept
  BY <1>a, <1>c DEF Ends
<1> HIDE DEF Kept
<1>1. ASSUME NEW t \in Threads, yield(t) PROVE Kept
  <2>1. AfterYield(pc[t]) \in PCs \ {"free", "kill"} /\ ~Ends(t)
    BY <1>1 DEF yield, AfterYield, PCs, Ends
  <2> QED
    BY <1>1, <1>c, <2>1 DEF yield
<1>2. ASSUME NEW t \in Threads, NEW m \in Mutexes, mutex_lock(t, m) PROVE Kept
  BY <1>2, <1>b DEF mutex_lock
<1>3. ASSUME NEW t \in Threads, NEW m \in Mutexes, NEW timed, mutex_lock_block(t, m, timed)
      PROVE  Kept
  BY <1>3, <1>c DEF mutex_lock_block, Block, Calls, Ends, PCs
<1>4. ASSUME NEW t \in Threads, NEW m \in Mutexes, mutex_unlock(t, m) PROVE Kept
  BY <1>4, <1>b, <1>c DEF mutex_unlock, panic, Calls, Ends, PCs
<1>5. ASSUME NEW t \in Threads, NEW m \in Mutexes, mutex_unlock_last(t, m) PROVE Kept
  BY <1>5, <1>b DEF mutex_unlock_last
<1>6. ASSUME NEW t \in Threads, NEW m \in Mutexes, mutex_unlock_abort(t, m) PROVE Kept
  BY <1>6, <1>c DEF mutex_unlock_abort, Calls, Ends, PCs
<1>7. ASSUME NEW t \in Threads, mutex_lock_return(t) PROVE Kept
  BY <1>7, <1>c DEF mutex_lock_return, Ends, PCs
<1>8. ASSUME NEW t \in Threads, wakeup_wait_return(t) PROVE Kept
  <2>1. ~Ends(t) /\ arg' = arg
    BY <1>8 DEF wakeup_wait_return, Ends
  <2>2. \E p \in {"wakeup_test", "wakeup_take", "app"} : pc' = [pc EXCEPT ![t] = p]
    BY <1>8 DEF wakeup_wait_return
  <2> QED
    BY <1>c, <2>1, <2>2 DEF PCs
<1>9. ASSUME NEW t \in Threads, NEW w \in Wakeups, wakeup_wait(t, w) PROVE Kept
  BY <1>9, <1>b, <1>c DEF wakeup_wait, panic, Calls, Ends, PCs
<1>10. ASSUME NEW t \in Threads, NEW w \in Wakeups, NEW timed, wakeup_wait_block(t, w, timed)
       PROVE  Kept
  BY <1>10, <1>c DEF wakeup_wait_block, Block, Calls, Ends, PCs
<1>11. ASSUME NEW t \in Threads, NEW timed, sleep(t, timed) PROVE Kept
  BY <1>11, <1>c DEF sleep, Block, Calls, Ends, PCs
<1>12. ASSUME NEW t, NEW y, NEW p, thread_set_priority(t, y, p) PROVE Kept
  BY <1>12, <1>b DEF thread_set_priority, callVars
<1>13. ASSUME Interrupt \/ UNCHANGED vars PROVE Kept
  BY <1>13, <1>b DEF Interrupt, tick, wakeup_signal, wakeup_signal_idle, callVars, vars
<1>14. Kept
  BY <1>1, <1>2, <1>3, <1>4, <1>5, <1>6, <1>7, <1>8, <1>9, <1>10, <1>11, <1>12, <1>13 DEF Next, Step
<1> QED
  BY <1>14 DEF Kept

\* A thread that nothing refers to, and that the scheduler does not run or that is at one of
\* these places, is left so.
LEMMA KernelForgets ==
    ASSUME TypeOK, [Next]_vars, NEW x \in Threads, ~Refers(x), Apart(x) \/ Ends(x)
    PROVE  ~Refers(x)' /\ (Apart(x) => Apart(x)')
<1> DEFINE Forgotten == ~Refers(x)' /\ (Apart(x) => Apart(x)')
<1>a. /\ state \in [AllThreads -> States] /\ block \in [Threads -> BlockRecord]
      /\ owner \in [Mutexes -> Threads \cup {NULL}] /\ count \in [Mutexes -> Nat]
      /\ waiters \in [Mutexes -> SUBSET Threads] /\ waiter \in [Wakeups -> Threads \cup {NULL}]
      /\ signalled \in [Wakeups -> BOOLEAN] /\ frozen \in BOOLEAN /\ x \in AllThreads
  BY DEF TypeOK, ThreadsType, MutexesType, WakeupsType, AllThreads
<1>b. /\ \A n \in Mutexes : x \notin waiters[n] /\ (count[n] > 0 => owner[n] # x)
      /\ \A w \in Wakeups : waiter[w] # x
  BY DEF Refers
<1>c. ASSUME \A n \in Mutexes : x \notin waiters'[n] /\ (count'[n] > 0 => owner'[n] # x),
             \A w \in Wakeups : waiter'[w] # x,
             Apart(x) => Apart(x)'
      PROVE  Forgotten
  BY <1>c DEF Refers
<1>d. ASSUME NEW st \in [AllThreads -> States], NEW bl, NEW sg, NEW blk, NEW tgt \in Threads \cup {NULL},
             scheduler_switch(st, bl, sg, tgt, blk, frozen), state[x] = "SUSPENDED" => st[x] = "SUSPENDED"
      PROVE  (\A n \in Mutexes : x \notin waiters'[n]) /\ (Apart(x) => Apart(x)')
  <2>1. \A n \in Mutexes : x \notin waiters'[n]
    BY <1>b, <1>d, SwitchQueues
  <2>2. ASSUME Apart(x) PROVE Apart(x)'
    <3>1. st[x] = "SUSPENDED" /\ x # current /\ x # waiter[dbgwakeup]
      BY <1>b, <1>d, <2>2, LifeAssumption DEF Apart
    <3> QED
      BY <1>d, <3>1, SwitchLeaves DEF Apart
  <2> QED
    BY <2>1, <2>2
<1>e. ASSUME NEW t \in Threads, Runs(t), ~Ends(t) PROVE t # x /\ t # idle /\ t \in AllThreads
  BY <1>e, ThreadsAssumption DEF Runs, Apart, AllThreads
<1>f. ASSUME UNCHANGED <<state, current, waiters, owner, count, waiter>> PROVE Forgotten
  BY <1>b, <1>c, <1>f DEF Apart
<1> HIDE DEF Forgotten
<1>1. ASSUME NEW t \in Threads, yield(t) PROVE Forgotten
  <2>1. NULL \in Threads \cup {NULL} /\ UNCHANGED <<owner, count, waiter>>
        /\ scheduler_switch(state, block, signalled, NULL, t, frozen)
    BY <1>1 DEF yield, mutexVars
  <2>2. (\A n \in Mutexes : x \notin waiters'[n]) /\ (Apart(x) => Apart(x)')
    BY <1>a, <1>d, <2>1
  <2> QED
    BY <1>b, <1>c, <2>1, <2>2
<1>2. ASSUME NEW t \in Threads, NEW m \in Mutexes, mutex_lock(t, m) PROVE Forgotten
  <2>1. t # x
    BY <1>2, <1>e DEF mutex_lock, Calls, Ends
  <2>2. /\ \A n \in Mutexes : count'[n] > 0 => owner'[n] # x
        /\ UNCHANGED <<state, current, waiters, waiter>>
    BY <1>2, <1>a, <1>b, <2>1 DEF mutex_lock, threadVars, queueVars, wakeupVars
  <2> QED
    BY <1>b, <1>c, <2>2 DEF Apart
<1>3. ASSUME NEW t \in Threads, NEW m \in Mutexes, NEW timed, mutex_lock_block(t, m, timed)
      PROVE  Forgotten
  <2>1. t # x
    BY <1>3, <1>e DEF mutex_lock_block, Calls, Ends
  <2>2. /\ \A n \in Mutexes : x \notin waiters'[n]
        /\ UNCHANGED <<current, owner, count, waiter>> /\ state'[x] = state[x]
    BY <1>3, <1>a, <1>b, <2>1 DEF mutex_lock_block, mutex_add_to_queue, Block, mutexVars, wakeupVars
  <2> QED
    BY <1>b, <1>c, <2>2 DEF Apart
<1>4. ASSUME NEW t \in Threads, NEW m \in Mutexes, mutex_unlock(t, m) PROVE Forgotten
  <2>1. t # x
    BY <1>4, <1>e DEF mutex_unlock, Calls, Ends
  <2>2. /\ \A n \in Mutexes : count'[n] > 0 => count[n] > 0
        /\ UNCHANGED <<current, owner, waiters, waiter>> /\ state'[x] = state[x]
    BY <1>4, <1>a, <1>b, <2>1 DEF mutex_unlock, panic, queueVars, wakeupVars
  <2> QED
    BY <1>b, <1>c, <2>2 DEF Apart
<1>5. ASSUME NEW t \in Threads, NEW m \in Mutexes, mutex_unlock_last(t, m) PROVE Forgotten
  <2>1. mutex_unlock_internal(t, m) /\ UNCHANGED <<current, waiter>>
    BY <1>5 DEF mutex_unlock_last, wakeupVars
  <2>2. CASE waiters[m] = {} /\ count' = [count EXCEPT ![m] = 0] /\ UNCHANGED <<state, owner, waiters>>
    <3>1. \A n \in Mutexes : count'[n] > 0 => count[n] > 0
      BY <1>a, <2>2
    <3> QED
      BY <1>b, <1>c, <2>1, <2>2, <3>1 DEF Apart
  <2>3. ASSUME NEW h \in waiters[m], count' = [count EXCEPT ![m] = 1], owner' = [owner EXCEPT ![m] = h],
               state' = [state EXCEPT ![h] = "READY"], mutex_remove_from_queue({h})
        PROVE  Forgotten
    <3>1. h # x
      BY <1>b
    <3>2. \A n \in Mutexes : x \notin waiters'[n] /\ (count'[n] > 0 => owner'[n] # x)
      BY <1>a, <1>b, <2>3, <3>1 DEF mutex_remove_from_queue
    <3>3. state'[x] = state[x]
      BY <1>a, <2>3, <3>1
    <3> QED
      BY <1>b, <1>c, <2>1, <3>2, <3>3 DEF Apart
  <2> QED
    BY <2>1, <2>2, <2>3 DEF mutex_unlock_internal, queueVars
<1>6. ASSUME NEW t \in Threads, NEW m \in Mutexes, mutex_unlock_abort(t, m) PROVE Forgotten
  <2> DEFINE st == [state EXCEPT ![t] = "DEFUNCT_ACK"]
             bl == [block EXCEPT ![t] = Blocked("PANIC", @.by, @.timed)]
  <2>1. t # x /\ t \in AllThreads
    BY <1>6, <1>e DEF mutex_unlock_abort, Calls, Ends
  <2>2. st \in [AllThreads -> States] /\ st[x] = state[x] /\ NULL \in Threads \cup {NULL}
    BY <1>a, <2>1 DEF States
  <2>3. /\ scheduler_switch(st, bl, signalled, NULL, NULL, frozen)
        /\ \A n \in Mutexes : count'[n] > 0 => count[n] > 0
        /\ UNCHANGED <<owner, waiter>>
    BY <1>6, <1>a DEF mutex_unlock_abort
  <2> HIDE DEF st, bl
  <2>4. (\A n \in Mutexes : x \notin waiters'[n]) /\ (Apart(x) => Apart(x)')
    BY <1>d, <2>2, <2>3
  <2> QED
    BY <1>b, <1>c, <2>3, <2>4
<1>7. ASSUME NEW t \in Threads, mutex_lock_return(t) PROVE Forgotten
  BY <1>7, <1>f DEF mutex_lock_return, threadVars, mutexVars, queueVars, wakeupVars
<1>8. ASSUME NEW t \in Threads, wakeup_wait_return(t) PROVE Forgotten
  <2>1. (\A w \in Wakeups : waiter'[w] # x) /\ UNCHANGED <<state, current, waiters, owner, count>>
    BY <1>8, <1>a, <1>b, ThreadsAssumption DEF wakeup_wait_return, threadVars, mutexVars, queueVars, wakeupVars
  <2> QED
    BY <1>b, <1>c, <2>1 DEF Apart
<1>9. ASSUME NEW t \in Threads, NEW w \in Wakeups, wakeup_wait(t, w) PROVE Forgotten
  <2>1. t # x
    BY <1>9, <1>e DEF wakeup_wait, Calls, Ends
  <2>2. state'[x] = state[x] /\ UNCHANGED <<current, waiters, owner, count, waiter>>
    BY <1>9, <1>a, <2>1 DEF wakeup_wait, panic, mutexVars, queueVars
  <2> QED
    BY <1>b, <1>c, <2>2 DEF Apart
<1>10. ASSUME NEW t \in Threads, NEW w \in Wakeups, NEW timed, wakeup_wait_block(t, w, timed)
       PROVE  Forgotten
  <2>1. t # x
    BY <1>10, <1>e DEF wakeup_wait_block, Calls, Ends
  <2>2. /\ state'[x] = state[x] /\ UNCHANGED <<current, waiters, owner, count>>
        /\ \A v \in Wakeups : waiter'[v] # x
    BY <1>10, <1>a, <1>b, <2>1 DEF wakeup_wait_block, Block, mutexVars, queueVars
  <2> QED
    BY <1>b, <1>c, <2>2 DEF Apart
<1>11. ASSUME NEW t \in Threads, NEW timed, sleep(t, timed) PROVE Forgotten
  <2>1. t # x
    BY <1>11, <1>e DEF sleep, Calls, Ends
  <2>2. state'[x] = state[x] /\ UNCHANGED <<current, waiters, owner, count, waiter>>
    BY <1>11, <1>a, <2>1 DEF sleep, Block, mutexVars, queueVars, wakeupVars
  <2> QED
    BY <1>b, <1>c, <2>2 DEF Apart
<1>12. ASSUME NEW t, NEW y, NEW p, thread_set_priority(t, y, p) PROVE Forgotten
  BY <1>12, <1>f DEF thread_set_priority, mutexVars, queueVars, wakeupVars
<1>13. ASSUME tick PROVE Forgotten
  <2>1. NULL \in Threads \cup {NULL} /\ UNCHANGED <<owner, count, waiter>>
        /\ scheduler_switch(state, block, signalled, NULL, NULL, frozen)
    BY <1>13 DEF tick, mutexVars
  <2>2. (\A n \in Mutexes : x \notin waiters'[n]) /\ (Apart(x) => Apart(x)')
    BY <1>a, <1>d, <2>1
  <2> QED
    BY <1>b, <1>c, <2>1, <2>2
<1>14. ASSUME NEW w \in Wakeups, wakeup_signal(w) PROVE Forgotten
  <2>1. state'[x] = state[x] /\ UNCHANGED <<current, waiters, owner, count, waiter>>
    BY <1>14, <1>a, <1>b DEF wakeup_signal, SignalState, mutexVars, queueVars
  <2> QED
    BY <1>b, <1>c, <2>1 DEF Apart
<1>15. ASSUME NEW w \in Wakeups, wakeup_signal_idle(w) PROVE Forgotten
  <2> DEFINE st == SignalState(w)
             bl == SignalBlock(w)
             sg == [signalled EXCEPT ![w] = TRUE]
  <2>1. scheduler_switch(st, bl, sg, waiter[w], NULL, frozen) /\ UNCHANGED <<owner, count, waiter>>
    BY <1>15 DEF wakeup_signal_idle, mutexVars
  <2>2. st \in [AllThreads -> States] /\ st[x] = state[x] /\ waiter[w] \in Threads \cup {NULL}
    BY <1>a, <1>b DEF SignalState, States
  <2> HIDE DEF st, bl, sg
  <2>3. (\A n \in Mutexes : x \notin waiters'[n]) /\ (Apart(x) => Apart(x)')
    BY <1>d, <2>1, <2>2
  <2> QED
    BY <1>b, <1>c, <2>1, <2>3
<1>16. ASSUME UNCHANGED vars PROVE Forgotten
  BY <1>16, <1>f DEF vars, threadVars, mutexVars, queueVars, wakeupVars
<1>17. Forgotten
  BY <1>1, <1>2, <1>3, <1>4, <1>5, <1>6, <1>7, <1>8, <1>9, <1>10, <1>11, <1>12, <1>13, <1>14, <1>15, <1>16
     DEF Next, Step, Interrupt
<1> QED
  BY <1>17 DEF Forgotten

\* The waiter of a wakeup, as long as it is blocked, is blocked on a wakeup.
WaiterBlocked ==
    \A w \in Wakeups : waiter[w] # NULL /\ state[waiter[w]] = "BLOCKED" => block[waiter[w]].type = "WAKEUP"

LEMMA KernelWaiters ==
    ASSUME TypeOK, OneRunning, WaiterWaitsOrLost, WaiterBlocked, [Next]_vars
    PROVE  WaiterBlocked'
<1>a. /\ state \in [AllThreads -> States] /\ block \in [Threads -> BlockRecord]
      /\ waiter \in [Wakeups -> Threads \cup {NULL}] /\ waiters \in [Mutexes -> SUBSET Threads]
      /\ signalled \in [Wakeups -> BOOLEAN] /\ frozen \in BOOLEAN
      /\ \A y \in Threads : y \in AllThreads /\ y # NULL
  BY ThreadsAssumption DEF TypeOK, ThreadsType, MutexesType, WakeupsType, AllThreads
\* Nobody becomes a waiter, and no waiter is blocked.
<1>b. ASSUME \A w \in Wakeups : waiter'[w] \in {waiter[w], NULL},
             \A y \in Threads, w \in Wakeups : state'[y] = "BLOCKED" /\ waiter[w] = y =>
                 state[y] = "BLOCKED" /\ block'[y] = block[y]
      PROVE  WaiterBlocked'
  <2> SUFFICES ASSUME NEW w \in Wakeups, waiter'[w] # NULL, state'[waiter'[w]] = "BLOCKED"
               PROVE  block'[waiter'[w]].type = "WAKEUP"
    BY DEF WaiterBlocked
  <2>1. waiter'[w] = waiter[w] /\ waiter[w] \in Threads
    BY <1>a, <1>b
  <2> QED
    BY <1>b, <2>1 DEF WaiterBlocked
<1>c. ASSUME UNCHANGED <<state, block>>, \A w \in Wakeups : waiter'[w] \in {waiter[w], NULL}
      PROVE  WaiterBlocked'
  BY <1>b, <1>c
<1>d. ASSUME NEW st \in [AllThreads -> States], NEW bl \in [Threads -> BlockRecord], NEW sg,
             NEW tgt \in Threads \cup {NULL}, NEW blk,
             \A y \in AllThreads : st[y] = "RUNNING" => y = current,
             \A y \in Threads : st[y] = "BLOCKED" => state[y] = "BLOCKED" /\ bl[y] = block[y],
             scheduler_switch(st, bl, sg, tgt, blk, frozen), waiter' = waiter
      PROVE  WaiterBlocked'
  <2>1. PICK E \in SUBSET Threads : SwitchedFrom(st, bl, frozen, E)
    BY <1>a, <1>d, SwitchFrom
  <2>2. ASSUME NEW y \in Threads, state'[y] = "BLOCKED" PROVE state[y] = "BLOCKED" /\ block'[y] = block[y]
    <3>1. y \notin E
      BY <2>1, <2>2 DEF SwitchedFrom
    <3> QED
      BY <1>d, <2>1, <2>2, <3>1 DEF SwitchedFrom
  <2> QED
    BY <1>b, <1>d, <2>2
<1>e. ASSUME NEW t \in Threads, pc[t] = "app" PROVE \A w \in Wakeups : waiter[w] # t
  BY <1>a, <1>e DEF WaiterWaitsOrLost
<1>f. \A y \in AllThreads : state[y] = "RUNNING" => y = current
  BY DEF OneRunning
<1>g. NULL \in Threads \cup {NULL}
  OBVIOUS
<1>1. ASSUME NEW t \in Threads, yield(t) PROVE WaiterBlocked'
  <2>1. scheduler_switch(state, block, signalled, NULL, t, frozen) /\ waiter' = waiter
    BY <1>1 DEF yield
  <2> QED
    BY <1>a, <1>d, <1>f, <1>g, <2>1
<1>2. ASSUME NEW t \in Threads, NEW m \in Mutexes, mutex_lock(t, m) PROVE WaiterBlocked'
  BY <1>2, <1>c DEF mutex_lock, threadVars, wakeupVars
<1>3. ASSUME NEW t \in Threads, NEW m \in Mutexes, NEW timed, mutex_lock_block(t, m, timed)
      PROVE  WaiterBlocked'
  <2>1. \A w \in Wakeups : waiter[w] # t
    BY <1>3, <1>e DEF mutex_lock_block, Calls
  <2> QED
    BY <1>3, <1>a, <1>b, <2>1 DEF mutex_lock_block, Block, wakeupVars
<1>4. ASSUME NEW t \in Threads, NEW m \in Mutexes, mutex_unlock(t, m) PROVE WaiterBlocked'
  <2>1. \A w \in Wakeups : waiter[w] # t
    BY <1>4, <1>e DEF mutex_unlock, Calls
  <2> QED
    BY <1>4, <1>a, <1>b, <2>1 DEF mutex_unlock, panic, wakeupVars
<1>5. ASSUME NEW t \in Threads, NEW m \in Mutexes, mutex_unlock_last(t, m) PROVE WaiterBlocked'
  <2>1. waiter' = waiter
    BY <1>5 DEF mutex_unlock_last, wakeupVars
  <2>2. \A y \in Threads : state'[y] = "BLOCKED" => state[y] = "BLOCKED" /\ block'[y] = block[y]
    BY <1>5, <1>a DEF mutex_unlock_last, mutex_unlock_internal
  <2> QED
    BY <1>b, <2>1, <2>2
<1>6. ASSUME NEW t \in Threads, NEW m \in Mutexes, mutex_unlock_abort(t, m) PROVE WaiterBlocked'
  <2> DEFINE st == [state EXCEPT ![t] = "DEFUNCT_ACK"]
             bl == [block EXCEPT ![t] = Blocked("PANIC", @.by, @.timed)]
  <2>1. scheduler_switch(st, bl, signalled, NULL, NULL, frozen) /\ waiter' = waiter
    BY <1>6 DEF mutex_unlock_abort
  <2>2. st \in [AllThreads -> States] /\ bl \in [Threads -> BlockRecord]
    BY <1>a DEF States, BlockRecord, BlockTypes, Blocked
  <2>3. /\ \A y \in AllThreads : st[y] = "RUNNING" => y = current
        /\ \A y \in Threads : st[y] = "BLOCKED" => state[y] = "BLOCKED" /\ bl[y] = block[y]
    BY <1>a, <1>f
  <2> HIDE DEF st, bl
  <2> QED
    BY <1>d, <1>g, <2>1, <2>2, <2>3
<1>7. ASSUME NEW t \in Threads, mutex_lock_return(t) PROVE WaiterBlocked'
  BY <1>7, <1>c DEF mutex_lock_return, threadVars, wakeupVars
<1>8. ASSUME NEW t \in Threads, wakeup_wait_return(t) PROVE WaiterBlocked'
  <2>1. \A w \in Wakeups : waiter'[w] \in {waiter[w], NULL}
    BY <1>8, <1>a DEF wakeup_wait_return, wakeupVars
  <2> QED
    BY <1>8, <1>c, <2>1 DEF wakeup_wait_return, threadVars
<1>9. ASSUME NEW t \in Threads, NEW w \in Wakeups, wakeup_wait(t, w) PROVE WaiterBlocked'
  <2>1. \A v \in Wakeups : waiter[v] # t
    BY <1>9, <1>e DEF wakeup_wait, Calls
  <2> QED
    BY <1>9, <1>a, <1>b, <2>1 DEF wakeup_wait, panic
<1>10. ASSUME NEW t \in Threads, NEW w \in Wakeups, NEW timed, wakeup_wait_block(t, w, timed)
       PROVE  WaiterBlocked'
  <2>1. \A v \in Wakeups : waiter[v] # t
    BY <1>10, <1>e DEF wakeup_wait_block, Calls
  <2>2. /\ waiter' = [waiter EXCEPT ![w] = t] /\ state' = [state EXCEPT ![t] = "BLOCKED"]
        /\ block' = [block EXCEPT ![t] = Blocked("WAKEUP", w, timed)]
    BY <1>10 DEF wakeup_wait_block, Block
  <2> SUFFICES ASSUME NEW v \in Wakeups, waiter'[v] # NULL, state'[waiter'[v]] = "BLOCKED"
               PROVE  block'[waiter'[v]].type = "WAKEUP"
    BY DEF WaiterBlocked
  <2>3. CASE waiter'[v] = t
    BY <1>a, <2>2, <2>3 DEF Blocked
  <2>4. CASE waiter'[v] # t
    <3>1. waiter'[v] = waiter[v] /\ waiter[v] \in Threads
      BY <1>a, <2>2, <2>4
    <3> QED
      BY <1>a, <2>2, <2>4, <3>1 DEF WaiterBlocked
  <2> QED
    BY <2>3, <2>4
<1>11. ASSUME NEW t \in Threads, NEW timed, sleep(t, timed) PROVE WaiterBlocked'
  <2>1. \A w \in Wakeups : waiter[w] # t
    BY <1>11, <1>e DEF sleep, Calls
  <2> QED
    BY <1>11, <1>a, <1>b, <2>1 DEF sleep, Block, wakeupVars
<1>12. ASSUME NEW t, NEW y, NEW p, thread_set_priority(t, y, p) PROVE WaiterBlocked'
  BY <1>12, <1>c DEF thread_set_priority, wakeupVars
<1>13. ASSUME tick PROVE WaiterBlocked'
  <2>1. scheduler_switch(state, block, signalled, NULL, NULL, frozen) /\ waiter' = waiter
    BY <1>13 DEF tick
  <2> QED
    BY <1>a, <1>d, <1>f, <1>g, <2>1
<1>14. ASSUME NEW w \in Wakeups, wakeup_signal(w) PROVE WaiterBlocked'
  <2>1. waiter' = waiter /\ \A y \in Threads : state'[y] = "BLOCKED" => state[y] = "BLOCKED" /\ block'[y] = block[y]
    BY <1>14, <1>a DEF wakeup_signal, SignalState, SignalBlock
  <2> QED
    BY <1>b, <2>1
<1>15. ASSUME NEW w \in Wakeups, wakeup_signal_idle(w) PROVE WaiterBlocked'
  <2> DEFINE st == SignalState(w)
             bl == SignalBlock(w)
             sg == [signalled EXCEPT ![w] = TRUE]
  <2>1. scheduler_switch(st, bl, sg, waiter[w], NULL, frozen) /\ waiter' = waiter
    BY <1>15 DEF wakeup_signal_idle
  <2>2. /\ st \in [AllThreads -> States] /\ bl \in [Threads -> BlockRecord]
        /\ waiter[w] \in Threads \cup {NULL}
    BY <1>a DEF SignalState, SignalBlock, States, NotBlocked, Blocked, BlockRecord, BlockTypes
  <2>3. /\ \A y \in AllThreads : st[y] = "RUNNING" => y = current
        /\ \A y \in Threads : st[y] = "BLOCKED" => state[y] = "BLOCKED" /\ bl[y] = block[y]
    BY <1>a, <1>f DEF SignalState, SignalBlock
  <2> HIDE DEF st, bl, sg
  <2> QED
    BY <1>d, <2>1, <2>2, <2>3
<1>16. ASSUME UNCHANGED vars PROVE WaiterBlocked'
  BY <1>16, <1>c DEF vars, threadVars, wakeupVars
<1> QED
  BY <1>1, <1>2, <1>3, <1>4, <1>5, <1>6, <1>7, <1>8, <1>9, <1>10, <1>11, <1>12, <1>13, <1>14, <1>15, <1>16
     DEF Next, Step, Interrupt

-----------------------------------------------------------------------------
(* The invariant.                                                          *)

\* The threads whose termination has not begun.
Living == {t \in listed : fate[t] = "none"}

\* Memory that no thread has looks like that of a suspended thread, and a thread inside
\* thread_terminate knows its victim.
FreshApart == \A x \in Threads \ listed : Apart(x)
FreeKnows == \A t \in Threads : pc[t] = "free" => arg[t] \in Threads

LifeTypes == listed \subseteq Threads /\ fate \in [Threads -> Fates] /\ strayed \in BOOLEAN

LifeParts ==
    /\ ControlInvariantOf(Living)
    /\ QueueIsLinear /\ OwnedOnce /\ OwnedListed
    /\ WaiterBlocked /\ FreshApart /\ FreeKnows

LifeInvariant == LifeTypes /\ KilledIsForgotten /\ (Sound => LifeParts)

\* The living threads after a step, when it keeps the rest.
LEMMA LivingKeep ==
    ASSUME NEW G, Living' = G, TypeOK', ControlKept(G)
    PROVE  ControlInvariantOf(Living)'
<1>1. Living' = G
  OBVIOUS
<1> HIDE DEF Living
<1>2. HeldIsCountOf(Living)' /\ HandedOverTo(Living)'
  BY <1>1 DEF ControlKept, ControlParts, HeldIsCountOf, HandedOverTo
<1> QED
  BY <1>2 DEF ControlKept, ControlParts, ControlInvariantOf

\* Whoever is forgotten does not run any more, but to end its own termination.
LEMMA ForgottenRests ==
    ASSUME KilledIsForgotten, NEW x \in Threads, fate[x] = "clean"
    PROVE  ~Refers(x) /\ (Apart(x) \/ (Leaving(x) /\ Ends(x)))
BY DEF KilledIsForgotten, Apart, Leaving, Ends

\* A step of the kernel.
LEMMA LifeKernel ==
    ASSUME LifeInvariant, Sound, [Next]_vars, UNCHANGED <<listed, fate, strayed>>
    PROVE  LifeInvariant'
<1>1. LifeTypes /\ LifeParts /\ TypeOK /\ QueuedWaits /\ OneRunning /\ WaiterWaitsOrLost
  BY DEF LifeInvariant, LifeParts, ControlInvariantOf, ControlParts
<1>2. PICK G \in SUBSET Threads : G = Living
  BY <1>1 DEF LifeTypes, Living
<1>3. TypeOK' /\ ControlKept(G)
  <2>1. ControlInvariantOf(G)
    BY <1>1, <1>2 DEF LifeParts
  <2> QED
    BY <1>1, <2>1, NextType, KernelKeeps
<1>4. ControlInvariantOf(Living)'
  <2>1. Living' = G
    BY <1>2 DEF Living
  <2> QED
    BY <1>3, <2>1, LivingKeep
<1>5. QueueIsLinear' /\ OwnedOnce' /\ OwnedListed'
  BY <1>1, NextLinear, NextLists DEF LifeParts
<1>6. WaiterBlocked'
  BY <1>1, KernelWaiters DEF LifeParts
<1>7. FreshApart'
  <2>1. ASSUME NEW x \in Threads \ listed PROVE Apart(x)'
    <3>1. Apart(x) /\ ~Refers(x)
      BY <1>1 DEF LifeParts, FreshApart, Sound
    <3> QED
      BY <1>1, <3>1, KernelForgets
  <2> QED
    BY <2>1 DEF FreshApart
<1>8. FreeKnows'
  <2>1. ASSUME NEW t \in Threads, pc'[t] = "free" PROVE arg'[t] \in Threads
    <3>1. Ends(t)'
      BY <2>1 DEF Ends
    <3>2. pc[t] = "free" /\ arg'[t] = arg[t]
      BY <1>1, <2>1, <3>1, KernelEnds
    <3> QED
      BY <1>1, <3>2 DEF LifeParts, FreeKnows
  <2> QED
    BY <2>1 DEF FreeKnows
<1>9. KilledIsForgotten'
  <2>1. ASSUME NEW x \in Threads, fate'[x] = "clean"
        PROVE  ~Refers(x)' /\ (Leaving(x)' \/ Apart(x)')
    <3>1. ~Refers(x) /\ (Apart(x) \/ (Leaving(x) /\ Ends(x)))
      BY <2>1, ForgottenRests DEF LifeInvariant
    <3>2. ~Refers(x)' /\ (Apart(x) => Apart(x)')
      BY <1>1, <3>1, KernelForgets
    <3>3. Leaving(x) => Leaving(x)'
      BY <1>1, KernelEnds DEF Leaving, Ends
    <3> QED
      BY <3>1, <3>2, <3>3
  <2> QED
    BY <2>1 DEF KilledIsForgotten, Apart
<1>10. LifeTypes'
  BY <1>1 DEF LifeTypes
<1> QED
  BY <1>4, <1>5, <1>6, <1>7, <1>8, <1>9, <1>10 DEF LifeInvariant, LifeParts

\* A suspension.
LEMMA LifeSuspend ==
    ASSUME LifeInvariant, Sound, Suspend, UNCHANGED <<listed, fate, strayed>>
    PROVE  LifeInvariant'
<1>1. LifeTypes /\ LifeParts /\ TypeOK /\ MutexBlocked /\ QueueIsLinear
  BY DEF LifeInvariant, LifeParts, ControlInvariantOf, ControlParts
<1>2. PICK G \in SUBSET Threads : G = Living
  BY <1>1 DEF LifeTypes, Living
<1>a. /\ state \in [AllThreads -> States] /\ block \in [Threads -> BlockRecord]
      /\ pc \in [Threads -> PCs] /\ arg \in [Threads -> Mutexes \cup Wakeups \cup Threads \cup {NULL}]
      /\ waiter \in [Wakeups -> Threads \cup {NULL}]
      /\ \A y \in Threads : y \in AllThreads /\ y # NULL
  BY <1>1, ThreadsAssumption DEF TypeOK, ThreadsType, WakeupsType, CallsType, AllThreads
<1>b. (\E x \in Threads : thread_suspend(x)) \/ (\E t \in Threads : thread_suspend_self(t))
  BY <1>1 DEF Suspend, LifeTypes
<1> DEFINE Stopped ==
             /\ UNCHANGED <<owned, owner, count, waiter, current>> /\ QueueIsLinear'
             /\ \A n \in Mutexes : waiters'[n] \subseteq waiters[n]
             /\ \A y \in Threads : /\ state'[y] = state[y] \/ state'[y] = "SUSPENDED"
                                   /\ block'[y].type = block[y].type
                                   /\ \/ pc'[y] = pc[y] /\ arg'[y] = arg[y]
                                      \/ ~Ends(y) /\ ~Apart(y) /\ ~Ends(y)'
<1>3. Stopped
  <2>1. ASSUME NEW x \in Threads, thread_suspend(x) PROVE Stopped
    <3>1. PICK timed \in BOOLEAN : block' = [block EXCEPT ![x].timed = timed]
      BY <2>1, <1>a DEF thread_suspend, Remaining, BlockRecord
    <3>2. mutex_remove_from_queue(SuspendQueue(x))
      BY <2>1 DEF thread_suspend
    <3>3. QueueIsLinear' /\ \A n \in Mutexes : waiters'[n] \subseteq waiters[n]
      BY <1>1, <3>2, RemoveKeepsLinear DEF mutex_remove_from_queue
    <3>4. /\ \A y \in Threads : block'[y].type = block[y].type
          /\ \A y \in Threads : state'[y] = state[y] \/ state'[y] = "SUSPENDED"
      BY <2>1, <3>1, <1>a DEF thread_suspend, BlockRecord
    <3>5. UNCHANGED <<owned, owner, count, waiter, current, pc, arg>>
      BY <2>1 DEF thread_suspend, mutexVars, wakeupVars, callVars
    <3> QED
      BY <3>3, <3>4, <3>5
  <2>2. ASSUME NEW t \in Threads, thread_suspend_self(t) PROVE Stopped
    <3>1. /\ UNCHANGED <<owned, owner, count, waiter, current, block, waiters, ahead, arg>>
          /\ state' = [state EXCEPT ![t] = "SUSPENDED"] /\ pc' = [pc EXCEPT ![t] = "yield"]
          /\ pc[t] = "app" /\ current = t
      BY <2>2 DEF thread_suspend_self, Calls, Runs, mutexVars, queueVars, wakeupVars
    <3>2. QueueIsLinear'
      BY <1>1, <3>1 DEF QueueIsLinear
    <3>3. \A y \in Threads : /\ state'[y] = state[y] \/ state'[y] = "SUSPENDED"
                             /\ \/ pc'[y] = pc[y] /\ arg'[y] = arg[y]
                                \/ ~Ends(y) /\ ~Apart(y) /\ ~Ends(y)'
      BY <3>1, <1>a DEF Ends, Apart
    <3> QED
      BY <3>1, <3>2, <3>3
  <2> QED
    BY <1>b, <2>1, <2>2
<1>4. TypeOK' /\ ControlKept(G)
  <2>1. ControlInvariantOf(G)
    BY <1>1, <1>2 DEF LifeParts
  <2>2. Control
    BY <1>b DEF Control
  <2> QED
    BY <1>1, <2>1, <2>2, ControlType, ControlKeeps
<1>5. ControlInvariantOf(Living)'
  <2>1. Living' = G
    BY <1>2 DEF Living
  <2> QED
    BY <1>4, <2>1, LivingKeep
<1>6. OwnedOnce' /\ OwnedListed'
  BY <1>1, <1>3 DEF LifeParts, OwnedOnce, OwnedListed
<1>7. WaiterBlocked'
  BY <1>1, <1>3, <1>a DEF LifeParts, WaiterBlocked
<1>8. FreshApart'
  BY <1>1, <1>3 DEF LifeParts, FreshApart, Apart
<1>9. FreeKnows'
  BY <1>1, <1>3 DEF LifeParts, FreeKnows, Ends
<1>10. KilledIsForgotten'
  <2>1. ASSUME NEW x \in Threads, fate'[x] = "clean"
        PROVE  ~Refers(x)' /\ (Leaving(x)' \/ Apart(x)')
    <3>1. ~Refers(x) /\ (Apart(x) \/ (Leaving(x) /\ Ends(x)))
      BY <2>1, ForgottenRests DEF LifeInvariant
    <3>2. ~Refers(x)'
      BY <1>3, <3>1 DEF Refers
    <3>3. Apart(x) => Apart(x)'
      BY <1>3 DEF Apart
    <3>4. Leaving(x) /\ Ends(x) => Leaving(x)'
      BY <1>3 DEF Leaving
    <3> QED
      BY <3>1, <3>2, <3>3, <3>4
  <2> QED
    BY <2>1 DEF KilledIsForgotten, Apart
<1>11. LifeTypes'
  BY <1>1 DEF LifeTypes
<1> QED
  BY <1>3, <1>5, <1>6, <1>7, <1>8, <1>9, <1>10, <1>11 DEF LifeInvariant, LifeParts

\* A thread is resumed.
LEMMA LifeResume ==
    ASSUME LifeInvariant, Sound, Resume, UNCHANGED <<listed, strayed>>
    PROVE  LifeInvariant'
<1>1. /\ LifeTypes /\ LifeParts /\ TypeOK /\ MutexBlocked /\ WakeupBlocked /\ QueueIsLinear
      /\ QueuedWaits /\ WaiterWaitsOrLost
  BY DEF LifeInvariant, LifeParts, ControlInvariantOf, ControlParts
<1>2. PICK G \in SUBSET Threads : G = Living
  BY <1>1 DEF LifeTypes, Living
<1>a. /\ state \in [AllThreads -> States] /\ block \in [Threads -> BlockRecord]
      /\ waiter \in [Wakeups -> Threads \cup {NULL}] /\ fate \in [Threads -> Fates]
      /\ waiters \in [Mutexes -> SUBSET Threads]
      /\ \A y \in Threads : y \in AllThreads /\ y # NULL
  BY <1>1, ThreadsAssumption DEF TypeOK, ThreadsType, MutexesType, WakeupsType, AllThreads, LifeTypes
<1>3. PICK x \in listed : /\ thread_resume(x)
                          /\ fate' = [fate EXCEPT ![x] = IF @ = "none" \/ Leaving(x) THEN @ ELSE "resumed"]
  BY DEF Resume
<1>b. x \in Threads /\ state[x] = "SUSPENDED"
  BY <1>1, <1>3 DEF LifeTypes, thread_resume
<1>4. /\ UNCHANGED <<block, current, owned, owner, count, waiter, pc, arg>>
      /\ \A y \in Threads \ {x} : state'[y] = state[y]
      /\ block[x].type # "MUTEX" => UNCHANGED queueVars
      /\ block[x].type \notin {"MUTEX", "WAKEUP"} => state'[x] # "BLOCKED"
  BY <1>3, <1>a, <1>b DEF thread_resume, mutexVars, wakeupVars, callVars
<1>5. block[x].type = "MUTEX" =>
        /\ block[x].by \in Mutexes /\ mutex_add_to_queue(block[x].by, x)
        /\ \A n \in Mutexes : x \notin waiters[n]
  BY <1>1, <1>3, <1>b DEF thread_resume, MutexBlocked
<1>6. QueueIsLinear'
  <2>1. CASE block[x].type = "MUTEX"
    BY <1>1, <1>5, <1>b, <2>1, AddKeepsLinear
  <2>2. CASE block[x].type # "MUTEX"
    BY <1>1, <1>4, <2>2 DEF QueueIsLinear, queueVars
  <2> QED
    BY <2>1, <2>2
<1>7. \A n \in Mutexes : \A y \in waiters'[n] : y \in waiters[n] \/ (y = x /\ block[x].type = "MUTEX")
  BY <1>4, <1>5, <1>a DEF mutex_add_to_queue, queueVars
<1>8. TypeOK' /\ ControlKept(G)
  <2>1. ControlInvariantOf(G)
    BY <1>1, <1>2 DEF LifeParts
  <2> QED
    BY <1>1, <1>3, <1>b, <2>1, ControlType, ControlKeeps
<1>9. ControlInvariantOf(Living)'
  <2>1. Living' = G
    BY <1>2, <1>3, <1>a, <1>b DEF Living
  <2> QED
    BY <1>8, <2>1, LivingKeep
<1>10. OwnedOnce' /\ OwnedListed'
  BY <1>1, <1>4 DEF LifeParts, OwnedOnce, OwnedListed
<1>11. WaiterBlocked'
  <2> SUFFICES ASSUME NEW w \in Wakeups, waiter'[w] # NULL, state'[waiter'[w]] = "BLOCKED"
               PROVE  block'[waiter'[w]].type = "WAKEUP"
    BY DEF WaiterBlocked
  <2>1. CASE waiter[w] # x
    BY <1>1, <1>4, <1>a, <2>1 DEF LifeParts, WaiterBlocked
  <2>2. CASE waiter[w] = x
    <3>1. pc[x] \notin {"mutex_yield", "mutex_back"}
      BY <1>1, <1>4, <2>2 DEF WaiterWaitsOrLost
    <3>2. block[x].type # "MUTEX"
      BY <1>1, <1>b, <3>1 DEF MutexBlocked, Awaits
    <3> QED
      BY <1>4, <2>2, <3>2
  <2> QED
    BY <2>1, <2>2
<1>12. FreshApart'
  BY <1>1, <1>3, <1>4 DEF LifeParts, FreshApart, Apart
<1>13. FreeKnows'
  BY <1>1, <1>4 DEF LifeParts, FreeKnows
<1>14. KilledIsForgotten'
  <2>1. ASSUME NEW y \in Threads, fate'[y] = "clean"
        PROVE  ~Refers(y)' /\ (Leaving(y)' \/ Apart(y)')
    <3>1. fate[y] = "clean" /\ (y = x => Leaving(x))
      BY <1>3, <1>a, <2>1
    <3>2. ~Refers(y) /\ (Apart(y) \/ (Leaving(y) /\ Ends(y)))
      BY <3>1, ForgottenRests DEF LifeInvariant
    <3>3. y = x => block[x].type # "MUTEX"
      BY <1>1, <1>b, <3>1 DEF Leaving, MutexBlocked, Awaits
    <3>4. ~Refers(y)'
      BY <1>4, <1>7, <3>2, <3>3 DEF Refers
    <3>5. y # x /\ Apart(y) => Apart(y)'
      BY <1>4 DEF Apart
    <3>6. Leaving(y) => Leaving(y)'
      BY <1>4 DEF Leaving
    <3> QED
      BY <3>1, <3>2, <3>4, <3>5, <3>6
  <2> QED
    BY <2>1 DEF KilledIsForgotten, Apart
<1>15. LifeTypes'
  BY <1>1, <1>3 DEF LifeTypes, Fates
<1> QED
  BY <1>6, <1>9, <1>10, <1>11, <1>12, <1>13, <1>14, <1>15 DEF LifeInvariant, LifeParts

\* thread_killlevel begins or ends.
LEMMA LifeKilllevel ==
    ASSUME LifeInvariant, Sound, NEW t \in Threads, NEW p \in {"app", "kill"},
           Runs(t), pc[t] \in {"app", "kill"}, pc' = [pc EXCEPT ![t] = p],
           UNCHANGED <<threadVars, current, frozen, mutexVars, queueVars, wakeupVars, arg, held, hung,
                       listed, fate, strayed>>
    PROVE  LifeInvariant'
<1>1. LifeTypes /\ LifeParts /\ TypeOK /\ ControlInvariantOf(Living) /\ Living \subseteq Threads
  BY DEF LifeInvariant, LifeParts, ControlInvariantOf, LifeTypes, Living
<1>2. /\ UNCHANGED <<state, block, priority, current, frozen, owned, owner, count, waiters, ahead, waiter,
                     signalled, arg, held, hung, listed, fate, strayed>>
      /\ pc \in [Threads -> PCs] /\ current = t
  BY <1>1 DEF threadVars, mutexVars, queueVars, wakeupVars, Runs, TypeOK, CallsType
<1>3. /\ pc' \in [Threads -> PCs]
      /\ \A y \in Threads : y # t => pc'[y] = pc[y]
      /\ pc'[t] \in {"app", "kill"}
  BY <1>2 DEF PCs
<1>a. \A y \in Threads : /\ \A n : Awaits(y, n)' <=> Awaits(y, n)
                         /\ pc'[y] = "mutex_back" <=> pc[y] = "mutex_back"
                         /\ pc'[y] = "wakeup_back" <=> pc[y] = "wakeup_back"
                         /\ pc'[y] = "wakeup_yield" <=> pc[y] = "wakeup_yield"
                         /\ pc'[y] = "lost" <=> pc[y] = "lost"
                         /\ pc'[y] = "free" => pc[y] = "free"
  BY <1>2, <1>3 DEF Awaits
<1>4. TypeOK'
  BY <1>1, <1>2, <1>3 DEF TypeOK, ThreadsType, MutexesType, WakeupsType, CallsType
<1>5. ControlInvariantOf(Living)'
  <2>a. PICK G \in SUBSET Threads : G = Living
    BY <1>1
  <2>b. Living' = G
    BY <1>2, <2>a DEF Living
  <2>c. /\ waiters \in [Mutexes -> SUBSET Threads] /\ waiter \in [Wakeups -> Threads \cup {NULL}]
        /\ QueuedWaits /\ WaiterWaitsOrLost /\ HeldIsCountOf(G) /\ HandedOverTo(G)
        /\ MutexBlocked /\ WakeupBlocked /\ BlockedIsQueued /\ OneRunning /\ FrozenRunsIdle
    BY <1>1, <2>a DEF ControlInvariantOf, ControlParts, TypeOK, MutexesType, WakeupsType
  <2>1. OneRunning' /\ FrozenRunsIdle' /\ BlockedIsQueued'
    BY <2>c, <1>2 DEF OneRunning, FrozenRunsIdle, BlockedIsQueued
  <2>2. QueuedWaits'
    BY <2>c, <1>2, <1>a DEF QueuedWaits
  <2>3. WaiterWaitsOrLost'
    BY <2>c, <1>2, <1>a DEF WaiterWaitsOrLost
  <2>4. HeldIsCountOf(G)'
    BY <2>c, <1>2, <1>a DEF HeldIsCountOf
  <2>5. HandedOverTo(G)'
    BY <2>c, <1>2, <1>a DEF HandedOverTo
  <2>6. MutexBlocked' /\ WakeupBlocked'
    BY <2>c, <1>2, <1>a DEF MutexBlocked, WakeupBlocked
  <2>7. ControlKept(G)
    BY <2>1, <2>2, <2>3, <2>4, <2>5, <2>6 DEF ControlKept, ControlParts
  <2> QED
    BY <1>4, <2>b, <2>7, LivingKeep
<1>6. QueueIsLinear' /\ OwnedOnce' /\ OwnedListed' /\ WaiterBlocked' /\ FreshApart'
  BY <1>1, <1>2 DEF LifeParts, QueueIsLinear, OwnedOnce, OwnedListed, WaiterBlocked, FreshApart, Apart
<1>7. FreeKnows'
  BY <1>1, <1>2, <1>a DEF LifeParts, FreeKnows
<1>8. KilledIsForgotten'
  <2>1. ASSUME NEW y \in Threads, fate'[y] = "clean"
        PROVE  ~Refers(y)' /\ (Leaving(y)' \/ Apart(y)')
    <3>1. ~Refers(y) /\ (Leaving(y) \/ Apart(y))
      BY <1>2, <2>1, ForgottenRests DEF LifeInvariant
    <3>2. ~Refers(y)' /\ (Apart(y) => Apart(y)')
      BY <1>2, <3>1 DEF Refers, Apart
    <3>3. y # t => pc'[y] = pc[y]
      BY <1>3
    <3> QED
      BY <1>2, <3>1, <3>2, <3>3 DEF Leaving
  <2> QED
    BY <2>1 DEF KilledIsForgotten, Apart
<1>9. LifeTypes'
  BY <1>1, <1>2 DEF LifeTypes
<1> QED
  BY <1>5, <1>6, <1>7, <1>8, <1>9 DEF LifeInvariant, LifeParts

\* What the beginning of a termination does to the rest: who waits for nothing any more,
\* and what fate says of it.
LEMMA BeginMarks ==
    ASSUME LifeTypes, TypeOK, NEW t \in Threads, NEW x \in Threads, Begin(t, x)
    PROVE  /\ waiter' = Unwaited(x) /\ waiter' \in [Wakeups -> Threads \cup {NULL}]
           /\ \A w \in Wakeups : waiter'[w] = waiter[w] \/ waiter'[w] = NULL
           /\ held' = [held EXCEPT ![x] = [m \in Mutexes |-> 0]]
           /\ pc' = [pc EXCEPT ![t] = "free"] /\ arg' = [arg EXCEPT ![t] = x] /\ hung' \in BOOLEAN
           /\ UNCHANGED <<priority, current, frozen, signalled, listed>>
           /\ fate' \in [Threads -> Fates] /\ fate'[x] # "none"
           /\ \A y \in Threads \ {x} : fate'[y] = fate[y]
           /\ fate'[x] = "clean" =>
                /\ ~strayed' /\ \A m \in Mutexes : x \notin waiters[m]
                /\ state[x] # "BLOCKED" => \A w \in Wakeups : waiter[w] # x
<1>1. /\ waiter' = Unwaited(x)
      /\ held' = [held EXCEPT ![x] = [m \in Mutexes |-> 0]]
      /\ pc' = [pc EXCEPT ![t] = "free"] /\ arg' = [arg EXCEPT ![t] = x] /\ hung' \in BOOLEAN
      /\ UNCHANGED <<priority, current, frozen, signalled, listed>>
  BY DEF Begin
<1>2. /\ waiter' \in [Wakeups -> Threads \cup {NULL}]
      /\ \A w \in Wakeups : waiter'[w] = waiter[w] \/ waiter'[w] = NULL
  BY <1>1 DEF Unwaited, TypeOK, WakeupsType
<1>3. PICK E \in Unqueued(x) : \E s \in {UnlockAll(Fields(x, E), x)} :
        /\ strayed' = s.strayed
        /\ fate' = [fate EXCEPT ![x] =
             CASE @ \notin {"none", "clean"} -> @
               [] s.strayed -> "strayed"
               [] \E m \in Mutexes : x \in waiters[m] -> "queued"
               [] state[x] # "BLOCKED" /\ (\E w \in Wakeups : waiter[w] = x) -> "waiting"
               [] OTHER -> "clean"]
  BY Zenon DEF Begin
<1>4. PICK f : /\ fate' = [fate EXCEPT ![x] = f]
               /\ f = CASE fate[x] \notin {"none", "clean"} -> fate[x]
                        [] strayed' -> "strayed"
                        [] \E m \in Mutexes : x \in waiters[m] -> "queued"
                        [] state[x] # "BLOCKED" /\ (\E w \in Wakeups : waiter[w] = x) -> "waiting"
                        [] OTHER -> "clean"
  BY <1>3
<1>5. /\ f \in Fates \ {"none"}
      /\ f = "clean" => /\ ~strayed' /\ \A m \in Mutexes : x \notin waiters[m]
                        /\ state[x] # "BLOCKED" => \A w \in Wakeups : waiter[w] # x
  BY <1>4 DEF LifeTypes, Fates
<1>6. fate \in [Threads -> Fates]
  BY DEF LifeTypes
<1> QED
  BY <1>1, <1>2, <1>4, <1>5, <1>6

\* The beginning of a termination.
LEMMA LifeBegin ==
    ASSUME LifeInvariant, Sound, NEW t \in Threads, NEW x \in listed,
           Runs(t), pc[t] \in {"app", "kill"}, Begin(t, x)
    PROVE  LifeInvariant'
<1>1. /\ LifeTypes /\ LifeParts /\ TypeOK /\ x \in Threads /\ current = t
      /\ QueueIsLinear /\ OwnedOnce /\ OwnedListed /\ WaiterBlocked /\ FreshApart /\ FreeKnows
  BY DEF LifeInvariant, LifeParts, ControlInvariantOf, LifeTypes, Runs
<1>2. PICK G \in SUBSET Threads : G = Living
  BY <1>1 DEF LifeTypes, Living
<1>3. /\ QueuedWaits /\ WaiterWaitsOrLost /\ HeldIsCountOf(G) /\ HandedOverTo(G)
      /\ MutexBlocked /\ WakeupBlocked /\ BlockedIsQueued /\ OneRunning /\ FrozenRunsIdle
  BY <1>1, <1>2 DEF LifeParts, ControlInvariantOf, ControlParts
<1>a. /\ state \in [AllThreads -> States] /\ block \in [Threads -> BlockRecord]
      /\ pc \in [Threads -> PCs] /\ arg \in [Threads -> Mutexes \cup Wakeups \cup Threads \cup {NULL}]
      /\ held \in [Threads -> [Mutexes -> Int]]
      /\ owner \in [Mutexes -> Threads \cup {NULL}] /\ count \in [Mutexes -> Nat]
      /\ waiters \in [Mutexes -> SUBSET Threads] /\ waiter \in [Wakeups -> Threads \cup {NULL}]
      /\ fate \in [Threads -> Fates]
      /\ \A y \in Threads : y \in AllThreads /\ y # NULL
  BY <1>1, ThreadsAssumption DEF TypeOK, ThreadsType, MutexesType, WakeupsType, CallsType, AllThreads, LifeTypes
<1>4. /\ waiter' = Unwaited(x) /\ waiter' \in [Wakeups -> Threads \cup {NULL}]
      /\ \A w \in Wakeups : waiter'[w] = waiter[w] \/ waiter'[w] = NULL
      /\ held' = [held EXCEPT ![x] = [m \in Mutexes |-> 0]]
      /\ pc' = [pc EXCEPT ![t] = "free"] /\ arg' = [arg EXCEPT ![t] = x] /\ hung' \in BOOLEAN
      /\ UNCHANGED <<priority, current, frozen, signalled, listed>>
      /\ fate' \in [Threads -> Fates] /\ fate'[x] # "none"
      /\ \A y \in Threads \ {x} : fate'[y] = fate[y]
      /\ fate'[x] = "clean" =>
           /\ ~strayed' /\ \A m \in Mutexes : x \notin waiters[m]
           /\ state[x] # "BLOCKED" => \A w \in Wakeups : waiter[w] # x
  BY <1>1, BeginMarks
<1>5. /\ MutexesType' /\ state' \in [AllThreads -> States] /\ block' \in [Threads -> BlockRecord]
      /\ OwnedOnce' /\ OwnedListed' /\ strayed' \in BOOLEAN
      /\ \E E, R : Released(x, E, R) /\ (~strayed' => Unlocked(x, R))
  BY <1>1, <1>3, BeginReleases
<1>6. PICK E, R : Released(x, E, R) /\ (~strayed' => Unlocked(x, R))
  BY <1>5
<1>7. /\ QueueIsLinear' /\ \A n \in Mutexes : waiters'[n] = waiters[n] \ (E \cup R)
      /\ E \subseteq {x}
  <2>1. mutex_remove_from_queue(E \cup R) /\ E \subseteq {x}
    BY <1>6 DEF Released
  <2> QED
    BY <1>1, <2>1, RemoveKeepsLinear DEF mutex_remove_from_queue
\* Those that a mutex is handed over to.
<1>8. ASSUME NEW h \in R
      PROVE  /\ h \in Threads /\ h # t /\ state'[h] = "READY" /\ block'[h] = NotBlocked
             /\ \E n \in Mutexes : h \in waiters[n]
  <2>1. PICK n \in Mutexes : h \in waiters[n]
    BY <1>6, <1>8 DEF Released
  <2>2. h \in Threads /\ pc[h] \in {"mutex_yield", "mutex_back"}
    BY <1>3, <1>a, <2>1 DEF QueuedWaits, Awaits
  <2> QED
    BY <1>6, <1>8, <1>a, <2>1, <2>2 DEF Released
\* All others.
<1>9. ASSUME NEW y \in Threads, y \notin R
      PROVE  /\ block'[y] = block[y]
             /\ state'[y] = IF y = x /\ state[x] # "RUNNING" THEN "SUSPENDED" ELSE state[y]
  BY <1>6, <1>9, <1>a DEF Released
<1>10. \A y \in Threads \ {t} : pc'[y] = pc[y] /\ arg'[y] = arg[y]
  BY <1>4, <1>a
<1>11. pc'[t] = "free" /\ arg'[t] = x
  BY <1>4, <1>a
<1>12. \A y \in Threads : /\ \A n : (Awaits(y, n)' <=> Awaits(y, n)) /\ (Awaits(y, n) => y # t)
                          /\ pc'[y] = "lost" <=> pc[y] = "lost"
                          /\ pc'[y] = "mutex_back" <=> pc[y] = "mutex_back"
  BY <1>10, <1>11 DEF Awaits
<1>13. KilledIsForgotten'
  <2>1. ASSUME NEW y \in Threads \ {x}, fate'[y] = "clean"
        PROVE  ~Refers(y)' /\ (Leaving(y)' \/ Apart(y)')
    <3>1. ~Refers(y) /\ (Apart(y) \/ (Leaving(y) /\ Ends(y)))
      BY <1>4, <2>1, ForgottenRests DEF LifeInvariant
    <3>2. y \notin R
      BY <1>8, <3>1 DEF Refers
    <3>3. \A n \in Mutexes : y \notin waiters'[n] /\ (count'[n] > 0 => owner'[n] # y)
      BY <1>6, <1>7, <3>1, <3>2 DEF Refers, Released
    <3>4. ~Refers(y)'
      BY <1>4, <1>a, <3>1, <3>3 DEF Refers
    <3>5. Apart(y) => Apart(y)'
      BY <1>4, <1>9, <2>1, <3>2 DEF Apart
    <3>6. Leaving(y) => Leaving(y)'
      BY <1>10 DEF Leaving
    <3> QED
      BY <3>1, <3>4, <3>5, <3>6
  <2>2. ASSUME fate'[x] = "clean"
        PROVE  ~Refers(x)' /\ (Leaving(x)' \/ Apart(x)')
    <3>1. x \notin R
      BY <1>4, <1>8, <2>2
    <3>2. \A n \in Mutexes : count'[n] > 0 => owner'[n] # x
      <4>1. owned'[x] = << >>
        BY <1>4, <1>6, <2>2 DEF Unlocked
      <4>2. \A n : ~In(owned[x], n)'
        BY <4>1 DEF In
      <4> QED
        BY <1>1, <1>5, <4>2 DEF OwnedListed
    <3>3. ASSUME NEW w \in Wakeups PROVE waiter'[w] # x
      <4>1. CASE waiter[w] # x
        BY <1>4, <1>a, <1>1, <4>1
      <4>2. CASE waiter[w] = x
        <5>1. state[x] = "BLOCKED" /\ block[x].type = "WAKEUP" /\ block[x].by = arg[x] /\ arg[x] = w
          BY <1>1, <1>3, <1>4, <1>a, <2>2, <4>2 DEF WaiterBlocked, WakeupBlocked, WaiterWaitsOrLost
        <5>2. waiter' = [waiter EXCEPT ![w] = NULL]
          BY <1>4, <5>1 DEF Unwaited
        <5> QED
          BY <1>1, <1>a, <5>2
      <4> QED
        BY <4>1, <4>2
    <3>4. ~Refers(x)'
      BY <1>4, <1>7, <2>2, <3>2, <3>3 DEF Refers
    <3>5. CASE x = t
      BY <1>11, <3>4, <3>5 DEF Leaving
    <3>6. CASE x # t
      <4>1. state[x] # "RUNNING"
        BY <1>1, <1>3, <1>a, <3>6 DEF OneRunning
      <4>2. Apart(x)'
        BY <1>1, <1>4, <1>9, <3>1, <3>6, <4>1 DEF Apart
      <4> QED
        BY <3>4, <4>2
    <3> QED
      BY <3>5, <3>6
  <2> QED
    BY <2>1, <2>2 DEF KilledIsForgotten, Apart
<1>14. ASSUME ~strayed' PROVE LifeParts'
  <2>1. x \notin R /\ Unlocked(x, R)
    BY <1>6, <1>14 DEF Unlocked
  <2>2. TypeOK'
    <3>1. ThreadsType'
      BY <1>1, <1>4, <1>5 DEF TypeOK, ThreadsType
    <3>2. WakeupsType'
      BY <1>1, <1>4 DEF TypeOK, WakeupsType
    <3>3. CallsType'
      BY <1>1, <1>4, <1>a DEF CallsType, PCs
    <3> QED
      BY <1>5, <3>1, <3>2, <3>3 DEF TypeOK
  <2>3. OneRunning'
    <3>1. ASSUME NEW y \in AllThreads, state'[y] = "RUNNING" PROVE y = current'
      <4>1. y \notin R /\ state[y] = "RUNNING"
        BY <1>6, <1>8, <3>1 DEF Released
      <4> QED
        BY <1>3, <1>4, <4>1 DEF OneRunning
    <3> QED
      BY <3>1 DEF OneRunning
  <2>4. FrozenRunsIdle'
    BY <1>3, <1>4 DEF FrozenRunsIdle
  <2>5. QueuedWaits'
    <3>1. ASSUME NEW n \in Mutexes, NEW y \in waiters'[n]
          PROVE  /\ Awaits(y, n)'
                 /\ state'[y] \notin {"READY", "RUNNING"}
                 /\ pc'[y] = "mutex_back" => current' # y
      <4>1. y \in waiters[n] /\ y \notin R /\ y \in Threads
        BY <1>7, <1>a, <3>1
      <4>2. /\ Awaits(y, n) /\ state[y] \notin {"READY", "RUNNING"}
            /\ pc[y] = "mutex_back" => current # y
        BY <1>3, <4>1 DEF QueuedWaits
      <4> QED
        BY <1>4, <1>9, <1>12, <4>1, <4>2
    <3> QED
      BY <3>1 DEF QueuedWaits
  <2>6. WaiterWaitsOrLost'
    <3>1. ASSUME NEW w \in Wakeups, waiter'[w] # NULL
          PROVE  /\ pc'[waiter'[w]] \in {"wakeup_yield", "wakeup_back", "lost"}
                 /\ arg'[waiter'[w]] = w
      <4>1. waiter'[w] = waiter[w] /\ waiter[w] \in Threads
        BY <1>4, <1>a, <3>1
      <4>2. pc[waiter[w]] \in {"wakeup_yield", "wakeup_back", "lost"} /\ arg[waiter[w]] = w
        BY <1>3, <3>1, <4>1 DEF WaiterWaitsOrLost
      <4> QED
        BY <1>10, <4>1, <4>2
    <3> QED
      BY <3>1 DEF WaiterWaitsOrLost
  <2> DEFINE H == G \ {x}
  <2>7. HeldIsCountOf(H)'
    <3>1. ASSUME NEW u \in H, NEW n \in Mutexes
          PROVE  \/ held'[u][n] = IF owner'[n] = u /\ ~Awaits(u, n)' THEN count'[n] ELSE 0
                 \/ pc'[u] = "lost" /\ held'[u][n] = 0
      <4>1. /\ u \in Threads /\ u # x /\ held'[u] = held[u] /\ (pc'[u] = "lost" <=> pc[u] = "lost")
            /\ Awaits(u, n)' <=> Awaits(u, n)
        BY <1>4, <1>12, <1>a
      <4>2. \/ held[u][n] = IF owner[n] = u /\ ~Awaits(u, n) THEN count[n] ELSE 0
            \/ pc[u] = "lost" /\ held[u][n] = 0
        BY <1>3 DEF HeldIsCountOf
      <4>3. CASE owner'[n] = owner[n] /\ count'[n] = count[n]
        BY <4>1, <4>2, <4>3
      <4>4. CASE owner[n] = x /\ owner'[n] = x
        BY <4>1, <4>2, <4>4
      <4>5. CASE owner[n] = x /\ owner'[n] \in waiters[n]
        <5>1. owner'[n] = u => Awaits(u, n)
          BY <1>3, <4>5 DEF QueuedWaits
        <5> QED
          BY <4>1, <4>2, <4>5, <5>1
      <4> QED
        BY <2>1, <4>3, <4>4, <4>5 DEF Unlocked
    <3> QED
      BY <3>1 DEF HeldIsCountOf
  <2>8. HandedOverTo(H)'
    <3>1. ASSUME NEW u \in H, NEW n \in Mutexes, Awaits(u, n)', owner'[n] = u
          PROVE  count'[n] = 1 /\ state'[u] # "BLOCKED"
      <4>1. u \in Threads /\ u # x /\ Awaits(u, n)
        BY <1>12, <3>1
      <4>2. CASE owner'[n] = owner[n] /\ count'[n] = count[n]
        <5>1. count[n] = 1 /\ state[u] # "BLOCKED"
          BY <1>3, <3>1, <4>1, <4>2 DEF HandedOverTo
        <5> QED
          BY <1>8, <1>9, <4>1, <4>2, <5>1
      <4>3. CASE owner'[n] \in R /\ count'[n] = 1
        BY <1>8, <3>1, <4>3
      <4> QED
        BY <2>1, <3>1, <4>1, <4>2, <4>3 DEF Unlocked
    <3> QED
      BY <3>1 DEF HandedOverTo
  <2>9. MutexBlocked'
    <3>1. ASSUME NEW y \in Threads, block'[y].type = "MUTEX"
          PROVE  /\ block'[y].by \in Mutexes /\ Awaits(y, block[y].by)' /\ block'[y] = block[y]
                 /\ owner'[block[y].by] # y
                 /\ state'[y] \notin {"READY", "RUNNING"}
                 /\ pc'[y] = "mutex_back" => current' # y
      <4>1. y \notin R /\ block'[y] = block[y]
        BY <1>8, <1>9, <3>1 DEF NotBlocked, Blocked
      <4>2. /\ block[y].by \in Mutexes /\ Awaits(y, block[y].by) /\ owner[block[y].by] # y
            /\ state[y] \notin {"READY", "RUNNING"} /\ (pc[y] = "mutex_back" => current # y)
        BY <1>3, <3>1, <4>1 DEF MutexBlocked
      <4>3. owner'[block[y].by] # y
        BY <1>6, <4>1, <4>2 DEF Released
      <4> QED
        BY <1>4, <1>9, <1>12, <4>1, <4>2, <4>3
    <3> QED
      BY <3>1 DEF MutexBlocked, Awaits
  <2>10. WakeupBlocked'
    <3>1. ASSUME NEW y \in Threads, block'[y].type = "WAKEUP"
          PROVE  /\ pc'[y] \in {"wakeup_yield", "wakeup_back"} /\ block'[y].by = arg'[y]
                 /\ state'[y] \notin {"READY", "RUNNING"}
                 /\ pc'[y] = "wakeup_back" => current' # y
      <4>1. y \notin R /\ block'[y] = block[y]
        BY <1>8, <1>9, <3>1 DEF NotBlocked, Blocked
      <4>2. /\ pc[y] \in {"wakeup_yield", "wakeup_back"} /\ block[y].by = arg[y]
            /\ state[y] \notin {"READY", "RUNNING"} /\ (pc[y] = "wakeup_back" => current # y)
        BY <1>3, <3>1, <4>1 DEF WakeupBlocked
      <4>3. y # t
        BY <4>2
      <4> QED
        BY <1>4, <1>9, <1>10, <4>1, <4>2, <4>3
    <3> QED
      BY <3>1 DEF WakeupBlocked
  <2>11. BlockedIsQueued'
    <3>1. ASSUME NEW y \in Threads, state'[y] = "BLOCKED", block'[y].type = "MUTEX"
          PROVE  y \in waiters'[block'[y].by]
      <4>1. y \notin R /\ block'[y] = block[y] /\ y # x /\ state[y] = "BLOCKED"
        BY <1>8, <1>9, <3>1
      <4>2. block[y].by \in Mutexes /\ y \in waiters[block[y].by]
        BY <1>3, <3>1, <4>1 DEF BlockedIsQueued, MutexBlocked
      <4> QED
        BY <1>7, <4>1, <4>2
    <3> QED
      BY <3>1 DEF BlockedIsQueued
  <2>12. ControlInvariantOf(Living)'
    <3>1. Living' = H
      BY <1>1, <1>2, <1>4 DEF Living, LifeTypes
    <3>2. H \in SUBSET Threads
      OBVIOUS
    <3> HIDE DEF H
    <3>3. ControlKept(H)
      BY <2>3, <2>4, <2>5, <2>6, <2>7, <2>8, <2>9, <2>10, <2>11 DEF ControlKept, ControlParts
    <3> QED
      BY <2>2, <3>1, <3>3, LivingKeep
  <2>13. WaiterBlocked'
    <3>1. ASSUME NEW w \in Wakeups, waiter'[w] # NULL, state'[waiter'[w]] = "BLOCKED"
          PROVE  block'[waiter'[w]].type = "WAKEUP"
      <4>1. waiter'[w] = waiter[w] /\ waiter[w] \in Threads
        BY <1>4, <1>a, <3>1
      <4>2. waiter[w] \notin R /\ block'[waiter[w]] = block[waiter[w]] /\ state[waiter[w]] = "BLOCKED"
        BY <1>8, <1>9, <3>1, <4>1
      <4> QED
        BY <1>1, <3>1, <4>1, <4>2 DEF WaiterBlocked
    <3> QED
      BY <3>1 DEF WaiterBlocked
  <2>14. FreshApart'
    <3>1. ASSUME NEW y \in Threads \ listed PROVE Apart(y)'
      <4>1. Apart(y) /\ ~Refers(y)
        BY <1>1 DEF FreshApart, Sound
      <4>2. y \notin R /\ y # x
        BY <1>8, <4>1 DEF Refers
      <4> QED
        BY <1>4, <1>9, <4>1, <4>2 DEF Apart
    <3> QED
      BY <1>4, <3>1 DEF FreshApart
  <2>15. FreeKnows'
    <3>1. ASSUME NEW u \in Threads, pc'[u] = "free" PROVE arg'[u] \in Threads
      BY <1>1, <1>10, <1>11, <3>1 DEF FreeKnows
    <3> QED
      BY <3>1 DEF FreeKnows
  <2> QED
    BY <1>5, <1>7, <2>12, <2>13, <2>14, <2>15 DEF LifeParts
<1>15. LifeTypes'
  BY <1>1, <1>4, <1>5 DEF LifeTypes
<1> QED
  BY <1>13, <1>14, <1>15 DEF LifeInvariant, Sound

\* The end of a termination, of another thread.
LEMMA LifeFreeOther ==
    ASSUME LifeInvariant, Sound, NEW t \in Threads, NEW x \in Threads,
           Runs(t), pc[t] = "free", arg[t] = x, free_other(t, x), UNCHANGED strayed
    PROVE  LifeInvariant'
<1>1. /\ LifeTypes /\ LifeParts /\ TypeOK /\ current = t /\ x # t
      /\ QueueIsLinear /\ OwnedOnce /\ OwnedListed /\ WaiterBlocked /\ FreshApart /\ FreeKnows
  BY DEF LifeInvariant, LifeParts, ControlInvariantOf, Runs, free_other
<1>2. PICK G \in SUBSET Threads : G = Living
  BY <1>1 DEF LifeTypes, Living
<1>3. /\ QueuedWaits /\ WaiterWaitsOrLost /\ HeldIsCountOf(G) /\ HandedOverTo(G)
      /\ MutexBlocked /\ WakeupBlocked /\ BlockedIsQueued /\ OneRunning /\ FrozenRunsIdle
  BY <1>1, <1>2 DEF LifeParts, ControlInvariantOf, ControlParts
<1>a. /\ state \in [AllThreads -> States] /\ block \in [Threads -> BlockRecord]
      /\ pc \in [Threads -> PCs] /\ arg \in [Threads -> Mutexes \cup Wakeups \cup Threads \cup {NULL}]
      /\ held \in [Threads -> [Mutexes -> Int]]
      /\ waiters \in [Mutexes -> SUBSET Threads] /\ waiter \in [Wakeups -> Threads \cup {NULL}]
      /\ fate \in [Threads -> Fates]
      /\ \A y \in Threads : y \in AllThreads /\ y # NULL
  BY <1>1, ThreadsAssumption DEF TypeOK, ThreadsType, MutexesType, WakeupsType, CallsType, AllThreads, LifeTypes
<1>4. /\ UNCHANGED <<priority, current, frozen, owned, owner, count, waiters, ahead, waiter, signalled, hung>>
      /\ state' = [state EXCEPT ![x] = "SUSPENDED"] /\ block' = [block EXCEPT ![x] = NotBlocked]
      /\ pc' = [pc EXCEPT ![t] = IF t \in killing THEN "kill" ELSE "app", ![x] = "app"]
      /\ held' = [held EXCEPT ![x] = [m \in Mutexes |-> 0]]
      /\ arg' = [arg EXCEPT ![t] = NULL, ![x] = NULL]
      /\ listed' = listed \ {x}
      /\ fate' = [fate EXCEPT ![x] = IF t \in stale /\ x \in listed THEN "reused" ELSE @]
  BY DEF free_other, Unlist, mutexVars, queueVars, wakeupVars
<1>b. UNCHANGED <<current, owned, owner, count, waiters, waiter>>
  BY <1>4
<1>5. /\ \A y \in Threads \ {t, x} : pc'[y] = pc[y] /\ arg'[y] = arg[y]
      /\ pc'[t] \in {"app", "kill"} /\ pc'[x] = "app"
      /\ \A y \in Threads \ {x} : /\ state'[y] = state[y] /\ block'[y] = block[y]
                                  /\ held'[y] = held[y] /\ fate'[y] = fate[y]
      /\ state'[x] = "SUSPENDED" /\ block'[x] = NotBlocked
      /\ fate'[x] \in {fate[x], "reused"}
  BY <1>1, <1>4, <1>a
<1>6. \A y \in Threads \ {x} : /\ \A n : (Awaits(y, n)' <=> Awaits(y, n)) /\ (Awaits(y, n) => y # t)
                               /\ pc'[y] = "lost" <=> pc[y] = "lost"
                               /\ pc'[y] = "mutex_back" <=> pc[y] = "mutex_back"
  BY <1>5 DEF Awaits
<1>7. KilledIsForgotten'
  <2>1. ASSUME NEW y \in Threads, fate'[y] = "clean"
        PROVE  ~Refers(y)' /\ (Leaving(y)' \/ Apart(y)')
    <3>1. fate[y] = "clean"
      BY <1>5, <2>1
    <3>2. ~Refers(y) /\ (Apart(y) \/ Leaving(y))
      BY <3>1, ForgottenRests DEF LifeInvariant
    <3>3. ~Refers(y)'
      BY <1>4, <3>2 DEF Refers
    <3>4. y # t
      BY <1>1, <3>2 DEF Apart, Leaving
    <3>5. CASE y = x
      BY <1>1, <1>b, <1>5, <3>3, <3>5 DEF Apart
    <3>6. CASE y # x
      <4>1. pc'[y] = pc[y] /\ arg'[y] = arg[y] /\ state'[y] = state[y] /\ current' = current
        BY <1>b, <1>5, <3>4, <3>6
      <4> QED
        BY <3>2, <3>3, <4>1 DEF Apart, Leaving
    <3> QED
      BY <3>5, <3>6
  <2> QED
    BY <2>1 DEF KilledIsForgotten, Apart
<1>8. ASSUME Sound' PROVE LifeParts'
  <2>1. ~Refers(x)
    BY <1>4, <1>8 DEF Sound, Refers
  <2>2. TypeOK'
    <3>1. ThreadsType'
      BY <1>1, <1>4, <1>a DEF TypeOK, ThreadsType, States, BlockRecord, BlockTypes, NotBlocked, Blocked
    <3>2. MutexesType' /\ WakeupsType'
      BY <1>1, <1>4 DEF TypeOK, MutexesType, WakeupsType
    <3>3. pc' \in [Threads -> PCs]
      BY <1>4, <1>a DEF PCs
    <3>4. CallsType'
      <4>1. held' \in [Threads -> [Mutexes -> Int]]
        BY <1>4, <1>a
      <4>2. arg' \in [Threads -> Mutexes \cup Wakeups \cup Threads \cup {NULL}]
        BY <1>4, <1>a
      <4> QED
        BY <3>3, <4>1, <4>2 DEF CallsType
    <3> QED
      BY <3>1, <3>2, <3>4 DEF TypeOK
  <2>3. OneRunning' /\ FrozenRunsIdle'
    BY <1>3, <1>4, <1>a DEF OneRunning, FrozenRunsIdle
  <2>5. QueuedWaits'
    <3>1. ASSUME NEW n \in Mutexes, NEW y \in waiters'[n]
          PROVE  /\ Awaits(y, n)'
                 /\ state'[y] \notin {"READY", "RUNNING"}
                 /\ pc'[y] = "mutex_back" => current' # y
      <4>1. y \in waiters[n] /\ y \in Threads /\ y # x
        BY <1>b, <1>a, <2>1, <3>1 DEF Refers
      <4>2. /\ Awaits(y, n) /\ state[y] \notin {"READY", "RUNNING"}
            /\ pc[y] = "mutex_back" => current # y
        BY <1>3, <4>1 DEF QueuedWaits
      <4>3. state'[y] = state[y] /\ current' = current /\ (pc'[y] = "mutex_back" <=> pc[y] = "mutex_back")
        BY <1>b, <1>5, <1>6, <4>1
      <4> QED
        BY <1>6, <4>1, <4>2, <4>3
    <3> QED
      BY <3>1 DEF QueuedWaits
  <2>6. WaiterWaitsOrLost'
    <3>1. ASSUME NEW w \in Wakeups, waiter'[w] # NULL
          PROVE  /\ pc'[waiter'[w]] \in {"wakeup_yield", "wakeup_back", "lost"}
                 /\ arg'[waiter'[w]] = w
      <4>1. waiter'[w] = waiter[w] /\ waiter[w] \in Threads /\ waiter[w] # x
        BY <1>4, <1>a, <2>1, <3>1 DEF Refers
      <4>2. pc[waiter[w]] \in {"wakeup_yield", "wakeup_back", "lost"} /\ arg[waiter[w]] = w
        BY <1>3, <3>1, <4>1 DEF WaiterWaitsOrLost
      <4> QED
        BY <1>5, <4>1, <4>2
    <3> QED
      BY <3>1 DEF WaiterWaitsOrLost
  <2> DEFINE H == G \ {x}
  <2>7. HeldIsCountOf(H)'
    <3>1. ASSUME NEW u \in H, NEW n \in Mutexes
          PROVE  \/ held'[u][n] = IF owner'[n] = u /\ ~Awaits(u, n)' THEN count'[n] ELSE 0
                 \/ pc'[u] = "lost" /\ held'[u][n] = 0
      <4>1. /\ u \in Threads \ {x} /\ held'[u] = held[u] /\ (pc'[u] = "lost" <=> pc[u] = "lost")
            /\ Awaits(u, n)' <=> Awaits(u, n)
        BY <1>5, <1>6
      <4>2. \/ held[u][n] = IF owner[n] = u /\ ~Awaits(u, n) THEN count[n] ELSE 0
            \/ pc[u] = "lost" /\ held[u][n] = 0
        BY <1>3 DEF HeldIsCountOf
      <4> QED
        BY <1>b, <4>1, <4>2
    <3> QED
      BY <3>1 DEF HeldIsCountOf
  <2>8. HandedOverTo(H)'
    <3>1. ASSUME NEW u \in H, NEW n \in Mutexes, Awaits(u, n)', owner'[n] = u
          PROVE  count'[n] = 1 /\ state'[u] # "BLOCKED"
      <4>1. u \in Threads \ {x} /\ Awaits(u, n)
        BY <1>6, <3>1
      <4> QED
        BY <1>3, <1>4, <1>5, <3>1, <4>1 DEF HandedOverTo
    <3> QED
      BY <3>1 DEF HandedOverTo
  <2>9. MutexBlocked'
    <3>1. ASSUME NEW y \in Threads, block'[y].type = "MUTEX"
          PROVE  /\ block'[y].by \in Mutexes /\ Awaits(y, block[y].by)' /\ block'[y] = block[y]
                 /\ owner'[block[y].by] # y
                 /\ state'[y] \notin {"READY", "RUNNING"}
                 /\ pc'[y] = "mutex_back" => current' # y
      <4>1. y # x /\ block'[y] = block[y]
        BY <1>5, <3>1 DEF NotBlocked, Blocked
      <4>2. /\ block[y].by \in Mutexes /\ Awaits(y, block[y].by) /\ owner[block[y].by] # y
            /\ state[y] \notin {"READY", "RUNNING"} /\ (pc[y] = "mutex_back" => current # y)
        BY <1>3, <3>1, <4>1 DEF MutexBlocked
      <4>3. state'[y] = state[y] /\ current' = current /\ (pc'[y] = "mutex_back" <=> pc[y] = "mutex_back")
        BY <1>b, <1>5, <1>6, <4>1
      <4>4. Awaits(y, block[y].by)'
        BY <1>5, <4>1, <4>2 DEF Awaits
      <4> QED
        BY <1>b, <4>1, <4>2, <4>3, <4>4
    <3> QED
      BY <3>1 DEF MutexBlocked, Awaits
  <2>10. WakeupBlocked'
    <3>1. ASSUME NEW y \in Threads, block'[y].type = "WAKEUP"
          PROVE  /\ pc'[y] \in {"wakeup_yield", "wakeup_back"} /\ block'[y].by = arg'[y]
                 /\ state'[y] \notin {"READY", "RUNNING"}
                 /\ pc'[y] = "wakeup_back" => current' # y
      <4>1. y # x /\ block'[y] = block[y]
        BY <1>5, <3>1 DEF NotBlocked, Blocked
      <4>2. /\ pc[y] \in {"wakeup_yield", "wakeup_back"} /\ block[y].by = arg[y]
            /\ state[y] \notin {"READY", "RUNNING"} /\ (pc[y] = "wakeup_back" => current # y)
        BY <1>3, <3>1, <4>1 DEF WakeupBlocked
      <4>3. y # t
        BY <4>2
      <4>4. state'[y] = state[y] /\ current' = current /\ pc'[y] = pc[y] /\ arg'[y] = arg[y]
        BY <1>b, <1>5, <4>1, <4>3
      <4> QED
        BY <4>1, <4>2, <4>4
    <3> QED
      BY <3>1 DEF WakeupBlocked
  <2>11. BlockedIsQueued'
    BY <1>3, <1>4, <1>5 DEF BlockedIsQueued
  <2>12. ControlInvariantOf(Living)'
    <3>1. Living' = H
      BY <1>1, <1>2, <1>4, <1>5 DEF Living, LifeTypes
    <3>2. H \in SUBSET Threads
      OBVIOUS
    <3> HIDE DEF H
    <3>3. ControlKept(H)
      BY <2>3, <2>5, <2>6, <2>7, <2>8, <2>9, <2>10, <2>11 DEF ControlKept, ControlParts
    <3> QED
      BY <2>2, <3>1, <3>3, LivingKeep
  <2>13. QueueIsLinear' /\ OwnedOnce' /\ OwnedListed'
    BY <1>1, <1>4 DEF QueueIsLinear, OwnedOnce, OwnedListed
  <2>14. WaiterBlocked'
    <3>1. ASSUME NEW w \in Wakeups, waiter'[w] # NULL, state'[waiter'[w]] = "BLOCKED"
          PROVE  block'[waiter'[w]].type = "WAKEUP"
      <4>1. waiter'[w] = waiter[w] /\ waiter[w] \in Threads /\ waiter[w] # x
        BY <1>4, <1>a, <2>1, <3>1 DEF Refers
      <4> QED
        BY <1>1, <1>5, <3>1, <4>1 DEF WaiterBlocked
    <3> QED
      BY <3>1 DEF WaiterBlocked
  <2>15. FreshApart'
    <3>1. ASSUME NEW y \in Threads \ listed' PROVE Apart(y)'
      <4>1. y # x => Apart(y)
        BY <1>1, <1>4 DEF FreshApart
      <4> QED
        BY <1>1, <1>4, <1>5, <4>1 DEF Apart
    <3> QED
      BY <3>1 DEF FreshApart
  <2>16. FreeKnows'
    BY <1>1, <1>5 DEF FreeKnows
  <2> QED
    BY <2>12, <2>13, <2>14, <2>15, <2>16 DEF LifeParts
<1>9. LifeTypes'
  <2>1. fate' \in [Threads -> Fates]
    BY <1>4, <1>a DEF Fates
  <2> QED
    BY <1>1, <1>4, <2>1 DEF LifeTypes
<1> QED
  BY <1>7, <1>8, <1>9 DEF LifeInvariant

\* What a thread that ends its own termination leaves to the scheduler.
Parted(t, st, bl) ==
    /\ st[t] = "SUSPENDED" /\ bl[t] = NotBlocked
    /\ \A y \in Threads \ {t} :
         \/ y = waiter[dbgwakeup] /\ st[y] = "READY" /\ bl[y] = NotBlocked
         \/ st[y] \in {state[y], "SUSPENDED"} /\ bl[y] = block[y]

LEMMA LeaveSwitches ==
    ASSUME TypeOK, OneRunning, NEW t \in Threads, current = t, leave_thread(t)
    PROVE  /\ \E st \in [AllThreads -> States] : \E bl, sg, E :
                /\ Parted(t, st, bl) /\ E \in SUBSET Threads /\ SwitchedFrom(st, bl, frozen, E)
                /\ scheduler_switch(st, bl, sg, NULL, NULL, frozen)
           /\ SwitchResult /\ state'[t] = "SUSPENDED" /\ current' # t
<1>a. PICK ov \in BOOLEAN :
         LET st == [StackState(ov, state) EXCEPT ![t] = "SUSPENDED"]
             bl == [StackBlock(ov, block) EXCEPT ![t] = NotBlocked]
             sg == IF ov THEN [signalled EXCEPT ![dbgwakeup] = TRUE] ELSE signalled
         IN  \E E \in SUBSET Overdue(st, bl, frozen) :
             \E next \in Eligible(Expired(st, E), NULL, NULL, frozen) :
                 switch_to(st, bl, sg, frozen, FALSE, E, next)
  BY Zenon DEF leave_thread
<1> DEFINE st == [StackState(ov, state) EXCEPT ![t] = "SUSPENDED"]
           bl == [StackBlock(ov, block) EXCEPT ![t] = NotBlocked]
           sg == IF ov THEN [signalled EXCEPT ![dbgwakeup] = TRUE] ELSE signalled
<1>b. \E E \in SUBSET Overdue(st, bl, frozen) :
      \E next \in Eligible(Expired(st, E), NULL, NULL, frozen) :
        switch_to(st, bl, sg, frozen, FALSE, E, next)
  BY <1>a, Zenon
<1>c. /\ state \in [AllThreads -> States] /\ block \in [Threads -> BlockRecord]
      /\ signalled \in [Wakeups -> BOOLEAN] /\ frozen \in BOOLEAN
      /\ waiter[dbgwakeup] \in Threads \cup {NULL}
      /\ \A y \in Threads : y \in AllThreads /\ y # idle
  BY ThreadsAssumption, LifeAssumption DEF TypeOK, ThreadsType, WakeupsType, AllThreads
<1>1. st \in [AllThreads -> States] /\ sg \in [Wakeups -> BOOLEAN]
  BY <1>c DEF StackState, States
<1>2. bl \in [Threads -> BlockRecord]
  BY <1>c DEF StackBlock, BlockRecord, BlockTypes, NotBlocked, Blocked
<1>3. Parted(t, st, bl)
  <2>1. st[t] = "SUSPENDED" /\ bl[t] = NotBlocked
    BY <1>c DEF StackState, StackBlock
  <2>2. ASSUME NEW y \in Threads \ {t}
        PROVE  \/ y = waiter[dbgwakeup] /\ st[y] = "READY" /\ bl[y] = NotBlocked
               \/ st[y] \in {state[y], "SUSPENDED"} /\ bl[y] = block[y]
    BY <1>c DEF StackState, StackBlock
  <2> QED
    BY <2>1, <2>2 DEF Parted
<1>4. \A y \in AllThreads : st[y] # "RUNNING" \/ y = current
  BY <1>c, ThreadsAssumption DEF StackState, OneRunning, AllThreads
<1>5. st[t] = "SUSPENDED"
  BY <1>3 DEF Parted
<1> HIDE DEF st, bl, sg
<1>6. Preempt(st) = st /\ StackState(FALSE, st) = st /\ StackBlock(FALSE, bl) = bl
  BY <1>5 DEF Preempt, StackState, StackBlock
<1>7. PICK E \in SUBSET Overdue(st, bl, frozen) :
        \E next \in Eligible(Expired(st, E), NULL, NULL, frozen) :
          switch_to(st, bl, sg, frozen, FALSE, E, next)
  BY <1>b
<1>8. PICK next \in Eligible(Expired(st, E), NULL, NULL, frozen) :
        switch_to(st, bl, sg, frozen, FALSE, E, next)
  BY <1>7
<1>9. scheduler_switch(st, bl, sg, NULL, NULL, frozen)
  <2>1. FALSE \in (IF current \in MayOverflow THEN BOOLEAN ELSE {FALSE})
    OBVIOUS
  <2>2. E \in SUBSET Overdue(StackState(FALSE, Preempt(st)), StackBlock(FALSE, bl), frozen)
    BY <1>6, <1>7
  <2>3. next \in Eligible(Expired(StackState(FALSE, Preempt(st)), E), NULL, NULL, frozen)
    BY <1>6, <1>8
  <2>4. \E n \in Eligible(Expired(StackState(FALSE, Preempt(st)), E), NULL, NULL, frozen) :
          switch_to(st, bl, sg, frozen, FALSE, E, n)
    BY <1>8, <2>3
  <2>5. \E F \in SUBSET Overdue(StackState(FALSE, Preempt(st)), StackBlock(FALSE, bl), frozen) :
        \E n \in Eligible(Expired(StackState(FALSE, Preempt(st)), F), NULL, NULL, frozen) :
          switch_to(st, bl, sg, frozen, FALSE, F, n)
    BY <2>2, <2>4
  <2>6. \E ov2 \in (IF current \in MayOverflow THEN BOOLEAN ELSE {FALSE}) :
        \E F \in SUBSET Overdue(StackState(ov2, Preempt(st)), StackBlock(ov2, bl), frozen) :
        \E n \in Eligible(Expired(StackState(ov2, Preempt(st)), F), NULL, NULL, frozen) :
          switch_to(st, bl, sg, frozen, ov2, F, n)
    BY <2>1, <2>5
  <2> QED
    BY <2>6 DEF scheduler_switch
<1>10. NULL \in Threads \cup {NULL}
  OBVIOUS
<1>11. SwitchResult
  <2>1. frozen \in BOOLEAN
    BY <1>c
  <2> QED
    BY ONLY TypeOK, <1>1, <1>2, <1>9, <1>10, <2>1, SwitchType
<1>12. \E F \in SUBSET Threads : SwitchedFrom(st, bl, frozen, F)
  BY <1>1, <1>2, <1>4, <1>9, <1>10, <1>c, SwitchFrom
<1>13. state'[t] = "SUSPENDED" /\ current' # t
  <2>1. t \notin E
    BY <1>5, <1>7 DEF Overdue
  <2>2. Expired(st, E)[t] = "SUSPENDED" /\ Expired(st, E) = [y \in AllThreads |-> Expired(st, E)[y]]
    BY <1>5, <1>c, <2>1 DEF Expired
  <2>3. next # t
    BY <1>8, <1>c, <2>2 DEF Eligible
  <2>4. state' = [Expired(st, E) EXCEPT ![next] = "RUNNING"] /\ current' = next
    BY <1>6, <1>8 DEF switch_to
  <2> HIDE DEF Expired
  <2> QED
    BY <1>c, <2>2, <2>3, <2>4
<1> QED
  BY <1>1, <1>3, <1>9, <1>11, <1>12, <1>13

\* The end of a thread's own termination.
LEMMA LifeLeave ==
    ASSUME LifeInvariant, Sound, NEW t \in Threads,
           Runs(t), pc[t] = "free", arg[t] = t, leave_thread(t), UNCHANGED strayed
    PROVE  LifeInvariant'
<1>1. /\ LifeTypes /\ LifeParts /\ TypeOK /\ current = t
      /\ QueueIsLinear /\ OwnedOnce /\ OwnedListed /\ WaiterBlocked /\ FreshApart /\ FreeKnows
  BY DEF LifeInvariant, LifeParts, ControlInvariantOf, Runs
<1>2. PICK G \in SUBSET Threads : G = Living
  BY <1>1 DEF LifeTypes, Living
<1>3. /\ QueuedWaits /\ WaiterWaitsOrLost /\ HeldIsCountOf(G) /\ HandedOverTo(G)
      /\ MutexBlocked /\ WakeupBlocked /\ BlockedIsQueued /\ OneRunning /\ FrozenRunsIdle
  BY <1>1, <1>2 DEF LifeParts, ControlInvariantOf, ControlParts
<1>a. /\ waiters \in [Mutexes -> SUBSET Threads] /\ waiter \in [Wakeups -> Threads \cup {NULL}]
      /\ pc \in [Threads -> PCs] /\ arg \in [Threads -> Mutexes \cup Wakeups \cup Threads \cup {NULL}]
      /\ fate \in [Threads -> Fates] /\ \A y \in Threads : y # NULL
      /\ waiter[dbgwakeup] \in Threads \cup {NULL}
  BY <1>1, ThreadsAssumption, LifeAssumption DEF TypeOK, MutexesType, WakeupsType, CallsType, LifeTypes
<1>b. UNCHANGED <<priority, owned, owner, count, waiter, held>>
  BY DEF leave_thread, mutexVars
<1>4. /\ \E st \in [AllThreads -> States] : \E bl, sg, E :
           /\ Parted(t, st, bl) /\ E \in SUBSET Threads /\ SwitchedFrom(st, bl, frozen, E)
           /\ scheduler_switch(st, bl, sg, NULL, NULL, frozen)
      /\ SwitchResult /\ state'[t] = "SUSPENDED" /\ current' # t
  BY <1>1, <1>3, LeaveSwitches
<1>5. PICK st, bl, sg, E :
        /\ st \in [AllThreads -> States] /\ Parted(t, st, bl) /\ E \in SUBSET Threads /\ SwitchedFrom(st, bl, frozen, E)
        /\ scheduler_switch(st, bl, sg, NULL, NULL, frozen)
  BY <1>4
<1>6. /\ pc' = [pc EXCEPT ![t] = "app"] /\ arg' = [arg EXCEPT ![t] = NULL]
      /\ listed' = listed \ {t}
      /\ fate' = [fate EXCEPT ![t] = IF t \in stale /\ t \in listed THEN "reused" ELSE @]
  BY DEF leave_thread, Unlist
<1>7. /\ \A y \in Threads \ {t} : pc'[y] = pc[y] /\ arg'[y] = arg[y] /\ fate'[y] = fate[y]
      /\ pc'[t] = "app" /\ fate'[t] \in {fate[t], "reused"}
      /\ \A y \in Threads : \A n : (Awaits(y, n) => y # t) /\ (Awaits(y, n)' <=> Awaits(y, n))
  BY <1>6, <1>a DEF Awaits
<1>8. /\ \A n \in Mutexes : waiters'[n] = waiters[n] \ E
      /\ QueueIsLinear'
  <2>1. PICK F : mutex_remove_from_queue(F)
    BY <1>5, SwitchDequeues
  <2> QED
    BY <1>1, <1>5, <2>1, RemoveKeepsLinear DEF SwitchedFrom
\* What the others find after the switch.
<1>9. ASSUME NEW y \in Threads \ {t}
      PROVE  /\ state'[y] = "BLOCKED" =>
                  state[y] = "BLOCKED" /\ block'[y] = block[y] /\ y \notin E
             /\ block'[y].type \in {"MUTEX", "WAKEUP"} =>
                  /\ block'[y] = block[y]
                  /\ state[y] \notin {"READY", "RUNNING"} =>
                       state'[y] \notin {"READY", "RUNNING"} /\ current' # y
  <2>1. \/ y = waiter[dbgwakeup] /\ st[y] = "READY" /\ bl[y] = NotBlocked
        \/ st[y] \in {state[y], "SUSPENDED"} /\ bl[y] = block[y]
    BY <1>5 DEF Parted
  <2>2. state'[y] = "BLOCKED" => y \notin E /\ st[y] = "BLOCKED" /\ block'[y] = bl[y]
    BY <1>5 DEF SwitchedFrom
  <2>3. block'[y].type \in {"MUTEX", "WAKEUP"} =>
          /\ block'[y] = bl[y]
          /\ st[y] \notin {"READY", "RUNNING"} => state'[y] \notin {"READY", "RUNNING"} /\ current' # y
    BY <1>5, SwitchFacts
  <2> QED
    BY <2>1, <2>2, <2>3 DEF NotBlocked, Blocked
<1>10. ASSUME NEW y \in Threads, ~Refers(y), Apart(y) PROVE Apart(y)'
  <2>1. y # t /\ y # waiter[dbgwakeup]
    BY <1>1, <1>10, LifeAssumption DEF Apart, Refers
  <2>2. st[y] = "SUSPENDED"
    BY <1>5, <1>10, <2>1 DEF Parted, Apart
  <2>3. NULL \in Threads \cup {NULL}
    OBVIOUS
  <2> QED
    BY <1>1, <1>5, <2>1, <2>2, <2>3, SwitchLeaves DEF Apart
<1>11. KilledIsForgotten'
  <2>1. ASSUME NEW y \in Threads, fate'[y] = "clean"
        PROVE  ~Refers(y)' /\ (Leaving(y)' \/ Apart(y)')
    <3>1. fate[y] = "clean"
      BY <1>7, <2>1
    <3>2. ~Refers(y) /\ (Apart(y) \/ Leaving(y))
      BY <3>1, ForgottenRests DEF LifeInvariant
    <3>3. ~Refers(y)'
      BY <1>b, <1>8, <3>2 DEF Refers
    <3>4. y = t => Apart(y)'
      BY <1>4 DEF Apart
    <3>5. y # t /\ Leaving(y) => Leaving(y)'
      BY <1>7 DEF Leaving
    <3> QED
      BY <1>10, <3>2, <3>3, <3>4, <3>5
  <2> QED
    BY <2>1 DEF KilledIsForgotten, Apart
<1>12. ASSUME Sound' PROVE LifeParts'
  <2>1. TypeOK'
    <3>1. ThreadsType'
      BY <1>1, <1>4, <1>b DEF TypeOK, ThreadsType, SwitchResult
    <3>2. MutexesType' /\ WakeupsType'
      BY <1>1, <1>4, <1>b DEF TypeOK, MutexesType, WakeupsType, SwitchResult
    <3>3. pc' \in [Threads -> PCs] /\ arg' \in [Threads -> Mutexes \cup Wakeups \cup Threads \cup {NULL}]
      BY <1>6, <1>a DEF PCs
    <3>4. CallsType'
      BY <1>1, <1>b, <3>3 DEF TypeOK, CallsType
    <3> QED
      BY <3>1, <3>2, <3>4 DEF TypeOK
  <2>2. OneRunning' /\ FrozenRunsIdle'
    BY <1>5 DEF SwitchedFrom, OneRunning, FrozenRunsIdle
  <2>3. QueuedWaits'
    <3>1. ASSUME NEW n \in Mutexes, NEW y \in waiters'[n]
          PROVE  /\ Awaits(y, n)'
                 /\ state'[y] \notin {"READY", "RUNNING"}
                 /\ pc'[y] = "mutex_back" => current' # y
      <4>1. y \in waiters[n] /\ y \notin E /\ y \in Threads
        BY <1>8, <1>a, <3>1
      <4>2. Awaits(y, n) /\ state[y] \notin {"READY", "RUNNING"}
        BY <1>3, <4>1 DEF QueuedWaits
      <4>3. \A w \in Wakeups : y # waiter[w]
        BY <1>1, <1>3, <4>1, QueuedIsNoWaiter
      <4>4. st[y] \notin {"READY", "RUNNING"}
        BY <1>5, <1>7, <4>1, <4>2, <4>3, LifeAssumption DEF Parted
      <4>5. state'[y] \notin {"READY", "RUNNING"}
        BY <1>5, <4>1, <4>3, <4>4, SwitchFacts
      <4>6. current' # y
        BY <1>5, <4>1, <4>5 DEF SwitchedFrom
      <4> QED
        BY <1>7, <4>1, <4>2, <4>5, <4>6
    <3> QED
      BY <3>1 DEF QueuedWaits
  <2>4. WaiterWaitsOrLost'
    <3>1. ASSUME NEW w \in Wakeups, waiter'[w] # NULL
          PROVE  /\ pc'[waiter'[w]] \in {"wakeup_yield", "wakeup_back", "lost"}
                 /\ arg'[waiter'[w]] = w
      <4>1. waiter'[w] = waiter[w] /\ waiter[w] \in Threads
        BY <1>b, <1>a, <3>1
      <4>2. pc[waiter[w]] \in {"wakeup_yield", "wakeup_back", "lost"} /\ arg[waiter[w]] = w
        BY <1>3, <3>1, <4>1 DEF WaiterWaitsOrLost
      <4>3. waiter[w] # t
        BY <4>2
      <4> QED
        BY <1>7, <4>1, <4>2, <4>3
    <3> QED
      BY <3>1 DEF WaiterWaitsOrLost
  <2> DEFINE H == G \ {t}
  <2>5. HeldIsCountOf(H)'
    <3>1. ASSUME NEW u \in H, NEW n \in Mutexes
          PROVE  \/ held'[u][n] = IF owner'[n] = u /\ ~Awaits(u, n)' THEN count'[n] ELSE 0
                 \/ pc'[u] = "lost" /\ held'[u][n] = 0
      <4>1. pc'[u] = pc[u] /\ (Awaits(u, n)' <=> Awaits(u, n))
        BY <1>7
      <4>2. \/ held[u][n] = IF owner[n] = u /\ ~Awaits(u, n) THEN count[n] ELSE 0
            \/ pc[u] = "lost" /\ held[u][n] = 0
        BY <1>3 DEF HeldIsCountOf
      <4> QED
        BY <1>b, <4>1, <4>2
    <3> QED
      BY <3>1 DEF HeldIsCountOf
  <2>6. HandedOverTo(H)'
    <3>1. ASSUME NEW u \in H, NEW n \in Mutexes, Awaits(u, n)', owner'[n] = u
          PROVE  count'[n] = 1 /\ state'[u] # "BLOCKED"
      <4>1. count[n] = 1 /\ state[u] # "BLOCKED"
        BY <1>3, <1>7, <1>b, <3>1 DEF HandedOverTo
      <4> QED
        BY <1>9, <1>b, <4>1
    <3> QED
      BY <3>1 DEF HandedOverTo
  <2>a. ASSUME NEW y \in Threads, block'[y].type \in {"MUTEX", "WAKEUP"} PROVE y # t
    <3>1. block'[t].type \in {"MUTEX", "WAKEUP"} => block'[t] = bl[t]
      BY <1>5, SwitchFacts
    <3> QED
      BY <1>5, <2>a, <3>1 DEF Parted, NotBlocked, Blocked
  <2>7. MutexBlocked'
    <3>1. ASSUME NEW y \in Threads, block'[y].type = "MUTEX"
          PROVE  /\ block'[y].by \in Mutexes /\ Awaits(y, block[y].by)' /\ block'[y] = block[y]
                 /\ owner'[block[y].by] # y
                 /\ state'[y] \notin {"READY", "RUNNING"}
                 /\ pc'[y] = "mutex_back" => current' # y
      <4>1. y # t
        BY <2>a, <3>1
      <4>2. block'[y] = block[y]
        BY <1>9, <3>1, <4>1
      <4>3. /\ block[y].by \in Mutexes /\ Awaits(y, block[y].by) /\ owner[block[y].by] # y
            /\ state[y] \notin {"READY", "RUNNING"}
        BY <1>3, <3>1, <4>2 DEF MutexBlocked
      <4>4. state'[y] \notin {"READY", "RUNNING"} /\ current' # y
        BY <1>9, <3>1, <4>1, <4>3
      <4>5. Awaits(y, block[y].by)'
        BY <1>7, <4>1, <4>2, <4>3 DEF Awaits
      <4> QED
        BY <1>b, <4>2, <4>3, <4>4, <4>5
    <3> QED
      BY <3>1 DEF MutexBlocked, Awaits
  <2>8. WakeupBlocked'
    <3>1. ASSUME NEW y \in Threads, block'[y].type = "WAKEUP"
          PROVE  /\ pc'[y] \in {"wakeup_yield", "wakeup_back"} /\ block'[y].by = arg'[y]
                 /\ state'[y] \notin {"READY", "RUNNING"}
                 /\ pc'[y] = "wakeup_back" => current' # y
      <4>1. y # t
        BY <2>a, <3>1
      <4>2. block'[y] = block[y]
        BY <1>9, <3>1, <4>1
      <4>3. /\ pc[y] \in {"wakeup_yield", "wakeup_back"} /\ block[y].by = arg[y]
            /\ state[y] \notin {"READY", "RUNNING"}
        BY <1>3, <3>1, <4>2 DEF WakeupBlocked
      <4>4. state'[y] \notin {"READY", "RUNNING"} /\ current' # y
        BY <1>9, <3>1, <4>1, <4>3
      <4> QED
        BY <1>7, <4>1, <4>2, <4>3, <4>4
    <3> QED
      BY <3>1 DEF WakeupBlocked
  <2>9. BlockedIsQueued'
    <3>1. ASSUME NEW y \in Threads, state'[y] = "BLOCKED", block'[y].type = "MUTEX"
          PROVE  y \in waiters'[block'[y].by]
      <4>1. state[y] = "BLOCKED" /\ block'[y] = block[y] /\ y \notin E
        BY <1>4, <1>9, <3>1
      <4>2. block[y].by \in Mutexes /\ y \in waiters[block[y].by]
        BY <1>3, <3>1, <4>1 DEF BlockedIsQueued, MutexBlocked
      <4> QED
        BY <1>8, <4>1, <4>2
    <3> QED
      BY <3>1 DEF BlockedIsQueued
  <2>10. ControlInvariantOf(Living)'
    <3>1. Living' = H
      BY <1>1, <1>2, <1>6, <1>7 DEF Living, LifeTypes
    <3>2. H \in SUBSET Threads
      OBVIOUS
    <3> HIDE DEF H
    <3>3. ControlKept(H)
      BY <2>2, <2>3, <2>4, <2>5, <2>6, <2>7, <2>8, <2>9 DEF ControlKept, ControlParts
    <3> QED
      BY <2>1, <3>1, <3>3, LivingKeep
  <2>11. OwnedOnce' /\ OwnedListed'
    BY <1>1, <1>b DEF OwnedOnce, OwnedListed
  <2>12. WaiterBlocked'
    <3>1. ASSUME NEW w \in Wakeups, waiter'[w] # NULL, state'[waiter'[w]] = "BLOCKED"
          PROVE  block'[waiter'[w]].type = "WAKEUP"
      <4>1. waiter'[w] = waiter[w] /\ waiter[w] \in Threads /\ waiter[w] # t
        BY <1>4, <1>b, <1>a, <3>1
      <4>2. state[waiter[w]] = "BLOCKED" /\ block'[waiter[w]] = block[waiter[w]]
        BY <1>9, <3>1, <4>1
      <4> QED
        BY <1>1, <4>1, <4>2, <1>a DEF WaiterBlocked
    <3> QED
      BY <3>1 DEF WaiterBlocked
  <2>13. FreshApart'
    <3>1. ASSUME NEW y \in Threads \ listed' PROVE Apart(y)'
      <4>1. y # t => Apart(y) /\ ~Refers(y)
        BY <1>1, <1>6 DEF FreshApart, Sound
      <4> QED
        BY <1>4, <1>10, <4>1 DEF Apart
    <3> QED
      BY <3>1 DEF FreshApart
  <2>14. FreeKnows'
    BY <1>1, <1>7 DEF FreeKnows
  <2> QED
    BY <1>8, <2>10, <2>11, <2>12, <2>13, <2>14 DEF LifeParts
<1>13. LifeTypes'
  <2>1. fate' \in [Threads -> Fates]
    BY <1>6, <1>a DEF Fates
  <2> QED
    BY <1>1, <1>6, <2>1 DEF LifeTypes
<1> QED
  BY <1>11, <1>12, <1>13 DEF LifeInvariant

\* A thread is created.
LEMMA LifeCreate ==
    ASSUME LifeInvariant, Sound, NEW t \in Threads, NEW x \in Threads, NEW run \in BOOLEAN,
           thread_create(t, x, run)
    PROVE  LifeInvariant'
<1>1. /\ LifeTypes /\ LifeParts /\ TypeOK /\ x \in Threads \ listed /\ ~Refers(x) /\ Apart(x)
      /\ QueueIsLinear /\ OwnedOnce /\ OwnedListed /\ WaiterBlocked /\ FreshApart /\ FreeKnows
  BY DEF LifeInvariant, LifeParts, ControlInvariantOf, thread_create, Sound, FreshApart
<1>2. PICK G \in SUBSET Threads : G = Living
  BY <1>1 DEF LifeTypes, Living
<1>3. /\ QueuedWaits /\ WaiterWaitsOrLost /\ HeldIsCountOf(G) /\ HandedOverTo(G)
      /\ MutexBlocked /\ WakeupBlocked /\ BlockedIsQueued /\ OneRunning /\ FrozenRunsIdle
  BY <1>1, <1>2 DEF LifeParts, ControlInvariantOf, ControlParts
<1>a. /\ state \in [AllThreads -> States] /\ block \in [Threads -> BlockRecord]
      /\ priority \in [Threads -> Prios]
      /\ pc \in [Threads -> PCs] /\ arg \in [Threads -> Mutexes \cup Wakeups \cup Threads \cup {NULL}]
      /\ held \in [Threads -> [Mutexes -> Int]] /\ count \in [Mutexes -> Nat]
      /\ owned \in [Threads -> Seq(Mutexes)] /\ ahead \in [Threads -> SUBSET Threads]
      /\ waiters \in [Mutexes -> SUBSET Threads] /\ waiter \in [Wakeups -> Threads \cup {NULL}]
      /\ fate \in [Threads -> Fates]
      /\ \A y \in Threads : y \in AllThreads /\ y # NULL
  BY <1>1, ThreadsAssumption DEF TypeOK, ThreadsType, MutexesType, WakeupsType, CallsType, AllThreads, LifeTypes
<1>b. UNCHANGED <<current, frozen, owner, count, waiters, waiter, signalled, hung, strayed>>
  BY DEF thread_create, wakeupVars
<1>4. /\ listed' = listed \cup {x}
      /\ state' = [state EXCEPT ![x] = IF run THEN "READY" ELSE "SUSPENDED"]
      /\ block' = [block EXCEPT ![x] = NotBlocked]
      /\ \E p \in Prios : priority' = [priority EXCEPT ![x] = p]
      /\ owned' = [owned EXCEPT ![x] = << >>]
      /\ ahead' = [ahead EXCEPT ![x] = {}]
      /\ pc' = [pc EXCEPT ![x] = "app"] /\ arg' = [arg EXCEPT ![x] = NULL]
      /\ held' = [held EXCEPT ![x] = [m \in Mutexes |-> 0]]
      /\ fate' = [fate EXCEPT ![x] = "none"]
  BY DEF thread_create
<1>5. \A y \in Threads \ {x} : /\ state'[y] = state[y] /\ block'[y] = block[y] /\ owned'[y] = owned[y]
                               /\ pc'[y] = pc[y] /\ arg'[y] = arg[y] /\ held'[y] = held[y]
                               /\ fate'[y] = fate[y]
  BY <1>4, <1>a
<1>6. /\ state'[x] \in {"READY", "SUSPENDED"} /\ block'[x] = NotBlocked /\ owned'[x] = << >>
      /\ pc'[x] = "app" /\ \A n \in Mutexes : held'[x][n] = 0
      /\ fate'[x] = "none"
  BY <1>4, <1>a
<1>7. /\ \A n \in Mutexes : x \notin waiters[n] /\ (owner[n] = x => count[n] = 0)
      /\ \A w \in Wakeups : waiter[w] # x
  BY <1>1, <1>a DEF Refers
<1>8. KilledIsForgotten'
  <2>1. ASSUME NEW y \in Threads, fate'[y] = "clean"
        PROVE  ~Refers(y)' /\ (Leaving(y)' \/ Apart(y)')
    <3>1. y # x /\ fate[y] = "clean"
      BY <1>5, <1>6, <2>1
    <3>2. ~Refers(y) /\ (Apart(y) \/ Leaving(y))
      BY <3>1, ForgottenRests DEF LifeInvariant
    <3> QED
      BY <1>b, <1>5, <3>1, <3>2 DEF Refers, Apart, Leaving
  <2> QED
    BY <2>1 DEF KilledIsForgotten, Apart
<1>9. TypeOK'
  <2>1. ThreadsType'
    BY <1>1, <1>4, <1>a, <1>b DEF TypeOK, ThreadsType, States, BlockRecord, BlockTypes, NotBlocked, Blocked
  <2>2. owned' \in [Threads -> Seq(Mutexes)] /\ ahead' \in [Threads -> SUBSET Threads]
    BY <1>4, <1>a
  <2>3. MutexesType' /\ WakeupsType'
    BY <1>1, <1>b, <2>2 DEF TypeOK, MutexesType, WakeupsType
  <2>4. held' \in [Threads -> [Mutexes -> Int]]
    BY <1>4, <1>a
  <2>5. pc' \in [Threads -> PCs] /\ arg' \in [Threads -> Mutexes \cup Wakeups \cup Threads \cup {NULL}]
    BY <1>4, <1>a DEF PCs
  <2>6. CallsType'
    BY <2>4, <2>5 DEF CallsType
  <2> QED
    BY <2>1, <2>3, <2>6 DEF TypeOK
<1>10. OneRunning' /\ FrozenRunsIdle'
  BY <1>3, <1>4, <1>a, <1>b DEF OneRunning, FrozenRunsIdle
<1>11. QueuedWaits'
  <2>1. ASSUME NEW n \in Mutexes, NEW y \in waiters'[n] PROVE y \in Threads \ {x} /\ y \in waiters[n]
    BY <1>b, <1>7, <1>a
  <2> QED
    BY <1>3, <1>b, <1>5, <2>1 DEF QueuedWaits, Awaits
<1>12. WaiterWaitsOrLost'
  <2>1. \A w \in Wakeups : waiter'[w] # NULL => waiter'[w] = waiter[w] /\ waiter[w] \in Threads \ {x}
    BY <1>b, <1>7, <1>a
  <2> QED
    BY <1>3, <1>5, <2>1 DEF WaiterWaitsOrLost
<1> DEFINE H == G \cup {x}
<1>13. HeldIsCountOf(H)'
  <2>1. ASSUME NEW u \in H, NEW n \in Mutexes
        PROVE  \/ held'[u][n] = IF owner'[n] = u /\ ~Awaits(u, n)' THEN count'[n] ELSE 0
               \/ pc'[u] = "lost" /\ held'[u][n] = 0
    <3>1. CASE u = x
      BY <1>6, <1>7, <1>b, <3>1
    <3>2. CASE u # x
      <4>1. \/ held[u][n] = IF owner[n] = u /\ ~Awaits(u, n) THEN count[n] ELSE 0
            \/ pc[u] = "lost" /\ held[u][n] = 0
        BY <1>3, <3>2 DEF HeldIsCountOf
      <4>2. Awaits(u, n)' <=> Awaits(u, n)
        BY <1>5, <3>2 DEF Awaits
      <4> QED
        BY <1>b, <1>5, <3>2, <4>1, <4>2
    <3> QED
      BY <3>1, <3>2
  <2> QED
    BY <2>1 DEF HeldIsCountOf
<1>14. HandedOverTo(H)'
  <2>1. ASSUME NEW u \in H, NEW n \in Mutexes, Awaits(u, n)', owner'[n] = u
        PROVE  count'[n] = 1 /\ state'[u] # "BLOCKED"
    <3>1. u \in G /\ u # x /\ Awaits(u, n)
      BY <1>5, <1>6, <2>1 DEF Awaits
    <3> QED
      BY <1>3, <1>b, <1>5, <2>1, <3>1 DEF HandedOverTo
  <2> QED
    BY <2>1 DEF HandedOverTo
<1>15. MutexBlocked' /\ WakeupBlocked'
  <2>1. \A y \in Threads : block'[y].type \in {"MUTEX", "WAKEUP"} => y # x /\ block'[y] = block[y]
    BY <1>5, <1>6 DEF NotBlocked, Blocked
  <2>2. MutexBlocked'
    BY <1>3, <1>b, <1>5, <2>1 DEF MutexBlocked, Awaits
  <2>3. WakeupBlocked'
    BY <1>3, <1>b, <1>5, <2>1 DEF WakeupBlocked
  <2> QED
    BY <2>2, <2>3
<1>16. BlockedIsQueued' /\ WaiterBlocked'
  <2>1. \A y \in Threads : state'[y] = "BLOCKED" => y # x /\ state[y] = "BLOCKED" /\ block'[y] = block[y]
    BY <1>5, <1>6
  <2>2. BlockedIsQueued'
    BY <1>3, <1>b, <2>1 DEF BlockedIsQueued
  <2>3. WaiterBlocked'
    BY <1>1, <1>a, <1>b, <2>1 DEF WaiterBlocked
  <2> QED
    BY <2>2, <2>3
<1>17. ControlInvariantOf(Living)'
  <2>1. Living' = H
    BY <1>1, <1>2, <1>4, <1>5, <1>6 DEF Living, LifeTypes
  <2>2. H \in SUBSET Threads
    OBVIOUS
  <2> HIDE DEF H
  <2>3. ControlKept(H)
    BY <1>10, <1>11, <1>12, <1>13, <1>14, <1>15, <1>16 DEF ControlKept, ControlParts
  <2> QED
    BY <1>9, <2>1, <2>3, LivingKeep
<1>18. QueueIsLinear'
  <2>1. ahead[x] = {}
    BY <1>1, <1>7 DEF QueueIsLinear
  <2>2. ahead' = ahead
    BY <1>4, <1>a, <2>1
  <2> QED
    BY <1>1, <1>b, <2>2 DEF QueueIsLinear
<1>19. OwnedOnce' /\ OwnedListed'
  <2>1. Once(owned'[x]) /\ \A n : ~In(owned'[x], n)
    BY <1>6 DEF Once, In
  <2>2. \A n \in Mutexes : ~(count[n] > 0 /\ owner[n] = x)
    BY <1>7
  <2>3. OwnedOnce'
    BY <1>1, <1>5, <2>1 DEF OwnedOnce
  <2>4. OwnedListed'
    BY <1>1, <1>b, <1>5, <2>1, <2>2 DEF OwnedListed
  <2> QED
    BY <2>3, <2>4
<1>20. FreshApart' /\ FreeKnows'
  BY <1>1, <1>b, <1>4, <1>5, <1>6 DEF FreshApart, FreeKnows, Apart
<1>21. LifeTypes'
  <2>1. fate' \in [Threads -> Fates]
    BY <1>4, <1>a DEF Fates
  <2> QED
    BY <1>1, <1>b, <1>4, <2>1 DEF LifeTypes
<1> QED
  BY <1>8, <1>16, <1>17, <1>18, <1>19, <1>20, <1>21 DEF LifeInvariant, LifeParts

-----------------------------------------------------------------------------
(* The theorems.                                                           *)

LEMMA InitLife == LifeInit => LifeInvariant
<1> SUFFICES ASSUME LifeInit PROVE LifeInvariant
  OBVIOUS
<1>1. /\ ControlInvariant /\ listed = Threads /\ strayed = FALSE
      /\ fate = [x \in Threads |-> "none"]
  BY InitControl DEF LifeInit
<1>2. Init /\ pc = [t \in Threads |-> "app"]
  BY DEF LifeInit, ControlInit, Init
<1>3. LifeTypes /\ KilledIsForgotten
  BY <1>1 DEF LifeTypes, Fates, KilledIsForgotten
<1>4. ControlInvariantOf(Living)
  <2>1. Living = Threads
    BY <1>1 DEF Living
  <2> QED
    BY <1>1, <2>1 DEF ControlInvariant
<1>5. QueueIsLinear /\ OwnedOnce /\ OwnedListed
  BY <1>2 DEF Init, QueueIsLinear, OwnedOnce, OwnedListed, Once, In
<1>6. WaiterBlocked /\ FreshApart /\ FreeKnows
  BY <1>1, <1>2 DEF Init, WaiterBlocked, FreshApart, FreeKnows
<1> QED
  BY <1>3, <1>4, <1>5, <1>6 DEF LifeInvariant, LifeParts

LEMMA NextLife == LifeInvariant /\ [LifeNext]_lifeVars => LifeInvariant'
<1> SUFFICES ASSUME LifeInvariant, [LifeNext]_lifeVars PROVE LifeInvariant'
  OBVIOUS
<1>1. CASE UNCHANGED lifeVars
  <2>1. UNCHANGED <<vars, listed, fate, strayed>>
    BY <1>1 DEF lifeVars, controlVars
  <2>2. CASE Sound
    BY <2>1, <2>2, LifeKernel
  <2>3. CASE ~Sound
    <3>1. UNCHANGED <<state, current, owner, count, waiters, waiter, pc, arg, listed, fate, strayed>>
      BY <2>1 DEF vars, threadVars, mutexVars, queueVars, wakeupVars, callVars
    <3>2. ~Sound'
      BY <2>3, <3>1 DEF Sound, Refers
    <3>3. KilledIsForgotten' /\ LifeTypes'
      BY <3>1 DEF LifeInvariant, KilledIsForgotten, Refers, Leaving, LifeTypes
    <3> QED
      BY <3>2, <3>3 DEF LifeInvariant
  <2> QED
    BY <2>2, <2>3
<1>2. CASE Sound /\ Next /\ UNCHANGED <<listed, fate, strayed>>
  BY <1>2, LifeKernel
<1>3. CASE Sound /\ (Suspend \/ Resume) /\ UNCHANGED <<listed, strayed>>
  <2>1. Suspend => UNCHANGED fate
    BY DEF Suspend
  <2> QED
    BY <1>3, <2>1, LifeSuspend, LifeResume
<1>4. ASSUME Sound, NEW t \in Threads, NEW x \in Threads, thread_terminate(t, x)
      PROVE  LifeInvariant'
  <2>1. x \in listed /\ Runs(t) /\ pc[t] \in {"app", "kill"} /\ Begin(t, x)
    BY <1>4 DEF thread_terminate, Calls
  <2> QED
    BY <1>4, <2>1, LifeBegin
<1>5. ASSUME Sound, NEW t \in Threads, thread_killlevel(t) PROVE LifeInvariant'
  BY <1>5, LifeKilllevel DEF thread_killlevel, Calls
<1>6. ASSUME Sound, NEW t \in Threads, killlevel_next(t) PROVE LifeInvariant'
  <2>1. Runs(t) /\ pc[t] \in {"app", "kill"}
    BY <1>6 DEF killlevel_next
  <2>2. ASSUME NEW x \in listed, Begin(t, x) PROVE LifeInvariant'
    BY <1>6, <2>1, <2>2, LifeBegin
  <2>3. CASE /\ pc' = [pc EXCEPT ![t] = "app"]
             /\ UNCHANGED <<threadVars, current, frozen, mutexVars, queueVars, wakeupVars, arg, held,
                            hung, listed, fate, stale, strayed>>
    BY <1>6, <2>1, <2>3, LifeKilllevel
  <2> QED
    BY <1>6, <2>2, <2>3 DEF killlevel_next
<1>7. ASSUME Sound, NEW t \in Threads, terminate_end(t) PROVE LifeInvariant'
  <2>1. Runs(t) /\ pc[t] = "free" /\ UNCHANGED strayed /\ arg[t] \in Threads
    BY <1>7 DEF terminate_end, LifeInvariant, LifeParts, FreeKnows
  <2>2. CASE free_other(t, arg[t])
    BY <1>7, <2>1, <2>2, LifeFreeOther
  <2>3. CASE arg[t] = t /\ leave_thread(t)
    BY <1>7, <2>1, <2>3, LifeLeave
  <2> QED
    BY <1>7, <2>2, <2>3 DEF terminate_end
<1>8. ASSUME Sound, NEW t \in Threads, NEW x \in Threads, NEW run \in BOOLEAN, thread_create(t, x, run)
      PROVE  LifeInvariant'
  BY <1>8, LifeCreate
<1> QED
  BY <1>1, <1>2, <1>3, <1>4, <1>5, <1>6, <1>7, <1>8 DEF LifeNext, Life

\* Whatever threads lock, wait, suspend, resume, terminate and create, and for any number of
\* them: a thread that thread_terminate_internal has dealt with is in no queue, owns no mutex,
\* is no wakeup's waiter, and does not run again.
THEOREM KilledForgotten == LifeSpec => []KilledIsForgotten
<1>1. LifeInvariant => KilledIsForgotten
  BY DEF LifeInvariant
<1> QED
  BY <1>1, InitLife, NextLife, PTL DEF LifeSpec

\* Nor does the unlocking of the victim's mutexes, by mutex_unlock_internal, harm a thread that
\* lives: it keeps its locks and their counts, the list of them, and its place in a queue.
THEOREM LivingKept == LifeSpec => []LivingUnharmed
<1>1. LifeInvariant => LivingUnharmed
  <2> SUFFICES ASSUME LifeInvariant, Sound, NEW t \in listed, fate[t] = "none"
               PROVE  /\ \A m \in Mutexes :
                           /\ held[t][m] > 0 => owner[m] = t /\ count[m] = held[t][m]
                           /\ m \in ToSet(owned[t]) <=> (count[m] > 0 /\ owner[m] = t)
                      /\ state[t] = "BLOCKED" /\ block[t].type = "MUTEX" => t \in waiters[block[t].by]
    BY DEF LivingUnharmed
  <2>1. /\ TypeOK /\ LifeTypes /\ HeldIsCountOf(Living) /\ BlockedIsQueued /\ OwnedListed
    BY DEF LifeInvariant, LifeParts, ControlInvariantOf, ControlParts
  <2>2. t \in Living /\ t \in Threads /\ owned[t] \in Seq(Mutexes)
    BY <2>1 DEF Living, LifeTypes, TypeOK, MutexesType
  <2>3. \A m \in Mutexes : held[t][m] > 0 => owner[m] = t /\ count[m] = held[t][m]
    BY <2>1, <2>2 DEF HeldIsCountOf
  <2>4. \A m : m \in ToSet(owned[t]) <=> In(owned[t], m)
    BY <2>2 DEF ToSet, In
  <2> QED
    BY <2>1, <2>2, <2>3, <2>4 DEF BlockedIsQueued, OwnedListed
<1> QED
  BY <1>1, InitLife, NextLife, PTL DEF LifeSpec
=============================================================================
