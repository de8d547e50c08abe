---------------------------- MODULE ControlProofs ----------------------------
(***************************************************************************)
(* Threads that are suspended, resumed, frozen and killed from outside     *)
(* (ThreadControl): mutual exclusion and the queues survive it, stack      *)
(* overflows included.  The argument is that of MutexInvariant, weakened   *)
(* by what a suspension of the running thread leaves behind, with the      *)
(* fields of a wait added: thread_resume blocks a thread again by them,    *)
(* long after they were written.                                           *)
(***************************************************************************)
EXTENDS ThreadControl, ThreadsProofs

\* The waiter of a wakeup is inside its wakeup_wait, or the monitor has suspended it
\* there while it ran, and its context is lost.
WaiterWaitsOrLost ==
    \A w \in Wakeups : waiter[w] # NULL =>
        pc[waiter[w]] \in {"wakeup_yield", "wakeup_back", "lost"} /\ arg[waiter[w]] = w

\* What a thread of G was told about its mutexes is the truth, or nothing at all when its
\* context was lost on the way back from mutex_lock.
HeldIsCountOf(G) ==
    \A t \in G, m \in Mutexes :
        \/ held[t][m] = IF owner[m] = t /\ ~Awaits(t, m) THEN count[m] ELSE 0
        \/ pc[t] = "lost" /\ held[t][m] = 0

\* A mutex whose owner, one of G, has not been told yet was handed over by mutex_unlock.
HandedOverTo(G) ==
    \A t \in G, m \in Mutexes :
        Awaits(t, m) /\ owner[m] = t => count[m] = 1 /\ state[t] # "BLOCKED"

\* The fields of a wait for a mutex, which thread_resume acts upon, say what the thread
\* is doing, for as long as they are there.
MutexBlocked ==
    \A t \in Threads : block[t].type = "MUTEX" =>
        /\ block[t].by \in Mutexes
        /\ Awaits(t, block[t].by)
        /\ owner[block[t].by] # t
        /\ state[t] \notin {"READY", "RUNNING"}
        /\ pc[t] = "mutex_back" => current # t

\* So do those of a wait for a wakeup.
WakeupBlocked ==
    \A t \in Threads : block[t].type = "WAKEUP" =>
        /\ pc[t] \in {"wakeup_yield", "wakeup_back"} /\ block[t].by = arg[t]
        /\ state[t] \notin {"READY", "RUNNING"}
        /\ pc[t] = "wakeup_back" => current # t

\* G are the threads whose mutexes nobody else has unlocked: all of them, until threads
\* are terminated.
ControlParts(G) ==
    /\ QueuedWaits /\ WaiterWaitsOrLost /\ HeldIsCountOf(G) /\ HandedOverTo(G)
    /\ MutexBlocked /\ WakeupBlocked /\ BlockedIsQueued

ControlInvariantOf(G) == TypeOK /\ OneRunning /\ FrozenRunsIdle /\ ControlParts(G)
ControlInvariant == ControlInvariantOf(Threads)

-----------------------------------------------------------------------------
\* A switch from the state st and the blocks bl that ends the timeouts of E, and may
\* find the stack overwritten.
SwitchedFrom(st, bl, fz, E) ==
    /\ frozen' = fz
    /\ fz => current' = idle
    /\ \A x \in AllThreads : state'[x] = "RUNNING" => x = current'
    /\ \A x \in Threads : current' = x => state'[x] = "RUNNING"
    /\ waiters' = [m \in Mutexes |-> waiters[m] \ E]
    /\ \A x \in E : state'[x] \in {"READY", "RUNNING"} /\ block'[x] = NotBlocked
    /\ \A x \in Threads \ E :
         /\ state'[x] = "BLOCKED" => st[x] = "BLOCKED" /\ block'[x] = bl[x]
         /\ state'[x] \in {"READY", "RUNNING"} =>
              st[x] \in {"READY", "RUNNING"} \/ (dbgwakeup \in Wakeups /\ x = waiter[dbgwakeup])
         /\ block'[x].type \in {"MUTEX", "WAKEUP"} =>
              /\ block'[x] = bl[x]
              /\ state'[x] \in {"READY", "RUNNING"} => st[x] \in {"READY", "RUNNING"}

\* A queued thread waits for no wakeup, so no signal reaches it.
LEMMA QueuedIsNoWaiter ==
    ASSUME TypeOK, QueuedWaits, WaiterWaitsOrLost,
           NEW n \in Mutexes, NEW x \in waiters[n], NEW w \in Wakeups
    PROVE  x # waiter[w]
<1>1. x \in Threads /\ x # NULL
  BY ThreadsAssumption DEF TypeOK, MutexesType
<1>2. pc[x] \in {"mutex_yield", "mutex_back"}
  BY DEF QueuedWaits, Awaits
<1>3. waiter[w] # NULL => pc[waiter[w]] \in {"wakeup_yield", "wakeup_back", "lost"}
  BY DEF WaiterWaitsOrLost
<1> QED
  BY <1>1, <1>2, <1>3

\* What the callers below use of it: no switch blocks a thread, a queued thread that
\* did not time out is not made ready, and nobody runs whose block still stands.
LEMMA SwitchFacts ==
    ASSUME NEW st, NEW bl, NEW fz, NEW E \in SUBSET Threads, SwitchedFrom(st, bl, fz, E)
    PROVE  \A x \in Threads :
             /\ st[x] # "BLOCKED" => state'[x] # "BLOCKED"
             /\ /\ x \notin E /\ st[x] \notin {"READY", "RUNNING"}
                /\ \A w \in Wakeups : x # waiter[w]
                => state'[x] \notin {"READY", "RUNNING"}
             /\ block'[x].type \in {"MUTEX", "WAKEUP"} =>
                  /\ block'[x] = bl[x]
                  /\ st[x] \notin {"READY", "RUNNING"} =>
                       state'[x] \notin {"READY", "RUNNING"} /\ current' # x
<1> TAKE x \in Threads
<1>1. CASE x \in E
  BY <1>1 DEF SwitchedFrom, NotBlocked, Blocked
<1>2. CASE x \notin E
  BY <1>2 DEF SwitchedFrom
<1> QED
  BY <1>1, <1>2

\* That is what every caller of scheduler_switch may rely on.
LEMMA SwitchFrom ==
    ASSUME TypeOK,
           NEW st \in [AllThreads -> States], NEW bl \in [Threads -> BlockRecord],
           NEW sg, NEW tgt \in Threads \cup {NULL}, NEW blk, NEW fz \in BOOLEAN,
           \A x \in AllThreads : st[x] = "RUNNING" => x = current,
           scheduler_switch(st, bl, sg, tgt, blk, fz)
    PROVE  \E E \in SUBSET Threads : SwitchedFrom(st, bl, fz, E)
<1>1. PICK ov \in (IF current \in MayOverflow THEN BOOLEAN ELSE {FALSE}) :
      \E E \in SUBSET Overdue(StackState(ov, Preempt(st)), StackBlock(ov, bl), fz) :
      \E next \in Eligible(Expired(StackState(ov, Preempt(st)), E), tgt, blk, fz) :
        switch_to(st, bl, sg, fz, ov, E, next)
  BY DEF scheduler_switch
<1>2. PICK E \in SUBSET Overdue(StackState(ov, Preempt(st)), StackBlock(ov, bl), fz) :
      \E next \in Eligible(Expired(StackState(ov, Preempt(st)), E), tgt, blk, fz) :
        switch_to(st, bl, sg, fz, ov, E, next)
  BY <1>1
<1>3. PICK next \in Eligible(Expired(StackState(ov, Preempt(st)), E), tgt, blk, fz) :
        switch_to(st, bl, sg, fz, ov, E, next)
  BY <1>2
<1> DEFINE s0 == Preempt(st)
           s1 == StackState(ov, s0)
           b1 == StackBlock(ov, bl)
           s2 == Expired(s1, E)
           Signalled(x) == dbgwakeup \in Wakeups /\ x = waiter[dbgwakeup]
<1>4. ov \in BOOLEAN /\ (ov => current \in Threads /\ dbgwakeup \in Wakeups)
  BY ThreadsAssumption
<1>5. /\ s0 \in [AllThreads -> States]
      /\ \A x \in AllThreads : s0[x] = st[x] \/ (st[x] = "RUNNING" /\ s0[x] = "READY")
      /\ \A x \in AllThreads : s0[x] # "RUNNING"
  BY DEF Preempt, States, TypeOK, ThreadsType
<1> HIDE DEF s0
<1>6. /\ s1 \in [AllThreads -> States]
      /\ \A x \in AllThreads : s1[x] # "RUNNING"
      /\ \A x \in Threads : s1[x] = "BLOCKED" => s0[x] = "BLOCKED"
      /\ \A x \in Threads : s1[x] = "READY" => s0[x] = "READY" \/ Signalled(x)
  BY <1>4, <1>5, ThreadsAssumption DEF StackState, TypeOK, ThreadsType, WakeupsType,
     AllThreads, States
<1>7. /\ b1 \in [Threads -> BlockRecord]
      /\ \A x \in Threads : b1[x].type \in {"MUTEX", "WAKEUP"} =>
           b1[x] = bl[x] /\ (s1[x] = "READY" => s0[x] = "READY")
      /\ \A x \in Threads : s1[x] = "BLOCKED" => b1[x] = bl[x]
  <2>1. CASE ~ov
    BY <2>1 DEF StackBlock, StackState
  <2>2. CASE ov
    <3>1. ASSUME NEW x \in Threads PROVE b1[x] \in BlockRecord
      BY <1>4, <2>2, ThreadsAssumption DEF StackBlock, Blocked, NotBlocked, BlockRecord,
         BlockTypes, TypeOK, WakeupsType, States
    <3>2. ASSUME NEW x \in Threads, b1[x].type \in {"MUTEX", "WAKEUP"}
          PROVE  b1[x] = bl[x] /\ x # current /\ x # waiter[dbgwakeup]
      BY <1>4, <2>2, <3>2, ThreadsAssumption DEF StackBlock, Blocked, NotBlocked, TypeOK, WakeupsType
    <3>3. ASSUME NEW x \in Threads, x # waiter[dbgwakeup] PROVE s1[x] = "READY" => s0[x] = "READY"
      BY <1>4, <1>5, <2>2, <3>3, ThreadsAssumption DEF StackState, TypeOK, WakeupsType, AllThreads, States
    <3>4. b1 = [x \in Threads |-> b1[x]]
      BY <2>2 DEF StackBlock
    <3>5. ASSUME NEW x \in Threads, s1[x] = "BLOCKED" PROVE b1[x] = bl[x]
      <4>1. x # current /\ x # waiter[dbgwakeup]
        BY <1>4, <1>5, <2>2, <3>5, ThreadsAssumption DEF StackState, TypeOK, WakeupsType, AllThreads, States
      <4> QED
        BY <2>2, <4>1 DEF StackBlock
    <3> QED
      BY <3>1, <3>2, <3>3, <3>4, <3>5
  <2> QED
    BY <1>4, <2>1, <2>2
<1>8. E \subseteq Threads /\ (fz => E = {})
  BY <1>2 DEF Overdue
<1>9. /\ state' = [s2 EXCEPT ![next] = "RUNNING"]
      /\ block' = [t \in Threads |-> IF t \in E THEN NotBlocked ELSE b1[t]]
      /\ current' = next
      /\ frozen' = fz
      /\ waiters' = [m \in Mutexes |-> waiters[m] \ E]
  BY <1>3 DEF switch_to, mutex_remove_from_queue, s0
<1> HIDE DEF s1, b1
<1>10. /\ s2 \in [AllThreads -> States]
       /\ \A x \in AllThreads : s2[x] = IF x \in E THEN "READY" ELSE s1[x]
  BY <1>6 DEF Expired, States
<1> HIDE DEF s2
<1>11. /\ next = idle \/ (next \in Threads /\ s2[next] = "READY")
       /\ fz => next = idle
  BY <1>3, ThreadsAssumption DEF Eligible, s0, s1, s2
<1>12. next \in AllThreads
  BY <1>11 DEF AllThreads
<1>13. \A x \in AllThreads : state'[x] = IF x = next THEN "RUNNING" ELSE s2[x]
  BY <1>9, <1>10, <1>12
<1>14. \A x \in AllThreads : s2[x] # "RUNNING"
  BY <1>6, <1>10
<1>15. \A x \in E : state'[x] \in {"READY", "RUNNING"} /\ block'[x] = NotBlocked
  BY <1>8, <1>9, <1>10, <1>13 DEF AllThreads
<1>16. ASSUME NEW x \in Threads \ E
       PROVE  /\ state'[x] = "BLOCKED" => st[x] = "BLOCKED" /\ block'[x] = bl[x]
              /\ state'[x] \in {"READY", "RUNNING"} =>
                   st[x] \in {"READY", "RUNNING"} \/ Signalled(x)
              /\ block'[x].type \in {"MUTEX", "WAKEUP"} =>
                   /\ block'[x] = bl[x]
                   /\ state'[x] \in {"READY", "RUNNING"} => st[x] \in {"READY", "RUNNING"}
  <2>1. x \in AllThreads /\ x # idle /\ s2[x] = s1[x]
    BY <1>10, ThreadsAssumption DEF AllThreads
  <2>2. state'[x] \in {"READY", "RUNNING"} => s1[x] = "READY"
    BY <1>11, <1>13, <1>14, <2>1
  <2>3. s0[x] = "READY" => st[x] \in {"READY", "RUNNING"}
    BY <1>5, <2>1
  <2>4. state'[x] = "BLOCKED" => st[x] = "BLOCKED"
    BY <1>5, <1>6, <1>13, <2>1
  <2>5. block'[x] = b1[x]
    BY <1>9
  <2>6. state'[x] = "BLOCKED" => s1[x] = "BLOCKED"
    BY <1>13, <2>1
  <2> QED
    BY <1>6, <1>7, <2>2, <2>3, <2>4, <2>5, <2>6
<1>17. /\ frozen' = fz
       /\ fz => current' = idle
       /\ waiters' = [m \in Mutexes |-> waiters[m] \ E]
  BY <1>9, <1>11
<1>18. /\ \A x \in AllThreads : state'[x] = "RUNNING" => x = current'
       /\ \A x \in Threads : current' = x => state'[x] = "RUNNING"
  BY <1>9, <1>13, <1>14 DEF AllThreads
<1>19. SwitchedFrom(st, bl, fz, E)
  BY <1>15, <1>16, <1>17, <1>18 DEF SwitchedFrom
<1> QED
  BY <1>8, <1>19
-----------------------------------------------------------------------------
\* The actions of ThreadControl leave every field in its range.
LEMMA ControlType ==
    ASSUME TypeOK, MutexBlocked, Control \/ \E x \in Threads : thread_resume(x)
    PROVE  TypeOK'
<1>1. ASSUME NEW x \in Threads, thread_suspend(x)
      PROVE  TypeOK'
  <2>1. ThreadsType'
    <3>1. PICK timed \in BOOLEAN : block' = [block EXCEPT ![x].timed = timed]
      BY <1>1 DEF thread_suspend, Remaining, TypeOK, ThreadsType, BlockRecord
    <3>2. block' \in [Threads -> BlockRecord]
      BY <3>1 DEF TypeOK, ThreadsType, BlockRecord
    <3>3. state' \in [AllThreads -> States]
      BY <1>1 DEF thread_suspend, TypeOK, ThreadsType, States
    <3> QED
      BY <1>1, <3>2, <3>3 DEF thread_suspend, TypeOK, ThreadsType
  <2>2. MutexesType'
    BY <1>1, ThreadsAssumption DEF thread_suspend, Remaining, SuspendQueue, MayBeSuspended,
       mutex_remove_from_queue, TypeOK, MutexesType, StaysAhead, threadVars, mutexVars,
       queueVars, wakeupVars, callVars
  <2>3. WakeupsType'
    BY <1>1, ThreadsAssumption DEF thread_suspend, Remaining, SuspendQueue, MayBeSuspended,
       mutex_remove_from_queue, TypeOK, WakeupsType, threadVars, mutexVars, queueVars,
       wakeupVars, callVars
  <2>4. CallsType'
    BY <1>1, ThreadsAssumption DEF thread_suspend, Remaining, SuspendQueue, MayBeSuspended,
       mutex_remove_from_queue, TypeOK, CallsType, PCs, threadVars, mutexVars, queueVars,
       wakeupVars, callVars
  <2> QED
    BY <2>1, <2>2, <2>3, <2>4 DEF TypeOK
<1>2. ASSUME thread_suspend_interrupted
      PROVE  TypeOK'
  <2>a. SwitchResult
    <3> DEFINE st == [state EXCEPT ![current] = "SUSPENDED"]
    <3>1. /\ st \in [AllThreads -> States] /\ block \in [Threads -> BlockRecord]
          /\ signalled \in [Wakeups -> BOOLEAN] /\ frozen \in BOOLEAN
          /\ scheduler_switch(st, block, signalled, NULL, current, frozen)
      BY <1>2 DEF thread_suspend_interrupted, TypeOK, ThreadsType, WakeupsType, States
    <3> HIDE DEF st
    <3> QED
      BY <3>1, SwitchType
  <2>1. ThreadsType'
    BY <1>2, <2>a, ThreadsAssumption DEF thread_suspend_interrupted, SwitchResult, TypeOK,
       ThreadsType, NotBlocked, Blocked, BlockRecord, BlockTypes, States, AllThreads,
       threadVars, mutexVars, queueVars, wakeupVars, callVars
  <2>2. MutexesType'
    BY <1>2, <2>a, ThreadsAssumption DEF thread_suspend_interrupted, SwitchResult, TypeOK,
       MutexesType, StaysAhead, threadVars, mutexVars, queueVars, wakeupVars, callVars
  <2>3. WakeupsType'
    BY <1>2, <2>a, ThreadsAssumption DEF thread_suspend_interrupted, SwitchResult, TypeOK,
       WakeupsType, threadVars, mutexVars, queueVars, wakeupVars, callVars
  <2>4. CallsType'
    BY <1>2, <2>a, ThreadsAssumption DEF thread_suspend_interrupted, SwitchResult, TypeOK,
       CallsType, PCs, threadVars, mutexVars, queueVars, wakeupVars, callVars
  <2> QED
    BY <2>1, <2>2, <2>3, <2>4 DEF TypeOK
<1>3. ASSUME NEW value \in BOOLEAN, scheduler_freeze(value)
      PROVE  TypeOK'
  <2>a. SwitchResult
    <3>1. /\ state \in [AllThreads -> States] /\ block \in [Threads -> BlockRecord]
          /\ signalled \in [Wakeups -> BOOLEAN] /\ value \in BOOLEAN
          /\ scheduler_switch(state, block, signalled, NULL, NULL, value)
      BY <1>3 DEF scheduler_freeze, TypeOK, ThreadsType, WakeupsType, States
    <3> QED
      BY <3>1, SwitchType
  <2>1. ThreadsType'
    BY <1>3, <2>a, ThreadsAssumption DEF scheduler_freeze, SwitchResult, TypeOK,
       ThreadsType, NotBlocked, Blocked, BlockRecord, BlockTypes, States, AllThreads,
       threadVars, mutexVars, queueVars, wakeupVars, callVars
  <2>2. MutexesType'
    BY <1>3, <2>a, ThreadsAssumption DEF scheduler_freeze, SwitchResult, TypeOK,
       MutexesType, StaysAhead, threadVars, mutexVars, queueVars, wakeupVars, callVars
  <2>3. WakeupsType'
    BY <1>3, <2>a, ThreadsAssumption DEF scheduler_freeze, SwitchResult, TypeOK,
       WakeupsType, threadVars, mutexVars, queueVars, wakeupVars, callVars
  <2>4. CallsType'
    BY <1>3, <2>a, ThreadsAssumption DEF scheduler_freeze, SwitchResult, TypeOK, CallsType,
       PCs, threadVars, mutexVars, queueVars, wakeupVars, callVars
  <2> QED
    BY <2>1, <2>2, <2>3, <2>4 DEF TypeOK
<1>4. ASSUME NEW t \in Threads, thread_suspend_self(t)
      PROVE  TypeOK'
  <2>1. ThreadsType'
    BY <1>4, ThreadsAssumption DEF thread_suspend_self, TypeOK, ThreadsType, NotBlocked,
       Blocked, BlockRecord, BlockTypes, States, AllThreads, threadVars, mutexVars,
       queueVars, wakeupVars, callVars
  <2>2. MutexesType'
    BY <1>4, ThreadsAssumption DEF thread_suspend_self, TypeOK, MutexesType, StaysAhead,
       threadVars, mutexVars, queueVars, wakeupVars, callVars
  <2>3. WakeupsType'
    BY <1>4, ThreadsAssumption DEF thread_suspend_self, TypeOK, WakeupsType, threadVars,
       mutexVars, queueVars, wakeupVars, callVars
  <2>4. CallsType'
    BY <1>4, ThreadsAssumption DEF thread_suspend_self, TypeOK, CallsType, PCs, threadVars,
       mutexVars, queueVars, wakeupVars, callVars
  <2> QED
    BY <2>1, <2>2, <2>3, <2>4 DEF TypeOK
<1>5. ASSUME NEW t \in Threads, lost_runs(t)
      PROVE  TypeOK'
  <2>1. ThreadsType'
    BY <1>5, ThreadsAssumption DEF lost_runs, TypeOK, ThreadsType, NotBlocked, Blocked,
       BlockRecord, BlockTypes, States, AllThreads, threadVars, mutexVars, queueVars,
       wakeupVars, callVars
  <2>2. MutexesType'
    BY <1>5, ThreadsAssumption DEF lost_runs, TypeOK, MutexesType, StaysAhead, threadVars,
       mutexVars, queueVars, wakeupVars, callVars
  <2>3. WakeupsType'
    BY <1>5, ThreadsAssumption DEF lost_runs, TypeOK, WakeupsType, threadVars, mutexVars,
       queueVars, wakeupVars, callVars
  <2>4. CallsType'
    BY <1>5, ThreadsAssumption DEF lost_runs, TypeOK, CallsType, PCs, threadVars, mutexVars,
       queueVars, wakeupVars, callVars
  <2> QED
    BY <2>1, <2>2, <2>3, <2>4 DEF TypeOK
<1>6. ASSUME NEW t \in Threads, dbgthread_find(t)
      PROVE  TypeOK'
  <2>1. ThreadsType'
    BY <1>6, ThreadsAssumption DEF dbgthread_find, TypeOK, ThreadsType, NotBlocked, Blocked,
       BlockRecord, BlockTypes, States, AllThreads, threadVars, mutexVars, queueVars,
       wakeupVars, callVars
  <2>2. MutexesType'
    BY <1>6, ThreadsAssumption DEF dbgthread_find, TypeOK, MutexesType, StaysAhead,
       threadVars, mutexVars, queueVars, wakeupVars, callVars
  <2>3. WakeupsType'
    BY <1>6, ThreadsAssumption DEF dbgthread_find, TypeOK, WakeupsType, threadVars,
       mutexVars, queueVars, wakeupVars, callVars
  <2>4. CallsType'
    BY <1>6, ThreadsAssumption DEF dbgthread_find, TypeOK, CallsType, PCs, threadVars,
       mutexVars, queueVars, wakeupVars, callVars
  <2> QED
    BY <2>1, <2>2, <2>3, <2>4 DEF TypeOK
<1>7. ASSUME NEW t \in Threads, dbgthread_ack(t)
      PROVE  TypeOK'
  <2>1. ThreadsType'
    BY <1>7, ThreadsAssumption DEF dbgthread_ack, TypeOK, ThreadsType, NotBlocked, Blocked,
       BlockRecord, BlockTypes, States, AllThreads, threadVars, mutexVars, queueVars,
       wakeupVars, callVars
  <2>2. MutexesType'
    BY <1>7, ThreadsAssumption DEF dbgthread_ack, TypeOK, MutexesType, StaysAhead,
       threadVars, mutexVars, queueVars, wakeupVars, callVars
  <2>3. WakeupsType'
    BY <1>7, ThreadsAssumption DEF dbgthread_ack, TypeOK, WakeupsType, threadVars,
       mutexVars, queueVars, wakeupVars, callVars
  <2>4. CallsType'
    BY <1>7, ThreadsAssumption DEF dbgthread_ack, TypeOK, CallsType, PCs, threadVars,
       mutexVars, queueVars, wakeupVars, callVars
  <2> QED
    BY <2>1, <2>2, <2>3, <2>4 DEF TypeOK
<1>8. ASSUME NEW t \in Threads, panic_kill_user_threads(t)
      PROVE  TypeOK'
  <2>1. ThreadsType'
    BY <1>8, ThreadsAssumption DEF panic_kill_user_threads, Blocked, TypeOK, ThreadsType,
       NotBlocked, BlockRecord, BlockTypes, States, AllThreads, threadVars, mutexVars,
       queueVars, wakeupVars, callVars
  <2>2. MutexesType'
    BY <1>8, ThreadsAssumption DEF panic_kill_user_threads, Blocked, TypeOK, MutexesType,
       StaysAhead, threadVars, mutexVars, queueVars, wakeupVars, callVars
  <2>3. WakeupsType'
    BY <1>8, ThreadsAssumption DEF panic_kill_user_threads, Blocked, TypeOK, WakeupsType,
       threadVars, mutexVars, queueVars, wakeupVars, callVars
  <2>4. CallsType'
    BY <1>8, ThreadsAssumption DEF panic_kill_user_threads, Blocked, TypeOK, CallsType, PCs,
       threadVars, mutexVars, queueVars, wakeupVars, callVars
  <2> QED
    BY <2>1, <2>2, <2>3, <2>4 DEF TypeOK
<1>9. ASSUME NEW x \in Threads, thread_resume(x)
      PROVE  TypeOK'
  <2>1. ThreadsType'
    <3>1. state' = state \/ state' = [state EXCEPT ![x] = "BLOCKED"]
                        \/ state' = [state EXCEPT ![x] = "READY"]
      BY <1>9 DEF thread_resume
    <3>2. state' \in [AllThreads -> States]
      BY <3>1 DEF TypeOK, ThreadsType, States
    <3> QED
      BY <1>9, <3>2 DEF thread_resume, TypeOK, ThreadsType
  <2>2. MutexesType'
    <3>1. UNCHANGED <<owned, owner, count>>
      BY <1>9 DEF thread_resume, mutexVars
    <3>2. CASE UNCHANGED queueVars
      BY <3>1, <3>2 DEF TypeOK, MutexesType, queueVars
    <3>3. CASE block[x].type = "MUTEX" /\ mutex_add_to_queue(block[x].by, x)
      <4>1. block[x].by \in Mutexes
        BY <3>3 DEF MutexBlocked
      <4>2. StaysAhead(block[x].by, x) \subseteq Threads
        BY <4>1 DEF StaysAhead, TypeOK, MutexesType
      <4> QED
        BY <3>1, <3>3, <4>1, <4>2 DEF mutex_add_to_queue, TypeOK, MutexesType
    <3> QED
      BY <1>9, <3>2, <3>3 DEF thread_resume
  <2>3. WakeupsType'
    BY <1>9, ThreadsAssumption DEF thread_resume, mutex_add_to_queue, TypeOK, WakeupsType,
       MutexesType, CallsType, threadVars, mutexVars, queueVars, wakeupVars, callVars
  <2>4. CallsType'
    BY <1>9, ThreadsAssumption DEF thread_resume, mutex_add_to_queue, TypeOK, CallsType,
       PCs, MutexesType, threadVars, mutexVars, queueVars, wakeupVars, callVars
  <2> QED
    BY <2>1, <2>2, <2>3, <2>4 DEF TypeOK
<1> QED
  BY <1>1, <1>2, <1>3, <1>4, <1>5, <1>6, <1>7, <1>8, <1>9 DEF Control

\* What has to be shown of every step beside its types.
ControlKept(G) == OneRunning' /\ FrozenRunsIdle' /\ ControlParts(G)'

\* A step of a thread or of an interrupt handler, with all that may have been suspended.
LEMMA KernelKeeps ==
    ASSUME NEW G \in SUBSET Threads, ControlInvariantOf(G), [Next]_vars
    PROVE  ControlKept(G)
<1>b. /\ state \in [AllThreads -> States] /\ current \in AllThreads
      /\ block \in [Threads -> BlockRecord] /\ frozen \in BOOLEAN
      /\ signalled \in [Wakeups -> BOOLEAN]
      /\ waiters \in [Mutexes -> SUBSET Threads] /\ owner \in [Mutexes -> Threads \cup {NULL}]
      /\ count \in [Mutexes -> Nat] /\ waiter \in [Wakeups -> Threads \cup {NULL}]
      /\ pc \in [Threads -> PCs] /\ held \in [Threads -> [Mutexes -> Int]]
      /\ arg \in [Threads -> Mutexes \cup Wakeups \cup Threads \cup {NULL}]
  BY DEF ControlInvariantOf, TypeOK, ThreadsType, MutexesType, WakeupsType, CallsType
<1>c. /\ TypeOK /\ OneRunning /\ FrozenRunsIdle
      /\ QueuedWaits /\ WaiterWaitsOrLost /\ HeldIsCountOf(G) /\ HandedOverTo(G)
      /\ MutexBlocked /\ WakeupBlocked /\ BlockedIsQueued
  BY DEF ControlInvariantOf, ControlParts
<1>1. ASSUME NEW t \in Threads, yield(t)
      PROVE  ControlKept(G)
  <2>a. PICK E \in SUBSET Threads : SwitchedFrom(state, block, frozen, E)
    <3>1. /\ state \in [AllThreads -> States] /\ block \in [Threads -> BlockRecord]
          /\ NULL \in Threads \cup {NULL} /\ frozen \in BOOLEAN
          /\ \A y \in AllThreads : state[y] = "RUNNING" => y = current
          /\ scheduler_switch(state, block, signalled, NULL, t, frozen)
      BY <1>1, <1>b, <1>c DEF yield, OneRunning, NotBlocked, Blocked, BlockRecord,
         BlockTypes, States, AllThreads
    <3> QED
      BY <1>c, <3>1, SwitchFrom
  <2>1. OneRunning'
    BY <1>1, <1>b, <1>c, <2>a, ThreadsAssumption DEF yield, AfterYield, SwitchedFrom,
       NotBlocked, Blocked, OneRunning, AllThreads, threadVars, mutexVars, queueVars,
       wakeupVars, callVars
  <2>2. FrozenRunsIdle'
    BY <1>1, <1>b, <1>c, <2>a, ThreadsAssumption DEF yield, AfterYield, SwitchedFrom,
       NotBlocked, Blocked, FrozenRunsIdle, AllThreads, threadVars, mutexVars, queueVars,
       wakeupVars, callVars
  <2>3. QueuedWaits'
    <3> SUFFICES ASSUME NEW n \in Mutexes, NEW x \in waiters'[n]
                 PROVE  /\ Awaits(x, n)' /\ state'[x] \notin {"READY", "RUNNING"}
                        /\ pc'[x] = "mutex_back" => current' # x
      BY DEF QueuedWaits
    <3>1. x \in Threads /\ x \in waiters[n] /\ x \notin E
      BY <1>b, <2>a DEF SwitchedFrom
    <3>2. /\ Awaits(x, n) /\ state[x] \notin {"READY", "RUNNING"}
          /\ pc[x] = "mutex_back" => current # x
      BY <1>c, <3>1 DEF QueuedWaits
    <3>3. \A w \in Wakeups : x # waiter[w]
      BY <1>c, <3>1, QueuedIsNoWaiter
    <3>4. state'[x] \notin {"READY", "RUNNING"}
      BY <2>a, <3>1, <3>2, <3>3, SwitchFacts
    <3>5. Awaits(x, n)'
      BY <1>1, <1>b, <1>c, <3>1, <3>2 DEF yield, Awaits, Calls, Runs, callVars, AfterYield
    <3> QED
      BY <2>a, <3>1, <3>4, <3>5 DEF SwitchedFrom
  <2>4. WaiterWaitsOrLost'
    BY <1>1, <1>b, <1>c, <2>a, ThreadsAssumption DEF yield, AfterYield, SwitchedFrom,
       NotBlocked, Blocked, WaiterWaitsOrLost, Calls, Runs, AllThreads, threadVars,
       mutexVars, queueVars, wakeupVars, callVars
  <2>5. HeldIsCountOf(G)'
    BY <1>1, <1>b, <1>c, <2>a, ThreadsAssumption DEF yield, AfterYield, SwitchedFrom,
       NotBlocked, Blocked, HeldIsCountOf, HandedOverTo, QueuedWaits, Awaits, Calls, Runs,
       AllThreads, threadVars, mutexVars, queueVars, wakeupVars, callVars
  <2>6. HandedOverTo(G)'
    <3> SUFFICES ASSUME NEW x \in G, NEW n \in Mutexes, Awaits(x, n)', owner'[n] = x
                 PROVE  count'[n] = 1 /\ state'[x] # "BLOCKED"
      BY DEF HandedOverTo
    <3>1. Awaits(x, n) /\ owner[n] = x
      BY <1>1, <1>b DEF yield, Awaits, callVars, mutexVars, AfterYield
    <3>2. count[n] = 1 /\ state[x] # "BLOCKED"
      BY <1>c, <3>1 DEF HandedOverTo
    <3>3. state'[x] # "BLOCKED"
      BY <1>1, <1>b, <2>a, <3>2 DEF yield, SwitchedFrom, AllThreads
    <3>4. count'[n] = 1
      BY <1>1, <1>b, <3>1, <3>2 DEF yield, mutexVars, Awaits, Calls
    <3> QED
      BY <3>3, <3>4
  <2>7. MutexBlocked'
    BY <1>1, <1>b, <1>c, <2>a, ThreadsAssumption DEF yield, AfterYield, SwitchedFrom,
       NotBlocked, Blocked, MutexBlocked, QueuedWaits, WaiterWaitsOrLost, Awaits, Calls,
       Runs, AllThreads, threadVars, mutexVars, queueVars, wakeupVars, callVars
  <2>8. WakeupBlocked'
    BY <1>1, <1>b, <1>c, <2>a, ThreadsAssumption DEF yield, AfterYield, SwitchedFrom,
       NotBlocked, Blocked, WakeupBlocked, WaiterWaitsOrLost, Calls, Runs, AllThreads,
       threadVars, mutexVars, queueVars, wakeupVars, callVars
  <2>9. BlockedIsQueued'
    BY <1>1, <1>b, <1>c, <2>a, ThreadsAssumption DEF yield, AfterYield, SwitchedFrom,
       NotBlocked, Blocked, BlockedIsQueued, MutexBlocked, QueuedWaits, WaiterWaitsOrLost,
       Awaits, Calls, Runs, AllThreads, threadVars, mutexVars, queueVars, wakeupVars,
       callVars
  <2> QED
    BY <2>1, <2>2, <2>3, <2>4, <2>5, <2>6, <2>7, <2>8, <2>9 DEF ControlKept, ControlParts
<1>2. ASSUME NEW t \in Threads, NEW m \in Mutexes, mutex_lock(t, m)
      PROVE  ControlKept(G)
  <2>1. OneRunning'
    BY <1>2, <1>b, <1>c, ThreadsAssumption DEF mutex_lock, OneRunning, AllThreads,
       threadVars, mutexVars, queueVars, wakeupVars, callVars
  <2>2. FrozenRunsIdle'
    BY <1>2, <1>b, <1>c, ThreadsAssumption DEF mutex_lock, FrozenRunsIdle, AllThreads,
       threadVars, mutexVars, queueVars, wakeupVars, callVars
  <2>3. QueuedWaits'
    BY <1>2, <1>b, <1>c, ThreadsAssumption DEF mutex_lock, QueuedWaits, Awaits,
       WaiterWaitsOrLost, MutexBlocked, Calls, Runs, AllThreads, threadVars, mutexVars,
       queueVars, wakeupVars, callVars
  <2>4. WaiterWaitsOrLost'
    BY <1>2, <1>b, <1>c, ThreadsAssumption DEF mutex_lock, WaiterWaitsOrLost, Calls, Runs,
       AllThreads, threadVars, mutexVars, queueVars, wakeupVars, callVars
  <2>5. HeldIsCountOf(G)'
    BY <1>2, <1>b, <1>c, ThreadsAssumption DEF mutex_lock, HeldIsCountOf, HandedOverTo,
       QueuedWaits, Awaits, Calls, Runs, AllThreads, threadVars, mutexVars, queueVars,
       wakeupVars, callVars
  <2>6. HandedOverTo(G)'
    <3> SUFFICES ASSUME NEW x \in G, NEW n \in Mutexes, Awaits(x, n)', owner'[n] = x
                 PROVE  count'[n] = 1 /\ state'[x] # "BLOCKED"
      BY DEF HandedOverTo
    <3>1. /\ x \in Threads /\ pc[t] = "app" /\ UNCHANGED <<state, pc, arg>>
          /\ \A k \in Mutexes : k # m => owner'[k] = owner[k] /\ count'[k] = count[k]
          /\ owner'[m] = t
      BY <1>2, <1>b DEF mutex_lock, Calls, callVars, threadVars
    <3>2. x # t /\ Awaits(x, n)
      BY <3>1 DEF Awaits
    <3>3. n # m
      BY <3>1, <3>2
    <3> QED
      BY <1>c, <3>1, <3>2, <3>3 DEF HandedOverTo
  <2>7. MutexBlocked'
    BY <1>2, <1>b, <1>c, ThreadsAssumption DEF mutex_lock, MutexBlocked, QueuedWaits,
       WaiterWaitsOrLost, Awaits, Calls, Runs, AllThreads, threadVars, mutexVars, queueVars,
       wakeupVars, callVars
  <2>8. WakeupBlocked'
    BY <1>2, <1>b, <1>c, ThreadsAssumption DEF mutex_lock, WakeupBlocked, WaiterWaitsOrLost,
       Calls, Runs, AllThreads, threadVars, mutexVars, queueVars, wakeupVars, callVars
  <2>9. BlockedIsQueued'
    BY <1>2, <1>b, <1>c, ThreadsAssumption DEF mutex_lock, BlockedIsQueued, MutexBlocked,
       QueuedWaits, WaiterWaitsOrLost, Awaits, Calls, Runs, AllThreads, threadVars,
       mutexVars, queueVars, wakeupVars, callVars
  <2> QED
    BY <2>1, <2>2, <2>3, <2>4, <2>5, <2>6, <2>7, <2>8, <2>9 DEF ControlKept, ControlParts
<1>3. ASSUME NEW t \in Threads, NEW m \in Mutexes, NEW timed \in BOOLEAN,
            mutex_lock_block(t, m, timed)
      PROVE  ControlKept(G)
  <2>1. OneRunning'
    BY <1>3, <1>b, <1>c, ThreadsAssumption DEF mutex_lock_block, Block, Blocked,
       mutex_add_to_queue, OneRunning, AllThreads, threadVars, mutexVars, queueVars,
       wakeupVars, callVars
  <2>2. FrozenRunsIdle'
    BY <1>3, <1>b, <1>c, ThreadsAssumption DEF mutex_lock_block, Block, Blocked,
       mutex_add_to_queue, FrozenRunsIdle, AllThreads, threadVars, mutexVars, queueVars,
       wakeupVars, callVars
  <2>3. QueuedWaits'
    BY <1>3, <1>b, <1>c, ThreadsAssumption DEF mutex_lock_block, Block, Blocked,
       mutex_add_to_queue, QueuedWaits, Awaits, WaiterWaitsOrLost, MutexBlocked, Calls,
       Runs, AllThreads, threadVars, mutexVars, queueVars, wakeupVars, callVars
  <2>4. WaiterWaitsOrLost'
    BY <1>3, <1>b, <1>c, ThreadsAssumption DEF mutex_lock_block, Block, Blocked,
       mutex_add_to_queue, WaiterWaitsOrLost, Calls, Runs, AllThreads, threadVars,
       mutexVars, queueVars, wakeupVars, callVars
  <2>5. HeldIsCountOf(G)'
    BY <1>3, <1>b, <1>c, ThreadsAssumption DEF mutex_lock_block, Block, Blocked,
       mutex_add_to_queue, HeldIsCountOf, HandedOverTo, QueuedWaits, Awaits, Calls, Runs,
       AllThreads, threadVars, mutexVars, queueVars, wakeupVars, callVars
  <2>6. HandedOverTo(G)'
    BY <1>3, <1>b, <1>c, ThreadsAssumption DEF mutex_lock_block, Block, Blocked,
       mutex_add_to_queue, HandedOverTo, Awaits, Calls, Runs, AllThreads, threadVars,
       mutexVars, queueVars, wakeupVars, callVars
  <2>7. MutexBlocked'
    BY <1>3, <1>b, <1>c, ThreadsAssumption DEF mutex_lock_block, Block, Blocked,
       mutex_add_to_queue, MutexBlocked, QueuedWaits, WaiterWaitsOrLost, Awaits, Calls,
       Runs, AllThreads, threadVars, mutexVars, queueVars, wakeupVars, callVars
  <2>8. WakeupBlocked'
    BY <1>3, <1>b, <1>c, ThreadsAssumption DEF mutex_lock_block, Block, Blocked,
       mutex_add_to_queue, WakeupBlocked, WaiterWaitsOrLost, Calls, Runs, AllThreads,
       threadVars, mutexVars, queueVars, wakeupVars, callVars
  <2>9. BlockedIsQueued'
    BY <1>3, <1>b, <1>c, ThreadsAssumption DEF mutex_lock_block, Block, Blocked,
       mutex_add_to_queue, BlockedIsQueued, MutexBlocked, QueuedWaits, WaiterWaitsOrLost,
       Awaits, Calls, Runs, AllThreads, threadVars, mutexVars, queueVars, wakeupVars,
       callVars
  <2> QED
    BY <2>1, <2>2, <2>3, <2>4, <2>5, <2>6, <2>7, <2>8, <2>9 DEF ControlKept, ControlParts
<1>4. ASSUME NEW t \in Threads, NEW m \in Mutexes, mutex_unlock(t, m)
      PROVE  ControlKept(G)
  <2>1. OneRunning'
    BY <1>4, <1>b, <1>c, ThreadsAssumption DEF mutex_unlock, panic, Blocked, OneRunning,
       AllThreads, threadVars, mutexVars, queueVars, wakeupVars, callVars
  <2>2. FrozenRunsIdle'
    BY <1>4, <1>b, <1>c, ThreadsAssumption DEF mutex_unlock, panic, Blocked, FrozenRunsIdle,
       AllThreads, threadVars, mutexVars, queueVars, wakeupVars, callVars
  <2>3. QueuedWaits'
    BY <1>4, <1>b, <1>c, ThreadsAssumption DEF mutex_unlock, panic, Blocked, QueuedWaits,
       Awaits, WaiterWaitsOrLost, MutexBlocked, Calls, Runs, AllThreads, threadVars,
       mutexVars, queueVars, wakeupVars, callVars
  <2>4. WaiterWaitsOrLost'
    <3>1. UNCHANGED <<waiter, arg>> /\ pc[t] = "app" /\ \A x \in Threads \ {t} : pc'[x] = pc[x]
      BY <1>4, <1>b DEF mutex_unlock, panic, wakeupVars, Calls
    <3>2. ASSUME NEW w \in Wakeups, waiter[w] # NULL PROVE waiter[w] \in Threads \ {t}
      BY <1>b, <1>c, <3>1, <3>2 DEF WaiterWaitsOrLost
    <3> QED
      BY <1>c, <3>1, <3>2 DEF WaiterWaitsOrLost
  <2>5. HeldIsCountOf(G)'
    <3> SUFFICES ASSUME NEW x \in G, NEW n \in Mutexes
                 PROVE  \/ held'[x][n] = IF owner'[n] = x /\ ~Awaits(x, n)' THEN count'[n] ELSE 0
                        \/ pc'[x] = "lost" /\ held'[x][n] = 0
      BY DEF HeldIsCountOf
    <3>1. /\ \/ held[x][n] = IF owner[n] = x /\ ~Awaits(x, n) THEN count[n] ELSE 0
             \/ pc[x] = "lost" /\ held[x][n] = 0
          /\ x \in Threads /\ owner' = owner /\ arg' = arg /\ pc[t] = "app"
      BY <1>4, <1>c DEF mutex_unlock, HeldIsCountOf, Calls
    <3>2. /\ Awaits(x, n)' <=> Awaits(x, n)
          /\ pc'[x] = "lost" <=> pc[x] = "lost"
      BY <1>4, <1>b, <3>1 DEF mutex_unlock, panic, Awaits
    <3>3. CASE UNCHANGED <<count, held>>
      BY <3>1, <3>2, <3>3
    <3>4. CASE /\ owner[m] = t
               /\ count' = [count EXCEPT ![m] = @ - 1]
               /\ held' = [held EXCEPT ![t][m] = @ - 1]
      <4>1. CASE x = t /\ n = m
        <5>1. held'[x][n] = held[x][n] - 1 /\ count'[n] = count[n] - 1
          BY <1>b, <3>1, <3>4, <4>1
        <5>2. ~Awaits(x, n) /\ pc[x] # "lost"
          BY <3>1, <4>1 DEF Awaits
        <5> QED
          BY <3>1, <3>2, <3>4, <4>1, <5>1, <5>2
      <4>2. CASE x = t /\ n # m
        BY <1>b, <3>1, <3>2, <3>4, <4>2
      <4>3. CASE x # t
        BY <1>b, <3>1, <3>2, <3>4, <4>3
      <4> QED
        BY <4>1, <4>2, <4>3
    <3> QED
      BY <1>4, <3>3, <3>4 DEF mutex_unlock
  <2>6. HandedOverTo(G)'
    <3> SUFFICES ASSUME NEW x \in G, NEW n \in Mutexes, Awaits(x, n)', owner'[n] = x
                 PROVE  count'[n] = 1 /\ state'[x] # "BLOCKED"
      BY DEF HandedOverTo
    <3>1. /\ x \in Threads /\ pc[t] = "app" /\ UNCHANGED <<owner, arg>>
          /\ Awaits(x, n)
      BY <1>4, <1>b DEF mutex_unlock, panic, Calls, Awaits
    <3>2. x # t /\ count[n] = 1 /\ state[x] # "BLOCKED"
      BY <1>c, <3>1 DEF HandedOverTo, Awaits
    <3>3. state'[x] = state[x]
      BY <1>4, <1>b, <3>1, <3>2 DEF mutex_unlock, panic, AllThreads
    <3>4. count'[n] = count[n]
      BY <1>4, <1>b, <3>1, <3>2 DEF mutex_unlock
    <3> QED
      BY <3>2, <3>3, <3>4
  <2>7. MutexBlocked'
    BY <1>4, <1>b, <1>c, ThreadsAssumption DEF mutex_unlock, panic, Blocked, MutexBlocked,
       QueuedWaits, WaiterWaitsOrLost, Awaits, Calls, Runs, AllThreads, threadVars,
       mutexVars, queueVars, wakeupVars, callVars
  <2>8. WakeupBlocked'
    BY <1>4, <1>b, <1>c, ThreadsAssumption DEF mutex_unlock, panic, Blocked, WakeupBlocked,
       WaiterWaitsOrLost, Calls, Runs, AllThreads, threadVars, mutexVars, queueVars,
       wakeupVars, callVars
  <2>9. BlockedIsQueued'
    <3>1. \A x \in Threads : state'[x] = "BLOCKED" => state[x] = "BLOCKED" /\ block'[x] = block[x]
      BY <1>4, <1>b DEF mutex_unlock, panic, AllThreads
    <3> QED
      BY <1>4, <1>c, <3>1 DEF mutex_unlock, queueVars, BlockedIsQueued
  <2> QED
    BY <2>1, <2>2, <2>3, <2>4, <2>5, <2>6, <2>7, <2>8, <2>9 DEF ControlKept, ControlParts
<1>5. ASSUME NEW t \in Threads, NEW m \in Mutexes, mutex_unlock_last(t, m)
      PROVE  ControlKept(G)
  <2>0. /\ Calls(t) /\ count[m] = 1 /\ owner[m] = t
        /\ held' = [held EXCEPT ![t][m] = @ - 1]
        /\ UNCHANGED <<current, frozen, waiter, pc, arg>>
    BY <1>5 DEF mutex_unlock_last, wakeupVars
  <2>1. CASE waiters[m] = {}
    <3>0. /\ count' = [count EXCEPT ![m] = 0]
          /\ UNCHANGED <<state, block, owner, waiters>>
      BY <1>5, <2>1 DEF mutex_unlock_last, mutex_unlock_internal, queueVars
    <3>1. OneRunning'
      BY <1>b, <1>c, <2>0, <2>1, <3>0, ThreadsAssumption DEF OneRunning, AllThreads,
         NotBlocked, Blocked
    <3>2. FrozenRunsIdle'
      BY <1>b, <1>c, <2>0, <2>1, <3>0, ThreadsAssumption DEF FrozenRunsIdle, AllThreads,
         NotBlocked, Blocked
    <3>3. QueuedWaits'
      BY <1>b, <1>c, <2>0, <2>1, <3>0, ThreadsAssumption DEF QueuedWaits, Awaits,
         WaiterWaitsOrLost, MutexBlocked, Calls, Runs, AllThreads, NotBlocked, Blocked
    <3>4. WaiterWaitsOrLost'
      BY <1>b, <1>c, <2>0, <2>1, <3>0, ThreadsAssumption DEF WaiterWaitsOrLost, Calls, Runs,
         AllThreads, NotBlocked, Blocked
    <3>5. HeldIsCountOf(G)'
      BY <1>b, <1>c, <2>0, <2>1, <3>0, ThreadsAssumption DEF HeldIsCountOf, HandedOverTo,
         QueuedWaits, Awaits, Calls, Runs, AllThreads, NotBlocked, Blocked
    <3>6. HandedOverTo(G)'
      <4> SUFFICES ASSUME NEW x \in G, NEW n \in Mutexes, Awaits(x, n)', owner'[n] = x
                   PROVE  count'[n] = 1 /\ state'[x] # "BLOCKED"
        BY DEF HandedOverTo
      <4>1. /\ x \in Threads /\ pc[t] = "app" /\ owner[n] = x /\ Awaits(x, n)
        BY <2>0, <3>0 DEF Calls, Awaits
      <4>2. n # m
        BY <2>0, <4>1 DEF Awaits
      <4> QED
        BY <1>b, <1>c, <3>0, <4>1, <4>2 DEF HandedOverTo
    <3>7. MutexBlocked'
      BY <1>b, <1>c, <2>0, <2>1, <3>0, ThreadsAssumption DEF MutexBlocked, QueuedWaits,
         WaiterWaitsOrLost, Awaits, Calls, Runs, AllThreads, NotBlocked, Blocked
    <3>8. WakeupBlocked'
      BY <1>b, <1>c, <2>0, <2>1, <3>0, ThreadsAssumption DEF WakeupBlocked,
         WaiterWaitsOrLost, Calls, Runs, AllThreads, NotBlocked, Blocked
    <3>9. BlockedIsQueued'
      BY <1>b, <1>c, <2>0, <2>1, <3>0, ThreadsAssumption DEF BlockedIsQueued, MutexBlocked,
         QueuedWaits, WaiterWaitsOrLost, Awaits, Calls, Runs, AllThreads, NotBlocked,
         Blocked
    <3> QED
      BY <3>1, <3>2, <3>3, <3>4, <3>5, <3>6, <3>7, <3>8, <3>9 DEF ControlKept, ControlParts
  <2>2. CASE waiters[m] # {}
    <3>0. PICK h \in waiters[m] :
            /\ count' = [count EXCEPT ![m] = 1]
            /\ owner' = [owner EXCEPT ![m] = h]
            /\ state' = [state EXCEPT ![h] = "READY"]
            /\ block' = [block EXCEPT ![h] = NotBlocked]
            /\ waiters' = [n \in Mutexes |-> waiters[n] \ {h}]
      BY <1>5, <2>2 DEF mutex_unlock_last, mutex_unlock_internal, mutex_remove_from_queue
    <3>1. OneRunning'
      BY <1>b, <1>c, <2>0, <3>0, ThreadsAssumption DEF OneRunning, AllThreads, NotBlocked,
         Blocked
    <3>2. FrozenRunsIdle'
      BY <1>b, <1>c, <2>0, <3>0, ThreadsAssumption DEF FrozenRunsIdle, AllThreads,
         NotBlocked, Blocked
    <3>3. QueuedWaits'
      BY <1>b, <1>c, <2>0, <3>0, ThreadsAssumption DEF QueuedWaits, Awaits,
         WaiterWaitsOrLost, MutexBlocked, Calls, Runs, AllThreads, NotBlocked, Blocked
    <3>4. WaiterWaitsOrLost'
      BY <1>b, <1>c, <2>0, <3>0, ThreadsAssumption DEF WaiterWaitsOrLost, Calls, Runs,
         AllThreads, NotBlocked, Blocked
    <3>5. HeldIsCountOf(G)'
      BY <1>b, <1>c, <2>0, <3>0, ThreadsAssumption DEF HeldIsCountOf, HandedOverTo,
         QueuedWaits, Awaits, Calls, Runs, AllThreads, NotBlocked, Blocked
    <3>6. HandedOverTo(G)'
      <4> SUFFICES ASSUME NEW x \in G, NEW n \in Mutexes, Awaits(x, n)', owner'[n] = x
                   PROVE  count'[n] = 1 /\ state'[x] # "BLOCKED"
        BY DEF HandedOverTo
      <4>1. /\ x \in Threads /\ h \in Threads /\ Awaits(x, n)
        BY <1>b, <2>0, <3>0 DEF Awaits
      <4>2. CASE n = m
        BY <1>b, <3>0, <4>1, <4>2 DEF AllThreads
      <4>3. CASE n # m
        <5>1. owner[n] = x /\ count'[n] = count[n]
          BY <1>b, <3>0, <4>3
        <5>2. state'[x] = "BLOCKED" => state[x] = "BLOCKED"
          BY <1>b, <3>0, <4>1 DEF AllThreads
        <5> QED
          BY <1>c, <4>1, <5>1, <5>2 DEF HandedOverTo
      <4> QED
        BY <4>2, <4>3
    <3>7. MutexBlocked'
      BY <1>b, <1>c, <2>0, <3>0, ThreadsAssumption DEF MutexBlocked, QueuedWaits,
         WaiterWaitsOrLost, Awaits, Calls, Runs, AllThreads, NotBlocked, Blocked
    <3>8. WakeupBlocked'
      BY <1>b, <1>c, <2>0, <3>0, ThreadsAssumption DEF WakeupBlocked, WaiterWaitsOrLost,
         Calls, Runs, AllThreads, NotBlocked, Blocked
    <3>9. BlockedIsQueued'
      BY <1>b, <1>c, <2>0, <3>0, ThreadsAssumption DEF BlockedIsQueued, MutexBlocked,
         QueuedWaits, WaiterWaitsOrLost, Awaits, Calls, Runs, AllThreads, NotBlocked,
         Blocked
    <3> QED
      BY <3>1, <3>2, <3>3, <3>4, <3>5, <3>6, <3>7, <3>8, <3>9 DEF ControlKept, ControlParts
  <2> QED
    BY <2>1, <2>2
<1>6. ASSUME NEW t \in Threads, NEW m \in Mutexes, mutex_unlock_abort(t, m)
      PROVE  ControlKept(G)
  <2> DEFINE st == [state EXCEPT ![t] = "DEFUNCT_ACK"]
             bl == [block EXCEPT ![t] = Blocked("PANIC", @.by, @.timed)]
  <2>a. PICK E \in SUBSET Threads : SwitchedFrom(st, bl, frozen, E)
    <3>1. /\ st \in [AllThreads -> States] /\ bl \in [Threads -> BlockRecord]
          /\ NULL \in Threads \cup {NULL} /\ frozen \in BOOLEAN
          /\ \A y \in AllThreads : st[y] = "RUNNING" => y = current
          /\ scheduler_switch(st, bl, signalled, NULL, NULL, frozen)
      BY <1>6, <1>b, <1>c DEF mutex_unlock_abort, OneRunning, NotBlocked, Blocked,
         BlockRecord, BlockTypes, States, AllThreads
    <3> HIDE DEF st, bl
    <3> QED
      BY <1>c, <3>1, SwitchFrom
  <2>1. OneRunning'
    BY <1>6, <1>b, <1>c, <2>a, ThreadsAssumption DEF mutex_unlock_abort, SwitchedFrom,
       NotBlocked, Blocked, OneRunning, AllThreads, threadVars, mutexVars, queueVars,
       wakeupVars, callVars
  <2>2. FrozenRunsIdle'
    BY <1>6, <1>b, <1>c, <2>a, ThreadsAssumption DEF mutex_unlock_abort, SwitchedFrom,
       NotBlocked, Blocked, FrozenRunsIdle, AllThreads, threadVars, mutexVars, queueVars,
       wakeupVars, callVars
  <2>3. QueuedWaits'
    <3> SUFFICES ASSUME NEW n \in Mutexes, NEW x \in waiters'[n]
                 PROVE  /\ Awaits(x, n)' /\ state'[x] \notin {"READY", "RUNNING"}
                        /\ pc'[x] = "mutex_back" => current' # x
      BY DEF QueuedWaits
    <3>1. x \in Threads /\ x \in waiters[n] /\ x \notin E
      BY <1>b, <2>a DEF SwitchedFrom
    <3>2. /\ Awaits(x, n) /\ state[x] \notin {"READY", "RUNNING"}
          /\ pc[x] = "mutex_back" => current # x
      BY <1>c, <3>1 DEF QueuedWaits
    <3>3. \A w \in Wakeups : x # waiter[w]
      BY <1>c, <3>1, QueuedIsNoWaiter
    <3>4. state'[x] \notin {"READY", "RUNNING"}
      <4>1. st[x] \notin {"READY", "RUNNING"}
        BY <1>b, <3>1, <3>2 DEF AllThreads
      <4> QED
        BY <2>a, <3>1, <3>3, <4>1, SwitchFacts
    <3>5. Awaits(x, n)'
      BY <1>6, <1>b, <1>c, <3>1, <3>2 DEF mutex_unlock_abort, Awaits, Calls, Runs, callVars
    <3> QED
      BY <2>a, <3>1, <3>4, <3>5 DEF SwitchedFrom
  <2>4. WaiterWaitsOrLost'
    BY <1>6, <1>b, <1>c, <2>a, ThreadsAssumption DEF mutex_unlock_abort, SwitchedFrom,
       NotBlocked, Blocked, WaiterWaitsOrLost, Calls, Runs, AllThreads, threadVars,
       mutexVars, queueVars, wakeupVars, callVars
  <2>5. HeldIsCountOf(G)'
    BY <1>6, <1>b, <1>c, <2>a, ThreadsAssumption DEF mutex_unlock_abort, SwitchedFrom,
       NotBlocked, Blocked, HeldIsCountOf, HandedOverTo, QueuedWaits, Awaits, Calls, Runs,
       AllThreads, threadVars, mutexVars, queueVars, wakeupVars, callVars
  <2>6. HandedOverTo(G)'
    <3> SUFFICES ASSUME NEW x \in G, NEW n \in Mutexes, Awaits(x, n)', owner'[n] = x
                 PROVE  count'[n] = 1 /\ state'[x] # "BLOCKED"
      BY DEF HandedOverTo
    <3>1. Awaits(x, n) /\ owner[n] = x
      BY <1>6, <1>b DEF mutex_unlock_abort, Awaits, callVars, mutexVars
    <3>2. count[n] = 1 /\ state[x] # "BLOCKED"
      BY <1>c, <3>1 DEF HandedOverTo
    <3>3. state'[x] # "BLOCKED"
      <4>1. st[x] # "BLOCKED"
        BY <1>b, <3>2 DEF AllThreads
      <4> QED
        BY <2>a, <4>1, SwitchFacts
    <3>4. count'[n] = 1
      BY <1>6, <1>b, <3>1, <3>2 DEF mutex_unlock_abort, mutexVars, Awaits, Calls
    <3> QED
      BY <3>3, <3>4
  <2>7. MutexBlocked'
    <3>1. /\ UNCHANGED <<owner, arg>> /\ pc' = [pc EXCEPT ![t] = "dead"]
          /\ t = current /\ pc[t] = "app"
      BY <1>6 DEF mutex_unlock_abort, Calls, Runs
    <3>2. ASSUME NEW x \in Threads, bl[x].type = "MUTEX"
          PROVE  x # t /\ bl[x] = block[x] /\ st[x] = state[x]
      BY <1>b, <3>2 DEF Blocked, AllThreads
    <3> HIDE DEF st, bl
    <3>3. ASSUME NEW x \in Threads, block'[x].type = "MUTEX"
          PROVE  /\ block'[x].by \in Mutexes /\ Awaits(x, block[x].by)'
                 /\ owner'[block'[x].by] # x
                 /\ state'[x] \notin {"READY", "RUNNING"} /\ current' # x
      <4>1. block'[x] = bl[x] /\ x # t /\ bl[x] = block[x] /\ st[x] = state[x]
        BY <2>a, <3>2, <3>3, SwitchFacts
      <4>2. pc'[x] = pc[x]
        BY <1>b, <3>1, <4>1
      <4> QED
        BY <1>c, <2>a, <3>1, <3>3, <4>1, <4>2, SwitchFacts DEF MutexBlocked, Awaits
    <3> QED
      BY <3>3 DEF MutexBlocked
  <2>8. WakeupBlocked'
    BY <1>6, <1>b, <1>c, <2>a, ThreadsAssumption DEF mutex_unlock_abort, SwitchedFrom,
       NotBlocked, Blocked, WakeupBlocked, WaiterWaitsOrLost, Calls, Runs, AllThreads,
       threadVars, mutexVars, queueVars, wakeupVars, callVars
  <2>9. BlockedIsQueued'
    BY <1>6, <1>b, <1>c, <2>a, ThreadsAssumption DEF mutex_unlock_abort, SwitchedFrom,
       NotBlocked, Blocked, BlockedIsQueued, MutexBlocked, QueuedWaits, WaiterWaitsOrLost,
       Awaits, Calls, Runs, AllThreads, threadVars, mutexVars, queueVars, wakeupVars,
       callVars
  <2> QED
    BY <2>1, <2>2, <2>3, <2>4, <2>5, <2>6, <2>7, <2>8, <2>9 DEF ControlKept, ControlParts
<1>7. ASSUME NEW t \in Threads, mutex_lock_return(t)
      PROVE  ControlKept(G)
  <2>1. OneRunning'
    BY <1>7, <1>b, <1>c, ThreadsAssumption DEF mutex_lock_return, OneRunning, AllThreads,
       threadVars, mutexVars, queueVars, wakeupVars, callVars
  <2>2. FrozenRunsIdle'
    BY <1>7, <1>b, <1>c, ThreadsAssumption DEF mutex_lock_return, FrozenRunsIdle,
       AllThreads, threadVars, mutexVars, queueVars, wakeupVars, callVars
  <2>3. QueuedWaits'
    BY <1>7, <1>b, <1>c, ThreadsAssumption DEF mutex_lock_return, QueuedWaits, Awaits,
       WaiterWaitsOrLost, MutexBlocked, Calls, Runs, AllThreads, threadVars, mutexVars,
       queueVars, wakeupVars, callVars
  <2>4. WaiterWaitsOrLost'
    BY <1>7, <1>b, <1>c, ThreadsAssumption DEF mutex_lock_return, WaiterWaitsOrLost, Calls,
       Runs, AllThreads, threadVars, mutexVars, queueVars, wakeupVars, callVars
  <2>5. HeldIsCountOf(G)'
    BY <1>7, <1>b, <1>c, ThreadsAssumption DEF mutex_lock_return, HeldIsCountOf,
       HandedOverTo, QueuedWaits, Awaits, Calls, Runs, AllThreads, threadVars, mutexVars,
       queueVars, wakeupVars, callVars
  <2>6. HandedOverTo(G)'
    BY <1>7, <1>b, <1>c, ThreadsAssumption DEF mutex_lock_return, HandedOverTo, Awaits,
       Calls, Runs, AllThreads, threadVars, mutexVars, queueVars, wakeupVars, callVars
  <2>7. MutexBlocked'
    BY <1>7, <1>b, <1>c, ThreadsAssumption DEF mutex_lock_return, MutexBlocked, QueuedWaits,
       WaiterWaitsOrLost, Awaits, Calls, Runs, AllThreads, threadVars, mutexVars, queueVars,
       wakeupVars, callVars
  <2>8. WakeupBlocked'
    BY <1>7, <1>b, <1>c, ThreadsAssumption DEF mutex_lock_return, WakeupBlocked,
       WaiterWaitsOrLost, Calls, Runs, AllThreads, threadVars, mutexVars, queueVars,
       wakeupVars, callVars
  <2>9. BlockedIsQueued'
    BY <1>7, <1>b, <1>c, ThreadsAssumption DEF mutex_lock_return, BlockedIsQueued,
       MutexBlocked, QueuedWaits, WaiterWaitsOrLost, Awaits, Calls, Runs, AllThreads,
       threadVars, mutexVars, queueVars, wakeupVars, callVars
  <2> QED
    BY <2>1, <2>2, <2>3, <2>4, <2>5, <2>6, <2>7, <2>8, <2>9 DEF ControlKept, ControlParts
<1>8. ASSUME NEW t \in Threads, NEW w \in Wakeups, wakeup_wait(t, w)
      PROVE  ControlKept(G)
  <2>1. OneRunning'
    BY <1>8, <1>b, <1>c, ThreadsAssumption DEF wakeup_wait, panic, Blocked, OneRunning,
       AllThreads, threadVars, mutexVars, queueVars, wakeupVars, callVars
  <2>2. FrozenRunsIdle'
    BY <1>8, <1>b, <1>c, ThreadsAssumption DEF wakeup_wait, panic, Blocked, FrozenRunsIdle,
       AllThreads, threadVars, mutexVars, queueVars, wakeupVars, callVars
  <2>3. QueuedWaits'
    BY <1>8, <1>b, <1>c, ThreadsAssumption DEF wakeup_wait, panic, Blocked, QueuedWaits,
       Awaits, WaiterWaitsOrLost, MutexBlocked, Calls, Runs, AllThreads, threadVars,
       mutexVars, queueVars, wakeupVars, callVars
  <2>4. WaiterWaitsOrLost'
    BY <1>8, <1>b, <1>c, ThreadsAssumption DEF wakeup_wait, panic, Blocked,
       WaiterWaitsOrLost, Calls, Runs, AllThreads, threadVars, mutexVars, queueVars,
       wakeupVars, callVars
  <2>5. HeldIsCountOf(G)'
    BY <1>8, <1>b, <1>c, ThreadsAssumption DEF wakeup_wait, panic, Blocked,
       HeldIsCountOf, HandedOverTo, QueuedWaits, Awaits, Calls, Runs, AllThreads,
       threadVars, mutexVars, queueVars, wakeupVars, callVars
  <2>6. HandedOverTo(G)'
    BY <1>8, <1>b, <1>c, ThreadsAssumption DEF wakeup_wait, panic, Blocked, HandedOverTo,
       Awaits, Calls, Runs, AllThreads, threadVars, mutexVars, queueVars, wakeupVars,
       callVars
  <2>7. MutexBlocked'
    BY <1>8, <1>b, <1>c, ThreadsAssumption DEF wakeup_wait, panic, Blocked, MutexBlocked,
       QueuedWaits, WaiterWaitsOrLost, Awaits, Calls, Runs, AllThreads, threadVars,
       mutexVars, queueVars, wakeupVars, callVars
  <2>8. WakeupBlocked'
    <3>1. UNCHANGED <<current, arg>> /\ t = current /\ pc[t] = "app"
      BY <1>8 DEF wakeup_wait, Calls, Runs
    <3>2. CASE panic(t)
      <4>1. /\ block'[t].type = "PANIC"
            /\ \A x \in Threads \ {t} : state'[x] = state[x] /\ block'[x] = block[x] /\ pc'[x] = pc[x]
        BY <1>b, <3>2 DEF panic, Blocked, AllThreads
      <4> QED
        BY <1>c, <3>1, <4>1 DEF WakeupBlocked
    <3>3. CASE UNCHANGED <<state, block, pc>>
      BY <1>c, <3>1, <3>3 DEF WakeupBlocked
    <3> QED
      BY <1>8, <3>2, <3>3 DEF wakeup_wait
  <2>9. BlockedIsQueued'
    <3>1. \A x \in Threads : state'[x] = "BLOCKED" => state[x] = "BLOCKED" /\ block'[x] = block[x]
      BY <1>8, <1>b DEF wakeup_wait, panic, AllThreads
    <3> QED
      BY <1>8, <1>c, <3>1 DEF wakeup_wait, queueVars, BlockedIsQueued
  <2> QED
    BY <2>1, <2>2, <2>3, <2>4, <2>5, <2>6, <2>7, <2>8, <2>9 DEF ControlKept, ControlParts
<1>9. ASSUME NEW t \in Threads, NEW w \in Wakeups, NEW timed \in BOOLEAN,
            wakeup_wait_block(t, w, timed)
      PROVE  ControlKept(G)
  <2>1. OneRunning'
    BY <1>9, <1>b, <1>c, ThreadsAssumption DEF wakeup_wait_block, Block, Blocked,
       OneRunning, AllThreads, threadVars, mutexVars, queueVars, wakeupVars, callVars
  <2>2. FrozenRunsIdle'
    BY <1>9, <1>b, <1>c, ThreadsAssumption DEF wakeup_wait_block, Block, Blocked,
       FrozenRunsIdle, AllThreads, threadVars, mutexVars, queueVars, wakeupVars, callVars
  <2>3. QueuedWaits'
    BY <1>9, <1>b, <1>c, ThreadsAssumption DEF wakeup_wait_block, Block, Blocked,
       QueuedWaits, Awaits, WaiterWaitsOrLost, MutexBlocked, Calls, Runs, AllThreads,
       threadVars, mutexVars, queueVars, wakeupVars, callVars
  <2>4. WaiterWaitsOrLost'
    BY <1>9, <1>b, <1>c, ThreadsAssumption DEF wakeup_wait_block, Block, Blocked,
       WaiterWaitsOrLost, Calls, Runs, AllThreads, threadVars, mutexVars, queueVars,
       wakeupVars, callVars
  <2>5. HeldIsCountOf(G)'
    BY <1>9, <1>b, <1>c, ThreadsAssumption DEF wakeup_wait_block, Block, Blocked,
       HeldIsCountOf, HandedOverTo, QueuedWaits, Awaits, Calls, Runs, AllThreads,
       threadVars, mutexVars, queueVars, wakeupVars, callVars
  <2>6. HandedOverTo(G)'
    BY <1>9, <1>b, <1>c, ThreadsAssumption DEF wakeup_wait_block, Block, Blocked,
       HandedOverTo, Awaits, Calls, Runs, AllThreads, threadVars, mutexVars, queueVars,
       wakeupVars, callVars
  <2>7. MutexBlocked'
    BY <1>9, <1>b, <1>c, ThreadsAssumption DEF wakeup_wait_block, Block, Blocked,
       MutexBlocked, QueuedWaits, WaiterWaitsOrLost, Awaits, Calls, Runs, AllThreads,
       threadVars, mutexVars, queueVars, wakeupVars, callVars
  <2>8. WakeupBlocked'
    BY <1>9, <1>b, <1>c, ThreadsAssumption DEF wakeup_wait_block, Block, Blocked,
       WakeupBlocked, WaiterWaitsOrLost, Calls, Runs, AllThreads, threadVars, mutexVars,
       queueVars, wakeupVars, callVars
  <2>9. BlockedIsQueued'
    BY <1>9, <1>b, <1>c, ThreadsAssumption DEF wakeup_wait_block, Block, Blocked,
       BlockedIsQueued, MutexBlocked, QueuedWaits, WaiterWaitsOrLost, Awaits, Calls, Runs,
       AllThreads, threadVars, mutexVars, queueVars, wakeupVars, callVars
  <2> QED
    BY <2>1, <2>2, <2>3, <2>4, <2>5, <2>6, <2>7, <2>8, <2>9 DEF ControlKept, ControlParts
<1>10. ASSUME NEW t \in Threads, wakeup_wait_return(t)
      PROVE  ControlKept(G)
  <2>1. OneRunning'
    BY <1>10, <1>b, <1>c, ThreadsAssumption DEF wakeup_wait_return, OneRunning, AllThreads,
       threadVars, mutexVars, queueVars, wakeupVars, callVars
  <2>2. FrozenRunsIdle'
    BY <1>10, <1>b, <1>c, ThreadsAssumption DEF wakeup_wait_return, FrozenRunsIdle,
       AllThreads, threadVars, mutexVars, queueVars, wakeupVars, callVars
  <2>3. QueuedWaits'
    BY <1>10, <1>b, <1>c, ThreadsAssumption DEF wakeup_wait_return, QueuedWaits, Awaits,
       WaiterWaitsOrLost, MutexBlocked, Calls, Runs, AllThreads, threadVars, mutexVars,
       queueVars, wakeupVars, callVars
  <2>4. WaiterWaitsOrLost'
    <3>1. ASSUME NEW w \in Wakeups, waiter'[w] # NULL
          PROVE  /\ pc'[waiter'[w]] \in {"wakeup_yield", "wakeup_back", "lost"}
                 /\ arg'[waiter'[w]] = w
      <4>1. /\ waiter'[w] = waiter[w] /\ arg' = arg
            /\ pc[t] \in {"wakeup_back", "wakeup_test", "wakeup_take"}
            /\ pc[t] = "wakeup_back" => w # arg[t]
            /\ \A x \in Threads \ {t} : pc'[x] = pc[x]
        BY <1>10, <1>b, <3>1 DEF wakeup_wait_return, wakeupVars
      <4>2. /\ waiter[w] \in Threads
            /\ pc[waiter[w]] \in {"wakeup_yield", "wakeup_back", "lost"} /\ arg[waiter[w]] = w
        BY <1>b, <1>c, <3>1, <4>1 DEF WaiterWaitsOrLost
      <4>3. waiter[w] # t
        BY <4>1, <4>2
      <4> QED
        BY <4>1, <4>2, <4>3
    <3> QED
      BY <3>1 DEF WaiterWaitsOrLost
  <2>5. HeldIsCountOf(G)'
    BY <1>10, <1>b, <1>c, ThreadsAssumption DEF wakeup_wait_return, HeldIsCountOf,
       HandedOverTo, QueuedWaits, Awaits, Calls, Runs, AllThreads, threadVars, mutexVars,
       queueVars, wakeupVars, callVars
  <2>6. HandedOverTo(G)'
    BY <1>10, <1>b, <1>c, ThreadsAssumption DEF wakeup_wait_return, HandedOverTo, Awaits,
       Calls, Runs, AllThreads, threadVars, mutexVars, queueVars, wakeupVars, callVars
  <2>7. MutexBlocked'
    BY <1>10, <1>b, <1>c, ThreadsAssumption DEF wakeup_wait_return, MutexBlocked,
       QueuedWaits, WaiterWaitsOrLost, Awaits, Calls, Runs, AllThreads, threadVars,
       mutexVars, queueVars, wakeupVars, callVars
  <2>8. WakeupBlocked'
    BY <1>10, <1>b, <1>c, ThreadsAssumption DEF wakeup_wait_return, WakeupBlocked,
       WaiterWaitsOrLost, Calls, Runs, AllThreads, threadVars, mutexVars, queueVars,
       wakeupVars, callVars
  <2>9. BlockedIsQueued'
    BY <1>10, <1>b, <1>c, ThreadsAssumption DEF wakeup_wait_return, BlockedIsQueued,
       MutexBlocked, QueuedWaits, WaiterWaitsOrLost, Awaits, Calls, Runs, AllThreads,
       threadVars, mutexVars, queueVars, wakeupVars, callVars
  <2> QED
    BY <2>1, <2>2, <2>3, <2>4, <2>5, <2>6, <2>7, <2>8, <2>9 DEF ControlKept, ControlParts
<1>11. ASSUME NEW t \in Threads, NEW timed \in BOOLEAN, sleep(t, timed)
      PROVE  ControlKept(G)
  <2>1. OneRunning'
    BY <1>11, <1>b, <1>c, ThreadsAssumption DEF sleep, Block, Blocked, OneRunning,
       AllThreads, threadVars, mutexVars, queueVars, wakeupVars, callVars
  <2>2. FrozenRunsIdle'
    BY <1>11, <1>b, <1>c, ThreadsAssumption DEF sleep, Block, Blocked, FrozenRunsIdle,
       AllThreads, threadVars, mutexVars, queueVars, wakeupVars, callVars
  <2>3. QueuedWaits'
    BY <1>11, <1>b, <1>c, ThreadsAssumption DEF sleep, Block, Blocked, QueuedWaits, Awaits,
       WaiterWaitsOrLost, MutexBlocked, Calls, Runs, AllThreads, threadVars, mutexVars,
       queueVars, wakeupVars, callVars
  <2>4. WaiterWaitsOrLost'
    BY <1>11, <1>b, <1>c, ThreadsAssumption DEF sleep, Block, Blocked, WaiterWaitsOrLost,
       Calls, Runs, AllThreads, threadVars, mutexVars, queueVars, wakeupVars, callVars
  <2>5. HeldIsCountOf(G)'
    BY <1>11, <1>b, <1>c, ThreadsAssumption DEF sleep, Block, Blocked, HeldIsCountOf,
       HandedOverTo, QueuedWaits, Awaits, Calls, Runs, AllThreads, threadVars, mutexVars,
       queueVars, wakeupVars, callVars
  <2>6. HandedOverTo(G)'
    BY <1>11, <1>b, <1>c, ThreadsAssumption DEF sleep, Block, Blocked, HandedOverTo, Awaits,
       Calls, Runs, AllThreads, threadVars, mutexVars, queueVars, wakeupVars, callVars
  <2>7. MutexBlocked'
    BY <1>11, <1>b, <1>c, ThreadsAssumption DEF sleep, Block, Blocked, MutexBlocked,
       QueuedWaits, WaiterWaitsOrLost, Awaits, Calls, Runs, AllThreads, threadVars,
       mutexVars, queueVars, wakeupVars, callVars
  <2>8. WakeupBlocked'
    BY <1>11, <1>b, <1>c, ThreadsAssumption DEF sleep, Block, Blocked, WakeupBlocked,
       WaiterWaitsOrLost, Calls, Runs, AllThreads, threadVars, mutexVars, queueVars,
       wakeupVars, callVars
  <2>9. BlockedIsQueued'
    BY <1>11, <1>b, <1>c, ThreadsAssumption DEF sleep, Block, Blocked, BlockedIsQueued,
       MutexBlocked, QueuedWaits, WaiterWaitsOrLost, Awaits, Calls, Runs, AllThreads,
       threadVars, mutexVars, queueVars, wakeupVars, callVars
  <2> QED
    BY <2>1, <2>2, <2>3, <2>4, <2>5, <2>6, <2>7, <2>8, <2>9 DEF ControlKept, ControlParts
<1>12. ASSUME NEW t \in Threads, NEW x \in Threads, NEW p \in Prios,
            thread_set_priority(t, x, p)
      PROVE  ControlKept(G)
  <2>1. OneRunning'
    BY <1>12, <1>b, <1>c, ThreadsAssumption DEF thread_set_priority, OneRunning, AllThreads,
       threadVars, mutexVars, queueVars, wakeupVars, callVars
  <2>2. FrozenRunsIdle'
    BY <1>12, <1>b, <1>c, ThreadsAssumption DEF thread_set_priority, FrozenRunsIdle,
       AllThreads, threadVars, mutexVars, queueVars, wakeupVars, callVars
  <2>3. QueuedWaits'
    BY <1>12, <1>b, <1>c, ThreadsAssumption DEF thread_set_priority, QueuedWaits, Awaits,
       WaiterWaitsOrLost, MutexBlocked, Calls, Runs, AllThreads, threadVars, mutexVars,
       queueVars, wakeupVars, callVars
  <2>4. WaiterWaitsOrLost'
    BY <1>12, <1>b, <1>c, ThreadsAssumption DEF thread_set_priority, WaiterWaitsOrLost,
       Calls, Runs, AllThreads, threadVars, mutexVars, queueVars, wakeupVars, callVars
  <2>5. HeldIsCountOf(G)'
    BY <1>12, <1>b, <1>c, ThreadsAssumption DEF thread_set_priority, HeldIsCountOf,
       HandedOverTo, QueuedWaits, Awaits, Calls, Runs, AllThreads, threadVars, mutexVars,
       queueVars, wakeupVars, callVars
  <2>6. HandedOverTo(G)'
    BY <1>12, <1>b, <1>c, ThreadsAssumption DEF thread_set_priority, HandedOverTo, Awaits,
       Calls, Runs, AllThreads, threadVars, mutexVars, queueVars, wakeupVars, callVars
  <2>7. MutexBlocked'
    BY <1>12, <1>b, <1>c, ThreadsAssumption DEF thread_set_priority, MutexBlocked,
       QueuedWaits, WaiterWaitsOrLost, Awaits, Calls, Runs, AllThreads, threadVars,
       mutexVars, queueVars, wakeupVars, callVars
  <2>8. WakeupBlocked'
    BY <1>12, <1>b, <1>c, ThreadsAssumption DEF thread_set_priority, WakeupBlocked,
       WaiterWaitsOrLost, Calls, Runs, AllThreads, threadVars, mutexVars, queueVars,
       wakeupVars, callVars
  <2>9. BlockedIsQueued'
    BY <1>12, <1>b, <1>c, ThreadsAssumption DEF thread_set_priority, BlockedIsQueued,
       MutexBlocked, QueuedWaits, WaiterWaitsOrLost, Awaits, Calls, Runs, AllThreads,
       threadVars, mutexVars, queueVars, wakeupVars, callVars
  <2> QED
    BY <2>1, <2>2, <2>3, <2>4, <2>5, <2>6, <2>7, <2>8, <2>9 DEF ControlKept, ControlParts
<1>13. ASSUME tick
      PROVE  ControlKept(G)
  <2>a. PICK E \in SUBSET Threads : SwitchedFrom(state, block, frozen, E)
    <3>1. /\ state \in [AllThreads -> States] /\ block \in [Threads -> BlockRecord]
          /\ NULL \in Threads \cup {NULL} /\ frozen \in BOOLEAN
          /\ \A y \in AllThreads : state[y] = "RUNNING" => y = current
          /\ scheduler_switch(state, block, signalled, NULL, NULL, frozen)
      BY <1>13, <1>b, <1>c DEF tick, OneRunning, NotBlocked, Blocked, BlockRecord,
         BlockTypes, States, AllThreads
    <3> QED
      BY <1>c, <3>1, SwitchFrom
  <2>1. OneRunning'
    BY <1>13, <1>b, <1>c, <2>a, ThreadsAssumption DEF tick, SwitchedFrom, NotBlocked,
       Blocked, OneRunning, AllThreads, threadVars, mutexVars, queueVars, wakeupVars,
       callVars
  <2>2. FrozenRunsIdle'
    BY <1>13, <1>b, <1>c, <2>a, ThreadsAssumption DEF tick, SwitchedFrom, NotBlocked,
       Blocked, FrozenRunsIdle, AllThreads, threadVars, mutexVars, queueVars, wakeupVars,
       callVars
  <2>3. QueuedWaits'
    <3> SUFFICES ASSUME NEW n \in Mutexes, NEW x \in waiters'[n]
                 PROVE  /\ Awaits(x, n)' /\ state'[x] \notin {"READY", "RUNNING"}
                        /\ pc'[x] = "mutex_back" => current' # x
      BY DEF QueuedWaits
    <3>1. x \in Threads /\ x \in waiters[n] /\ x \notin E
      BY <1>b, <2>a DEF SwitchedFrom
    <3>2. /\ Awaits(x, n) /\ state[x] \notin {"READY", "RUNNING"}
          /\ pc[x] = "mutex_back" => current # x
      BY <1>c, <3>1 DEF QueuedWaits
    <3>3. \A w \in Wakeups : x # waiter[w]
      BY <1>c, <3>1, QueuedIsNoWaiter
    <3>4. state'[x] \notin {"READY", "RUNNING"}
      BY <1>13, <1>b, <2>a, <3>1, <3>2, <3>3 DEF tick, SwitchedFrom, AllThreads
    <3>5. Awaits(x, n)'
      BY <1>13, <1>b, <1>c, <3>1, <3>2 DEF tick, Awaits, Calls, Runs, callVars
    <3> QED
      BY <2>a, <3>1, <3>4, <3>5 DEF SwitchedFrom
  <2>4. WaiterWaitsOrLost'
    BY <1>13, <1>b, <1>c, <2>a, ThreadsAssumption DEF tick, SwitchedFrom, NotBlocked,
       Blocked, WaiterWaitsOrLost, Calls, Runs, AllThreads, threadVars, mutexVars,
       queueVars, wakeupVars, callVars
  <2>5. HeldIsCountOf(G)'
    BY <1>13, <1>b, <1>c, <2>a, ThreadsAssumption DEF tick, SwitchedFrom, NotBlocked,
       Blocked, HeldIsCountOf, HandedOverTo, QueuedWaits, Awaits, Calls, Runs, AllThreads,
       threadVars, mutexVars, queueVars, wakeupVars, callVars
  <2>6. HandedOverTo(G)'
    <3> SUFFICES ASSUME NEW x \in G, NEW n \in Mutexes, Awaits(x, n)', owner'[n] = x
                 PROVE  count'[n] = 1 /\ state'[x] # "BLOCKED"
      BY DEF HandedOverTo
    <3>1. Awaits(x, n) /\ owner[n] = x
      BY <1>13, <1>b DEF tick, Awaits, callVars, mutexVars
    <3>2. count[n] = 1 /\ state[x] # "BLOCKED"
      BY <1>c, <3>1 DEF HandedOverTo
    <3>3. state'[x] # "BLOCKED"
      BY <1>13, <1>b, <2>a, <3>2 DEF tick, SwitchedFrom, AllThreads
    <3>4. count'[n] = 1
      BY <1>13, <1>b, <3>1, <3>2 DEF tick, mutexVars, Awaits, Calls
    <3> QED
      BY <3>3, <3>4
  <2>7. MutexBlocked'
    BY <1>13, <1>b, <1>c, <2>a, ThreadsAssumption DEF tick, SwitchedFrom, NotBlocked,
       Blocked, MutexBlocked, QueuedWaits, WaiterWaitsOrLost, Awaits, Calls, Runs,
       AllThreads, threadVars, mutexVars, queueVars, wakeupVars, callVars
  <2>8. WakeupBlocked'
    BY <1>13, <1>b, <1>c, <2>a, ThreadsAssumption DEF tick, SwitchedFrom, NotBlocked,
       Blocked, WakeupBlocked, WaiterWaitsOrLost, Calls, Runs, AllThreads, threadVars,
       mutexVars, queueVars, wakeupVars, callVars
  <2>9. BlockedIsQueued'
    BY <1>13, <1>b, <1>c, <2>a, ThreadsAssumption DEF tick, SwitchedFrom, NotBlocked,
       Blocked, BlockedIsQueued, MutexBlocked, QueuedWaits, WaiterWaitsOrLost, Awaits,
       Calls, Runs, AllThreads, threadVars, mutexVars, queueVars, wakeupVars, callVars
  <2> QED
    BY <2>1, <2>2, <2>3, <2>4, <2>5, <2>6, <2>7, <2>8, <2>9 DEF ControlKept, ControlParts
<1>14. ASSUME NEW w \in Wakeups, wakeup_signal(w)
      PROVE  ControlKept(G)
  <2>1. OneRunning'
    BY <1>14, <1>b, <1>c, ThreadsAssumption DEF wakeup_signal, SignalState, SignalBlock,
       NotBlocked, Blocked, OneRunning, AllThreads, threadVars, mutexVars, queueVars,
       wakeupVars, callVars
  <2>2. FrozenRunsIdle'
    BY <1>14, <1>b, <1>c, ThreadsAssumption DEF wakeup_signal, SignalState, SignalBlock,
       NotBlocked, Blocked, FrozenRunsIdle, AllThreads, threadVars, mutexVars, queueVars,
       wakeupVars, callVars
  <2>3. QueuedWaits'
    <3>1. UNCHANGED <<current, waiters, pc, arg>>
      BY <1>14 DEF wakeup_signal, queueVars, callVars
    <3>2. ASSUME NEW n \in Mutexes, NEW x \in waiters[n] PROVE x # waiter[w]
      BY <1>c, <3>2, QueuedIsNoWaiter
    <3>3. \A x \in Threads : x # waiter[w] => state'[x] = state[x]
      BY <1>14, <1>b DEF wakeup_signal, SignalState, AllThreads
    <3> QED
      BY <1>b, <1>c, <3>1, <3>2, <3>3 DEF QueuedWaits, Awaits
  <2>4. WaiterWaitsOrLost'
    BY <1>14, <1>b, <1>c, ThreadsAssumption DEF wakeup_signal, SignalState, SignalBlock,
       NotBlocked, Blocked, WaiterWaitsOrLost, Calls, Runs, AllThreads, threadVars,
       mutexVars, queueVars, wakeupVars, callVars
  <2>5. HeldIsCountOf(G)'
    BY <1>14, <1>b, <1>c, ThreadsAssumption DEF wakeup_signal, SignalState, SignalBlock,
       NotBlocked, Blocked, HeldIsCountOf, HandedOverTo, QueuedWaits, Awaits, Calls, Runs,
       AllThreads, threadVars, mutexVars, queueVars, wakeupVars, callVars
  <2>6. HandedOverTo(G)'
    BY <1>14, <1>b, <1>c, ThreadsAssumption DEF wakeup_signal, SignalState, SignalBlock,
       NotBlocked, Blocked, HandedOverTo, Awaits, Calls, Runs, AllThreads, threadVars,
       mutexVars, queueVars, wakeupVars, callVars
  <2>7. MutexBlocked'
    BY <1>14, <1>b, <1>c, ThreadsAssumption DEF wakeup_signal, SignalState, SignalBlock,
       NotBlocked, Blocked, MutexBlocked, QueuedWaits, WaiterWaitsOrLost, Awaits, Calls,
       Runs, AllThreads, threadVars, mutexVars, queueVars, wakeupVars, callVars
  <2>8. WakeupBlocked'
    BY <1>14, <1>b, <1>c, ThreadsAssumption DEF wakeup_signal, SignalState, SignalBlock,
       NotBlocked, Blocked, WakeupBlocked, WaiterWaitsOrLost, Calls, Runs, AllThreads,
       threadVars, mutexVars, queueVars, wakeupVars, callVars
  <2>9. BlockedIsQueued'
    BY <1>14, <1>b, <1>c, ThreadsAssumption DEF wakeup_signal, SignalState, SignalBlock,
       NotBlocked, Blocked, BlockedIsQueued, MutexBlocked, QueuedWaits, WaiterWaitsOrLost,
       Awaits, Calls, Runs, AllThreads, threadVars, mutexVars, queueVars, wakeupVars,
       callVars
  <2> QED
    BY <2>1, <2>2, <2>3, <2>4, <2>5, <2>6, <2>7, <2>8, <2>9 DEF ControlKept, ControlParts
<1>15. ASSUME NEW w \in Wakeups, wakeup_signal_idle(w)
      PROVE  ControlKept(G)
  <2> DEFINE st == SignalState(w)
             bl == SignalBlock(w)
  <2>a. PICK E \in SUBSET Threads : SwitchedFrom(st, bl, frozen, E)
    <3>1. /\ st \in [AllThreads -> States] /\ bl \in [Threads -> BlockRecord]
          /\ waiter[w] \in Threads \cup {NULL} /\ frozen \in BOOLEAN
          /\ \A y \in AllThreads : st[y] = "RUNNING" => y = current
          /\ scheduler_switch(st, bl, [signalled EXCEPT ![w] = TRUE], waiter[w], NULL, frozen)
      BY <1>15, <1>b, <1>c DEF wakeup_signal_idle, SignalState, SignalBlock, OneRunning,
         NotBlocked, Blocked, BlockRecord, BlockTypes, States, AllThreads
    <3> HIDE DEF st, bl
    <3> QED
      BY <1>c, <3>1, SwitchFrom
  <2>1. OneRunning'
    BY <1>15, <1>b, <1>c, <2>a, ThreadsAssumption DEF wakeup_signal_idle, SwitchedFrom,
       NotBlocked, Blocked, SignalState, SignalBlock, OneRunning, AllThreads, threadVars,
       mutexVars, queueVars, wakeupVars, callVars
  <2>2. FrozenRunsIdle'
    BY <1>15, <1>b, <1>c, <2>a, ThreadsAssumption DEF wakeup_signal_idle, SwitchedFrom,
       NotBlocked, Blocked, SignalState, SignalBlock, FrozenRunsIdle, AllThreads,
       threadVars, mutexVars, queueVars, wakeupVars, callVars
  <2>3. QueuedWaits'
    <3> SUFFICES ASSUME NEW n \in Mutexes, NEW x \in waiters'[n]
                 PROVE  /\ Awaits(x, n)' /\ state'[x] \notin {"READY", "RUNNING"}
                        /\ pc'[x] = "mutex_back" => current' # x
      BY DEF QueuedWaits
    <3>1. x \in Threads /\ x \in waiters[n] /\ x \notin E
      BY <1>b, <2>a DEF SwitchedFrom
    <3>2. /\ Awaits(x, n) /\ state[x] \notin {"READY", "RUNNING"}
          /\ pc[x] = "mutex_back" => current # x
      BY <1>c, <3>1 DEF QueuedWaits
    <3>3. \A v \in Wakeups : x # waiter[v]
      BY <1>c, <3>1, QueuedIsNoWaiter
    <3>4. state'[x] \notin {"READY", "RUNNING"}
      BY <1>15, <1>b, <2>a, <3>1, <3>2, <3>3 DEF wakeup_signal_idle, SwitchedFrom,
         AllThreads, SignalState
    <3>5. Awaits(x, n)'
      BY <1>15, <1>b, <1>c, <3>1, <3>2 DEF wakeup_signal_idle, Awaits, Calls, Runs, callVars
    <3> QED
      BY <2>a, <3>1, <3>4, <3>5 DEF SwitchedFrom
  <2>4. WaiterWaitsOrLost'
    BY <1>15, <1>b, <1>c, <2>a, ThreadsAssumption DEF wakeup_signal_idle, SwitchedFrom,
       NotBlocked, Blocked, SignalState, SignalBlock, WaiterWaitsOrLost, Calls, Runs,
       AllThreads, threadVars, mutexVars, queueVars, wakeupVars, callVars
  <2>5. HeldIsCountOf(G)'
    BY <1>15, <1>b, <1>c, <2>a, ThreadsAssumption DEF wakeup_signal_idle, SwitchedFrom,
       NotBlocked, Blocked, SignalState, SignalBlock, HeldIsCountOf, HandedOverTo,
       QueuedWaits, Awaits, Calls, Runs, AllThreads, threadVars, mutexVars, queueVars,
       wakeupVars, callVars
  <2>6. HandedOverTo(G)'
    <3> SUFFICES ASSUME NEW x \in G, NEW n \in Mutexes, Awaits(x, n)', owner'[n] = x
                 PROVE  count'[n] = 1 /\ state'[x] # "BLOCKED"
      BY DEF HandedOverTo
    <3>1. Awaits(x, n) /\ owner[n] = x
      BY <1>15, <1>b DEF wakeup_signal_idle, Awaits, callVars, mutexVars
    <3>2. count[n] = 1 /\ state[x] # "BLOCKED"
      BY <1>c, <3>1 DEF HandedOverTo
    <3>3. state'[x] # "BLOCKED"
      <4>1. st[x] # "BLOCKED"
        BY <1>15, <1>b, <3>2 DEF wakeup_signal_idle, SignalState, AllThreads
      <4> QED
        BY <2>a, <4>1, SwitchFacts
    <3>4. count'[n] = 1
      BY <1>15, <1>b, <3>1, <3>2 DEF wakeup_signal_idle, mutexVars, Awaits, Calls
    <3> QED
      BY <3>3, <3>4
  <2>7. MutexBlocked'
    <3>1. waiter[w] \in Threads /\ UNCHANGED <<owner, pc, arg>>
      BY <1>15, <1>b DEF wakeup_signal_idle, callVars, mutexVars
    <3>2. ASSUME NEW x \in Threads, bl[x].type = "MUTEX"
          PROVE  bl[x] = block[x] /\ st[x] = state[x]
      BY <1>15, <1>b, <3>1, <3>2 DEF SignalState, SignalBlock, NotBlocked, Blocked, AllThreads
    <3> HIDE DEF st, bl
    <3>3. ASSUME NEW x \in Threads, block'[x].type = "MUTEX"
          PROVE  /\ block'[x].by \in Mutexes /\ Awaits(x, block[x].by)'
                 /\ owner'[block'[x].by] # x
                 /\ state'[x] \notin {"READY", "RUNNING"} /\ current' # x
      BY <1>c, <2>a, <3>1, <3>2, <3>3, SwitchFacts DEF MutexBlocked, Awaits
    <3> QED
      BY <3>3 DEF MutexBlocked
  <2>8. WakeupBlocked'
    <3>1. waiter[w] \in Threads /\ UNCHANGED <<waiter, pc, arg>>
      BY <1>15, <1>b DEF wakeup_signal_idle, callVars
    <3>2. ASSUME NEW x \in Threads, bl[x].type = "WAKEUP"
          PROVE  bl[x] = block[x] /\ st[x] = state[x]
      BY <1>15, <1>b, <3>1, <3>2 DEF SignalState, SignalBlock, NotBlocked, Blocked, AllThreads
    <3> HIDE DEF st, bl
    <3>3. ASSUME NEW x \in Threads, block'[x].type = "WAKEUP"
          PROVE  /\ pc'[x] \in {"wakeup_yield", "wakeup_back"} /\ block'[x].by = arg'[x]
                 /\ state'[x] \notin {"READY", "RUNNING"} /\ current' # x
      BY <1>c, <2>a, <3>1, <3>2, <3>3, SwitchFacts DEF WakeupBlocked
    <3> QED
      BY <3>3 DEF WakeupBlocked
  <2>9. BlockedIsQueued'
    BY <1>15, <1>b, <1>c, <2>a, ThreadsAssumption DEF wakeup_signal_idle, SwitchedFrom,
       NotBlocked, Blocked, SignalState, SignalBlock, BlockedIsQueued, MutexBlocked,
       QueuedWaits, WaiterWaitsOrLost, Awaits, Calls, Runs, AllThreads, threadVars,
       mutexVars, queueVars, wakeupVars, callVars
  <2> QED
    BY <2>1, <2>2, <2>3, <2>4, <2>5, <2>6, <2>7, <2>8, <2>9 DEF ControlKept, ControlParts
<1>16. ASSUME UNCHANGED vars PROVE ControlKept(G)
  BY <1>16, <1>c DEF vars, threadVars, mutexVars, queueVars, wakeupVars, callVars,
     ControlKept, ControlParts, OneRunning, FrozenRunsIdle, QueuedWaits, WaiterWaitsOrLost,
     HeldIsCountOf, HandedOverTo, MutexBlocked, WakeupBlocked, BlockedIsQueued, Awaits
<1> QED
  BY <1>1, <1>2, <1>3, <1>4, <1>5, <1>6, <1>7, <1>8, <1>9, <1>10, <1>11, <1>12, <1>13,
     <1>14, <1>15, <1>16 DEF Next, Step, Interrupt

\* A step of those who control threads.
LEMMA ControlKeeps ==
    ASSUME NEW G \in SUBSET Threads, ControlInvariantOf(G),
           Control \/ \E x \in Threads : thread_resume(x)
    PROVE  ControlKept(G)
<1>b. /\ state \in [AllThreads -> States] /\ current \in AllThreads
      /\ block \in [Threads -> BlockRecord] /\ frozen \in BOOLEAN
      /\ signalled \in [Wakeups -> BOOLEAN]
      /\ waiters \in [Mutexes -> SUBSET Threads] /\ owner \in [Mutexes -> Threads \cup {NULL}]
      /\ count \in [Mutexes -> Nat] /\ waiter \in [Wakeups -> Threads \cup {NULL}]
      /\ pc \in [Threads -> PCs] /\ held \in [Threads -> [Mutexes -> Int]]
      /\ arg \in [Threads -> Mutexes \cup Wakeups \cup Threads \cup {NULL}]
  BY DEF ControlInvariantOf, TypeOK, ThreadsType, MutexesType, WakeupsType, CallsType
<1>c. /\ TypeOK /\ OneRunning /\ FrozenRunsIdle
      /\ QueuedWaits /\ WaiterWaitsOrLost /\ HeldIsCountOf(G) /\ HandedOverTo(G)
      /\ MutexBlocked /\ WakeupBlocked /\ BlockedIsQueued
  BY DEF ControlInvariantOf, ControlParts
<1>1. ASSUME NEW x \in Threads, thread_suspend(x)
      PROVE  ControlKept(G)
  <2>1. OneRunning'
    BY <1>1, <1>b, <1>c, ThreadsAssumption DEF thread_suspend, Remaining, SuspendQueue,
       MayBeSuspended, mutex_remove_from_queue, OneRunning, AllThreads, threadVars,
       mutexVars, queueVars, wakeupVars, callVars
  <2>2. FrozenRunsIdle'
    BY <1>1, <1>b, <1>c, ThreadsAssumption DEF thread_suspend, Remaining, SuspendQueue,
       MayBeSuspended, mutex_remove_from_queue, FrozenRunsIdle, AllThreads, threadVars,
       mutexVars, queueVars, wakeupVars, callVars
  <2>3. QueuedWaits'
    BY <1>1, <1>b, <1>c, ThreadsAssumption DEF thread_suspend, Remaining, SuspendQueue,
       MayBeSuspended, mutex_remove_from_queue, QueuedWaits, Awaits, WaiterWaitsOrLost,
       MutexBlocked, Calls, Runs, AllThreads, threadVars, mutexVars, queueVars, wakeupVars,
       callVars
  <2>4. WaiterWaitsOrLost'
    BY <1>1, <1>b, <1>c, ThreadsAssumption DEF thread_suspend, Remaining, SuspendQueue,
       MayBeSuspended, mutex_remove_from_queue, WaiterWaitsOrLost, Calls, Runs, AllThreads,
       threadVars, mutexVars, queueVars, wakeupVars, callVars
  <2>5. HeldIsCountOf(G)'
    BY <1>1, <1>b, <1>c, ThreadsAssumption DEF thread_suspend, Remaining, SuspendQueue,
       MayBeSuspended, mutex_remove_from_queue, HeldIsCountOf, HandedOverTo, QueuedWaits,
       Awaits, Calls, Runs, AllThreads, threadVars, mutexVars, queueVars, wakeupVars,
       callVars
  <2>6. HandedOverTo(G)'
    <3> SUFFICES ASSUME NEW y \in G, NEW n \in Mutexes, Awaits(y, n)', owner'[n] = y
                 PROVE  count'[n] = 1 /\ state'[y] # "BLOCKED"
      BY DEF HandedOverTo
    <3>1. y \in Threads /\ Awaits(y, n) /\ owner[n] = y /\ count' = count
      BY <1>1 DEF thread_suspend, Awaits, callVars, mutexVars
    <3>2. count[n] = 1 /\ state[y] # "BLOCKED"
      BY <1>c, <3>1 DEF HandedOverTo
    <3>3. state'[y] # "BLOCKED"
      BY <1>1, <1>b, <3>1, <3>2 DEF thread_suspend, AllThreads
    <3> QED
      BY <3>1, <3>2, <3>3
  <2>7. MutexBlocked'
    BY <1>1, <1>b, <1>c, ThreadsAssumption DEF thread_suspend, Remaining, SuspendQueue,
       MayBeSuspended, mutex_remove_from_queue, MutexBlocked, QueuedWaits,
       WaiterWaitsOrLost, Awaits, Calls, Runs, AllThreads, threadVars, mutexVars, queueVars,
       wakeupVars, callVars
  <2>8. WakeupBlocked'
    BY <1>1, <1>b, <1>c, ThreadsAssumption DEF thread_suspend, Remaining, SuspendQueue,
       MayBeSuspended, mutex_remove_from_queue, WakeupBlocked, WaiterWaitsOrLost, Calls,
       Runs, AllThreads, threadVars, mutexVars, queueVars, wakeupVars, callVars
  <2>9. BlockedIsQueued'
    BY <1>1, <1>b, <1>c, ThreadsAssumption DEF thread_suspend, Remaining, SuspendQueue,
       MayBeSuspended, mutex_remove_from_queue, BlockedIsQueued, MutexBlocked, QueuedWaits,
       WaiterWaitsOrLost, Awaits, Calls, Runs, AllThreads, threadVars, mutexVars, queueVars,
       wakeupVars, callVars
  <2> QED
    BY <2>1, <2>2, <2>3, <2>4, <2>5, <2>6, <2>7, <2>8, <2>9 DEF ControlKept, ControlParts
<1>2. ASSUME thread_suspend_interrupted
      PROVE  ControlKept(G)
  <2> DEFINE st == [state EXCEPT ![current] = "SUSPENDED"]
  <2>a. PICK E \in SUBSET Threads : SwitchedFrom(st, block, frozen, E)
    <3>1. /\ st \in [AllThreads -> States] /\ block \in [Threads -> BlockRecord]
          /\ NULL \in Threads \cup {NULL} /\ frozen \in BOOLEAN
          /\ \A y \in AllThreads : st[y] = "RUNNING" => y = current
          /\ scheduler_switch(st, block, signalled, NULL, current, frozen)
      BY <1>2, <1>b, <1>c DEF thread_suspend_interrupted, OneRunning, NotBlocked, Blocked,
         BlockRecord, BlockTypes, States, AllThreads
    <3> HIDE DEF st
    <3> QED
      BY <1>c, <3>1, SwitchFrom
  <2>1. OneRunning'
    BY <1>2, <1>b, <1>c, <2>a, ThreadsAssumption DEF thread_suspend_interrupted,
       SwitchedFrom, NotBlocked, Blocked, OneRunning, AllThreads, threadVars, mutexVars,
       queueVars, wakeupVars, callVars
  <2>2. FrozenRunsIdle'
    BY <1>2, <1>b, <1>c, <2>a, ThreadsAssumption DEF thread_suspend_interrupted,
       SwitchedFrom, NotBlocked, Blocked, FrozenRunsIdle, AllThreads, threadVars, mutexVars,
       queueVars, wakeupVars, callVars
  <2>3. QueuedWaits'
    <3> SUFFICES ASSUME NEW n \in Mutexes, NEW x \in waiters'[n]
                 PROVE  /\ Awaits(x, n)' /\ state'[x] \notin {"READY", "RUNNING"}
                        /\ pc'[x] = "mutex_back" => current' # x
      BY DEF QueuedWaits
    <3>1. x \in Threads /\ x \in waiters[n] /\ x \notin E
      BY <1>b, <2>a DEF SwitchedFrom
    <3>2. /\ Awaits(x, n) /\ state[x] \notin {"READY", "RUNNING"}
          /\ pc[x] = "mutex_back" => current # x
      BY <1>c, <3>1 DEF QueuedWaits
    <3>3. \A w \in Wakeups : x # waiter[w]
      BY <1>c, <3>1, QueuedIsNoWaiter
    <3>4. state'[x] \notin {"READY", "RUNNING"}
      BY <1>2, <1>b, <2>a, <3>1, <3>2, <3>3 DEF thread_suspend_interrupted, SwitchedFrom,
         AllThreads
    <3>5. Awaits(x, n)'
      BY <1>2, <1>b, <1>c, <3>1, <3>2 DEF thread_suspend_interrupted, Awaits, Calls, Runs,
         callVars, OneRunning, AllThreads
    <3> QED
      BY <2>a, <3>1, <3>4, <3>5 DEF SwitchedFrom
  <2>4. WaiterWaitsOrLost'
    BY <1>2, <1>b, <1>c, <2>a, ThreadsAssumption DEF thread_suspend_interrupted,
       SwitchedFrom, NotBlocked, Blocked, WaiterWaitsOrLost, Calls, Runs, AllThreads,
       threadVars, mutexVars, queueVars, wakeupVars, callVars
  <2>5. HeldIsCountOf(G)'
    BY <1>2, <1>b, <1>c, <2>a, ThreadsAssumption DEF thread_suspend_interrupted,
       SwitchedFrom, NotBlocked, Blocked, HeldIsCountOf, HandedOverTo, QueuedWaits,
       Awaits, Calls, Runs, AllThreads, threadVars, mutexVars, queueVars, wakeupVars,
       callVars
  <2>6. HandedOverTo(G)'
    <3> SUFFICES ASSUME NEW x \in G, NEW n \in Mutexes, Awaits(x, n)', owner'[n] = x
                 PROVE  count'[n] = 1 /\ state'[x] # "BLOCKED"
      BY DEF HandedOverTo
    <3>1. Awaits(x, n) /\ owner[n] = x
      BY <1>2, <1>b DEF thread_suspend_interrupted, Awaits, callVars, mutexVars
    <3>2. count[n] = 1 /\ state[x] # "BLOCKED"
      BY <1>c, <3>1 DEF HandedOverTo
    <3>3. state'[x] # "BLOCKED"
      BY <1>2, <1>b, <2>a, <3>2 DEF thread_suspend_interrupted, SwitchedFrom, AllThreads
    <3>4. count'[n] = 1
      BY <1>2, <1>b, <3>1, <3>2 DEF thread_suspend_interrupted, mutexVars, Awaits, Calls
    <3> QED
      BY <3>3, <3>4
  <2>7. MutexBlocked'
    BY <1>2, <1>b, <1>c, <2>a, ThreadsAssumption DEF thread_suspend_interrupted,
       SwitchedFrom, NotBlocked, Blocked, MutexBlocked, QueuedWaits, WaiterWaitsOrLost,
       Awaits, Calls, Runs, AllThreads, threadVars, mutexVars, queueVars, wakeupVars,
       callVars
  <2>8. WakeupBlocked'
    BY <1>2, <1>b, <1>c, <2>a, ThreadsAssumption DEF thread_suspend_interrupted,
       SwitchedFrom, NotBlocked, Blocked, WakeupBlocked, WaiterWaitsOrLost, Calls, Runs,
       AllThreads, threadVars, mutexVars, queueVars, wakeupVars, callVars
  <2>9. BlockedIsQueued'
    BY <1>2, <1>b, <1>c, <2>a, ThreadsAssumption DEF thread_suspend_interrupted,
       SwitchedFrom, NotBlocked, Blocked, BlockedIsQueued, MutexBlocked, QueuedWaits,
       WaiterWaitsOrLost, Awaits, Calls, Runs, AllThreads, threadVars, mutexVars, queueVars,
       wakeupVars, callVars
  <2> QED
    BY <2>1, <2>2, <2>3, <2>4, <2>5, <2>6, <2>7, <2>8, <2>9 DEF ControlKept, ControlParts
<1>3. ASSUME NEW value \in BOOLEAN, scheduler_freeze(value)
      PROVE  ControlKept(G)
  <2>a. PICK E \in SUBSET Threads : SwitchedFrom(state, block, value, E)
    <3>1. /\ state \in [AllThreads -> States] /\ block \in [Threads -> BlockRecord]
          /\ NULL \in Threads \cup {NULL} /\ value \in BOOLEAN
          /\ \A y \in AllThreads : state[y] = "RUNNING" => y = current
          /\ scheduler_switch(state, block, signalled, NULL, NULL, value)
      BY <1>3, <1>b, <1>c DEF scheduler_freeze, OneRunning, NotBlocked, Blocked,
         BlockRecord, BlockTypes, States, AllThreads
    <3> QED
      BY <1>c, <3>1, SwitchFrom
  <2>1. OneRunning'
    BY <1>3, <1>b, <1>c, <2>a, ThreadsAssumption DEF scheduler_freeze, SwitchedFrom,
       NotBlocked, Blocked, OneRunning, AllThreads, threadVars, mutexVars, queueVars,
       wakeupVars, callVars
  <2>2. FrozenRunsIdle'
    BY <1>3, <1>b, <1>c, <2>a, ThreadsAssumption DEF scheduler_freeze, SwitchedFrom,
       NotBlocked, Blocked, FrozenRunsIdle, AllThreads, threadVars, mutexVars, queueVars,
       wakeupVars, callVars
  <2>3. QueuedWaits'
    <3> SUFFICES ASSUME NEW n \in Mutexes, NEW x \in waiters'[n]
                 PROVE  /\ Awaits(x, n)' /\ state'[x] \notin {"READY", "RUNNING"}
                        /\ pc'[x] = "mutex_back" => current' # x
      BY DEF QueuedWaits
    <3>1. x \in Threads /\ x \in waiters[n] /\ x \notin E
      BY <1>b, <2>a DEF SwitchedFrom
    <3>2. /\ Awaits(x, n) /\ state[x] \notin {"READY", "RUNNING"}
          /\ pc[x] = "mutex_back" => current # x
      BY <1>c, <3>1 DEF QueuedWaits
    <3>3. \A w \in Wakeups : x # waiter[w]
      BY <1>c, <3>1, QueuedIsNoWaiter
    <3>4. state'[x] \notin {"READY", "RUNNING"}
      BY <1>3, <1>b, <2>a, <3>1, <3>2, <3>3 DEF scheduler_freeze, SwitchedFrom, AllThreads
    <3>5. Awaits(x, n)'
      BY <1>3, <1>b, <1>c, <3>1, <3>2 DEF scheduler_freeze, Awaits, Calls, Runs, callVars
    <3> QED
      BY <2>a, <3>1, <3>4, <3>5 DEF SwitchedFrom
  <2>4. WaiterWaitsOrLost'
    BY <1>3, <1>b, <1>c, <2>a, ThreadsAssumption DEF scheduler_freeze, SwitchedFrom,
       NotBlocked, Blocked, WaiterWaitsOrLost, Calls, Runs, AllThreads, threadVars,
       mutexVars, queueVars, wakeupVars, callVars
  <2>5. HeldIsCountOf(G)'
    BY <1>3, <1>b, <1>c, <2>a, ThreadsAssumption DEF scheduler_freeze, SwitchedFrom,
       NotBlocked, Blocked, HeldIsCountOf, HandedOverTo, QueuedWaits, Awaits, Calls, Runs,
       AllThreads, threadVars, mutexVars, queueVars, wakeupVars, callVars
  <2>6. HandedOverTo(G)'
    <3> SUFFICES ASSUME NEW x \in G, NEW n \in Mutexes, Awaits(x, n)', owner'[n] = x
                 PROVE  count'[n] = 1 /\ state'[x] # "BLOCKED"
      BY DEF HandedOverTo
    <3>1. Awaits(x, n) /\ owner[n] = x
      BY <1>3, <1>b DEF scheduler_freeze, Awaits, callVars, mutexVars
    <3>2. count[n] = 1 /\ state[x] # "BLOCKED"
      BY <1>c, <3>1 DEF HandedOverTo
    <3>3. state'[x] # "BLOCKED"
      BY <1>3, <1>b, <2>a, <3>2 DEF scheduler_freeze, SwitchedFrom, AllThreads
    <3>4. count'[n] = 1
      BY <1>3, <1>b, <3>1, <3>2 DEF scheduler_freeze, mutexVars, Awaits, Calls
    <3> QED
      BY <3>3, <3>4
  <2>7. MutexBlocked'
    BY <1>3, <1>b, <1>c, <2>a, ThreadsAssumption DEF scheduler_freeze, SwitchedFrom,
       NotBlocked, Blocked, MutexBlocked, QueuedWaits, WaiterWaitsOrLost, Awaits, Calls,
       Runs, AllThreads, threadVars, mutexVars, queueVars, wakeupVars, callVars
  <2>8. WakeupBlocked'
    BY <1>3, <1>b, <1>c, <2>a, ThreadsAssumption DEF scheduler_freeze, SwitchedFrom,
       NotBlocked, Blocked, WakeupBlocked, WaiterWaitsOrLost, Calls, Runs, AllThreads,
       threadVars, mutexVars, queueVars, wakeupVars, callVars
  <2>9. BlockedIsQueued'
    BY <1>3, <1>b, <1>c, <2>a, ThreadsAssumption DEF scheduler_freeze, SwitchedFrom,
       NotBlocked, Blocked, BlockedIsQueued, MutexBlocked, QueuedWaits, WaiterWaitsOrLost,
       Awaits, Calls, Runs, AllThreads, threadVars, mutexVars, queueVars, wakeupVars,
       callVars
  <2> QED
    BY <2>1, <2>2, <2>3, <2>4, <2>5, <2>6, <2>7, <2>8, <2>9 DEF ControlKept, ControlParts
<1>4. ASSUME NEW t \in Threads, thread_suspend_self(t)
      PROVE  ControlKept(G)
  <2>1. OneRunning'
    BY <1>4, <1>b, <1>c, ThreadsAssumption DEF thread_suspend_self, OneRunning, AllThreads,
       threadVars, mutexVars, queueVars, wakeupVars, callVars
  <2>2. FrozenRunsIdle'
    BY <1>4, <1>b, <1>c, ThreadsAssumption DEF thread_suspend_self, FrozenRunsIdle,
       AllThreads, threadVars, mutexVars, queueVars, wakeupVars, callVars
  <2>3. QueuedWaits'
    BY <1>4, <1>b, <1>c, ThreadsAssumption DEF thread_suspend_self, QueuedWaits, Awaits,
       WaiterWaitsOrLost, MutexBlocked, Calls, Runs, AllThreads, threadVars, mutexVars,
       queueVars, wakeupVars, callVars
  <2>4. WaiterWaitsOrLost'
    BY <1>4, <1>b, <1>c, ThreadsAssumption DEF thread_suspend_self, WaiterWaitsOrLost,
       Calls, Runs, AllThreads, threadVars, mutexVars, queueVars, wakeupVars, callVars
  <2>5. HeldIsCountOf(G)'
    BY <1>4, <1>b, <1>c, ThreadsAssumption DEF thread_suspend_self, HeldIsCountOf,
       HandedOverTo, QueuedWaits, Awaits, Calls, Runs, AllThreads, threadVars, mutexVars,
       queueVars, wakeupVars, callVars
  <2>6. HandedOverTo(G)'
    BY <1>4, <1>b, <1>c, ThreadsAssumption DEF thread_suspend_self, HandedOverTo, Awaits,
       Calls, Runs, AllThreads, threadVars, mutexVars, queueVars, wakeupVars, callVars
  <2>7. MutexBlocked'
    BY <1>4, <1>b, <1>c, ThreadsAssumption DEF thread_suspend_self, MutexBlocked,
       QueuedWaits, WaiterWaitsOrLost, Awaits, Calls, Runs, AllThreads, threadVars,
       mutexVars, queueVars, wakeupVars, callVars
  <2>8. WakeupBlocked'
    BY <1>4, <1>b, <1>c, ThreadsAssumption DEF thread_suspend_self, WakeupBlocked,
       WaiterWaitsOrLost, Calls, Runs, AllThreads, threadVars, mutexVars, queueVars,
       wakeupVars, callVars
  <2>9. BlockedIsQueued'
    BY <1>4, <1>b, <1>c, ThreadsAssumption DEF thread_suspend_self, BlockedIsQueued,
       MutexBlocked, QueuedWaits, WaiterWaitsOrLost, Awaits, Calls, Runs, AllThreads,
       threadVars, mutexVars, queueVars, wakeupVars, callVars
  <2> QED
    BY <2>1, <2>2, <2>3, <2>4, <2>5, <2>6, <2>7, <2>8, <2>9 DEF ControlKept, ControlParts
<1>5. ASSUME NEW t \in Threads, lost_runs(t)
      PROVE  ControlKept(G)
  <2>1. OneRunning'
    BY <1>5, <1>b, <1>c, ThreadsAssumption DEF lost_runs, OneRunning, AllThreads,
       threadVars, mutexVars, queueVars, wakeupVars, callVars
  <2>2. FrozenRunsIdle'
    BY <1>5, <1>b, <1>c, ThreadsAssumption DEF lost_runs, FrozenRunsIdle, AllThreads,
       threadVars, mutexVars, queueVars, wakeupVars, callVars
  <2>3. QueuedWaits'
    BY <1>5, <1>b, <1>c, ThreadsAssumption DEF lost_runs, QueuedWaits, Awaits,
       WaiterWaitsOrLost, MutexBlocked, Calls, Runs, AllThreads, threadVars, mutexVars,
       queueVars, wakeupVars, callVars
  <2>4. WaiterWaitsOrLost'
    BY <1>5, <1>b, <1>c, ThreadsAssumption DEF lost_runs, WaiterWaitsOrLost, Calls, Runs,
       AllThreads, threadVars, mutexVars, queueVars, wakeupVars, callVars
  <2>5. HeldIsCountOf(G)'
    BY <1>5, <1>b, <1>c, ThreadsAssumption DEF lost_runs, HeldIsCountOf, HandedOverTo,
       QueuedWaits, Awaits, Calls, Runs, AllThreads, threadVars, mutexVars, queueVars,
       wakeupVars, callVars
  <2>6. HandedOverTo(G)'
    BY <1>5, <1>b, <1>c, ThreadsAssumption DEF lost_runs, HandedOverTo, Awaits, Calls, Runs,
       AllThreads, threadVars, mutexVars, queueVars, wakeupVars, callVars
  <2>7. MutexBlocked'
    BY <1>5, <1>b, <1>c, ThreadsAssumption DEF lost_runs, MutexBlocked, QueuedWaits,
       WaiterWaitsOrLost, Awaits, Calls, Runs, AllThreads, threadVars, mutexVars, queueVars,
       wakeupVars, callVars
  <2>8. WakeupBlocked'
    BY <1>5, <1>b, <1>c, ThreadsAssumption DEF lost_runs, WakeupBlocked, WaiterWaitsOrLost,
       Calls, Runs, AllThreads, threadVars, mutexVars, queueVars, wakeupVars, callVars
  <2>9. BlockedIsQueued'
    BY <1>5, <1>b, <1>c, ThreadsAssumption DEF lost_runs, BlockedIsQueued, MutexBlocked,
       QueuedWaits, WaiterWaitsOrLost, Awaits, Calls, Runs, AllThreads, threadVars,
       mutexVars, queueVars, wakeupVars, callVars
  <2> QED
    BY <2>1, <2>2, <2>3, <2>4, <2>5, <2>6, <2>7, <2>8, <2>9 DEF ControlKept, ControlParts
<1>6. ASSUME NEW t \in Threads, dbgthread_find(t)
      PROVE  ControlKept(G)
  <2>1. OneRunning'
    BY <1>6, <1>b, <1>c, ThreadsAssumption DEF dbgthread_find, OneRunning, AllThreads,
       threadVars, mutexVars, queueVars, wakeupVars, callVars
  <2>2. FrozenRunsIdle'
    BY <1>6, <1>b, <1>c, ThreadsAssumption DEF dbgthread_find, FrozenRunsIdle, AllThreads,
       threadVars, mutexVars, queueVars, wakeupVars, callVars
  <2>3. QueuedWaits'
    BY <1>6, <1>b, <1>c, ThreadsAssumption DEF dbgthread_find, QueuedWaits, Awaits,
       WaiterWaitsOrLost, MutexBlocked, Calls, Runs, AllThreads, threadVars, mutexVars,
       queueVars, wakeupVars, callVars
  <2>4. WaiterWaitsOrLost'
    BY <1>6, <1>b, <1>c, ThreadsAssumption DEF dbgthread_find, WaiterWaitsOrLost, Calls,
       Runs, AllThreads, threadVars, mutexVars, queueVars, wakeupVars, callVars
  <2>5. HeldIsCountOf(G)'
    BY <1>6, <1>b, <1>c, ThreadsAssumption DEF dbgthread_find, HeldIsCountOf,
       HandedOverTo, QueuedWaits, Awaits, Calls, Runs, AllThreads, threadVars, mutexVars,
       queueVars, wakeupVars, callVars
  <2>6. HandedOverTo(G)'
    BY <1>6, <1>b, <1>c, ThreadsAssumption DEF dbgthread_find, HandedOverTo, Awaits, Calls,
       Runs, AllThreads, threadVars, mutexVars, queueVars, wakeupVars, callVars
  <2>7. MutexBlocked'
    BY <1>6, <1>b, <1>c, ThreadsAssumption DEF dbgthread_find, MutexBlocked, QueuedWaits,
       WaiterWaitsOrLost, Awaits, Calls, Runs, AllThreads, threadVars, mutexVars, queueVars,
       wakeupVars, callVars
  <2>8. WakeupBlocked'
    BY <1>6, <1>b, <1>c, ThreadsAssumption DEF dbgthread_find, WakeupBlocked,
       WaiterWaitsOrLost, Calls, Runs, AllThreads, threadVars, mutexVars, queueVars,
       wakeupVars, callVars
  <2>9. BlockedIsQueued'
    BY <1>6, <1>b, <1>c, ThreadsAssumption DEF dbgthread_find, BlockedIsQueued,
       MutexBlocked, QueuedWaits, WaiterWaitsOrLost, Awaits, Calls, Runs, AllThreads,
       threadVars, mutexVars, queueVars, wakeupVars, callVars
  <2> QED
    BY <2>1, <2>2, <2>3, <2>4, <2>5, <2>6, <2>7, <2>8, <2>9 DEF ControlKept, ControlParts
<1>7. ASSUME NEW t \in Threads, dbgthread_ack(t)
      PROVE  ControlKept(G)
  <2>1. OneRunning'
    BY <1>7, <1>b, <1>c, ThreadsAssumption DEF dbgthread_ack, OneRunning, AllThreads,
       threadVars, mutexVars, queueVars, wakeupVars, callVars
  <2>2. FrozenRunsIdle'
    BY <1>7, <1>b, <1>c, ThreadsAssumption DEF dbgthread_ack, FrozenRunsIdle, AllThreads,
       threadVars, mutexVars, queueVars, wakeupVars, callVars
  <2>3. QueuedWaits'
    BY <1>7, <1>b, <1>c, ThreadsAssumption DEF dbgthread_ack, QueuedWaits, Awaits,
       WaiterWaitsOrLost, MutexBlocked, Calls, Runs, AllThreads, threadVars, mutexVars,
       queueVars, wakeupVars, callVars
  <2>4. WaiterWaitsOrLost'
    BY <1>7, <1>b, <1>c, ThreadsAssumption DEF dbgthread_ack, WaiterWaitsOrLost, Calls,
       Runs, AllThreads, threadVars, mutexVars, queueVars, wakeupVars, callVars
  <2>5. HeldIsCountOf(G)'
    BY <1>7, <1>b, <1>c, ThreadsAssumption DEF dbgthread_ack, HeldIsCountOf, HandedOverTo,
       QueuedWaits, Awaits, Calls, Runs, AllThreads, threadVars, mutexVars, queueVars,
       wakeupVars, callVars
  <2>6. HandedOverTo(G)'
    BY <1>7, <1>b, <1>c, ThreadsAssumption DEF dbgthread_ack, HandedOverTo, Awaits, Calls,
       Runs, AllThreads, threadVars, mutexVars, queueVars, wakeupVars, callVars
  <2>7. MutexBlocked'
    BY <1>7, <1>b, <1>c, ThreadsAssumption DEF dbgthread_ack, MutexBlocked, QueuedWaits,
       WaiterWaitsOrLost, Awaits, Calls, Runs, AllThreads, threadVars, mutexVars, queueVars,
       wakeupVars, callVars
  <2>8. WakeupBlocked'
    BY <1>7, <1>b, <1>c, ThreadsAssumption DEF dbgthread_ack, WakeupBlocked,
       WaiterWaitsOrLost, Calls, Runs, AllThreads, threadVars, mutexVars, queueVars,
       wakeupVars, callVars
  <2>9. BlockedIsQueued'
    BY <1>7, <1>b, <1>c, ThreadsAssumption DEF dbgthread_ack, BlockedIsQueued, MutexBlocked,
       QueuedWaits, WaiterWaitsOrLost, Awaits, Calls, Runs, AllThreads, threadVars,
       mutexVars, queueVars, wakeupVars, callVars
  <2> QED
    BY <2>1, <2>2, <2>3, <2>4, <2>5, <2>6, <2>7, <2>8, <2>9 DEF ControlKept, ControlParts
<1>8. ASSUME NEW t \in Threads, panic_kill_user_threads(t)
      PROVE  ControlKept(G)
  <2>1. OneRunning'
    BY <1>8, <1>b, <1>c, ThreadsAssumption DEF panic_kill_user_threads, Blocked, OneRunning,
       AllThreads, threadVars, mutexVars, queueVars, wakeupVars, callVars
  <2>2. FrozenRunsIdle'
    BY <1>8, <1>b, <1>c, ThreadsAssumption DEF panic_kill_user_threads, Blocked,
       FrozenRunsIdle, AllThreads, threadVars, mutexVars, queueVars, wakeupVars, callVars
  <2>3. QueuedWaits'
    BY <1>8, <1>b, <1>c, ThreadsAssumption DEF panic_kill_user_threads, Blocked,
       QueuedWaits, Awaits, WaiterWaitsOrLost, MutexBlocked, Calls, Runs, AllThreads,
       threadVars, mutexVars, queueVars, wakeupVars, callVars
  <2>4. WaiterWaitsOrLost'
    BY <1>8, <1>b, <1>c, ThreadsAssumption DEF panic_kill_user_threads, Blocked,
       WaiterWaitsOrLost, Calls, Runs, AllThreads, threadVars, mutexVars, queueVars,
       wakeupVars, callVars
  <2>5. HeldIsCountOf(G)'
    BY <1>8, <1>b, <1>c, ThreadsAssumption DEF panic_kill_user_threads, Blocked,
       HeldIsCountOf, HandedOverTo, QueuedWaits, Awaits, Calls, Runs, AllThreads,
       threadVars, mutexVars, queueVars, wakeupVars, callVars
  <2>6. HandedOverTo(G)'
    BY <1>8, <1>b, <1>c, ThreadsAssumption DEF panic_kill_user_threads, Blocked,
       HandedOverTo, Awaits, Calls, Runs, AllThreads, threadVars, mutexVars, queueVars,
       wakeupVars, callVars
  <2>7. MutexBlocked'
    BY <1>8, <1>b, <1>c, ThreadsAssumption DEF panic_kill_user_threads, Blocked,
       MutexBlocked, QueuedWaits, WaiterWaitsOrLost, Awaits, Calls, Runs, AllThreads,
       threadVars, mutexVars, queueVars, wakeupVars, callVars
  <2>8. WakeupBlocked'
    BY <1>8, <1>b, <1>c, ThreadsAssumption DEF panic_kill_user_threads, Blocked,
       WakeupBlocked, WaiterWaitsOrLost, Calls, Runs, AllThreads, threadVars, mutexVars,
       queueVars, wakeupVars, callVars
  <2>9. BlockedIsQueued'
    BY <1>8, <1>b, <1>c, ThreadsAssumption DEF panic_kill_user_threads, Blocked,
       BlockedIsQueued, MutexBlocked, QueuedWaits, WaiterWaitsOrLost, Awaits, Calls, Runs,
       AllThreads, threadVars, mutexVars, queueVars, wakeupVars, callVars
  <2> QED
    BY <2>1, <2>2, <2>3, <2>4, <2>5, <2>6, <2>7, <2>8, <2>9 DEF ControlKept, ControlParts
<1>9. ASSUME NEW x \in Threads, thread_resume(x)
      PROVE  ControlKept(G)
  <2>1. OneRunning'
    BY <1>9, <1>b, <1>c, ThreadsAssumption DEF thread_resume, mutex_add_to_queue,
       OneRunning, AllThreads, threadVars, mutexVars, queueVars, wakeupVars, callVars
  <2>2. FrozenRunsIdle'
    BY <1>9, <1>b, <1>c, ThreadsAssumption DEF thread_resume, mutex_add_to_queue,
       FrozenRunsIdle, AllThreads, threadVars, mutexVars, queueVars, wakeupVars, callVars
  <2>3. QueuedWaits'
    BY <1>9, <1>b, <1>c, ThreadsAssumption DEF thread_resume, mutex_add_to_queue,
       QueuedWaits, Awaits, WaiterWaitsOrLost, MutexBlocked, Calls, Runs, AllThreads,
       threadVars, mutexVars, queueVars, wakeupVars, callVars
  <2>4. WaiterWaitsOrLost'
    BY <1>9, <1>b, <1>c, ThreadsAssumption DEF thread_resume, mutex_add_to_queue,
       WaiterWaitsOrLost, Calls, Runs, AllThreads, threadVars, mutexVars, queueVars,
       wakeupVars, callVars
  <2>5. HeldIsCountOf(G)'
    BY <1>9, <1>b, <1>c, ThreadsAssumption DEF thread_resume, mutex_add_to_queue,
       HeldIsCountOf, HandedOverTo, QueuedWaits, Awaits, Calls, Runs, AllThreads,
       threadVars, mutexVars, queueVars, wakeupVars, callVars
  <2>6. HandedOverTo(G)'
    <3> SUFFICES ASSUME NEW y \in G, NEW n \in Mutexes, Awaits(y, n)', owner'[n] = y
                 PROVE  count'[n] = 1 /\ state'[y] # "BLOCKED"
      BY DEF HandedOverTo
    <3>1. y \in Threads /\ Awaits(y, n) /\ owner[n] = y /\ count' = count
      BY <1>9 DEF thread_resume, Awaits, callVars, mutexVars
    <3>2. count[n] = 1 /\ state[y] # "BLOCKED"
      BY <1>c, <3>1 DEF HandedOverTo
    <3>3. CASE state'[y] # "BLOCKED"
      BY <3>1, <3>2, <3>3
    <3>4. CASE state'[y] = "BLOCKED"
      <4>1. x = y /\ block[x].type \in {"MUTEX", "WAKEUP"}
        BY <1>9, <1>b, <3>1, <3>2, <3>4 DEF thread_resume, AllThreads
      <4>2. block[x].type = "MUTEX"
        BY <1>c, <3>1, <4>1 DEF WakeupBlocked, Awaits
      <4> QED
        BY <1>c, <3>1, <4>1, <4>2 DEF MutexBlocked, Awaits
    <3> QED
      BY <3>3, <3>4
  <2>7. MutexBlocked'
    BY <1>9, <1>b, <1>c, ThreadsAssumption DEF thread_resume, mutex_add_to_queue,
       MutexBlocked, QueuedWaits, WaiterWaitsOrLost, Awaits, Calls, Runs, AllThreads,
       threadVars, mutexVars, queueVars, wakeupVars, callVars
  <2>8. WakeupBlocked'
    BY <1>9, <1>b, <1>c, ThreadsAssumption DEF thread_resume, mutex_add_to_queue,
       WakeupBlocked, WaiterWaitsOrLost, Calls, Runs, AllThreads, threadVars, mutexVars,
       queueVars, wakeupVars, callVars
  <2>9. BlockedIsQueued'
    BY <1>9, <1>b, <1>c, ThreadsAssumption DEF thread_resume, mutex_add_to_queue,
       BlockedIsQueued, MutexBlocked, QueuedWaits, WaiterWaitsOrLost, Awaits, Calls, Runs,
       AllThreads, threadVars, mutexVars, queueVars, wakeupVars, callVars
  <2> QED
    BY <2>1, <2>2, <2>3, <2>4, <2>5, <2>6, <2>7, <2>8, <2>9 DEF ControlKept, ControlParts
<1> QED
  BY <1>1, <1>2, <1>3, <1>4, <1>5, <1>6, <1>7, <1>8, <1>9 DEF Control

\* The kernel starts with nothing to control.
LEMMA InitControl == ControlInit => ControlInvariant
<1> SUFFICES ASSUME ControlInit PROVE ControlInvariant
  OBVIOUS
<1>1. Init
  BY DEF ControlInit
<1>2. TypeOK
  BY <1>1, InitType
<1>3. OneRunning /\ FrozenRunsIdle
  BY <1>1 DEF Init, OneRunning, FrozenRunsIdle
<1>4. QueuedWaits /\ WaiterWaitsOrLost /\ HeldIsCountOf(Threads) /\ HandedOverTo(Threads)
  BY <1>1 DEF Init, QueuedWaits, WaiterWaitsOrLost, HeldIsCountOf, HandedOverTo, Awaits
<1>5. MutexBlocked /\ WakeupBlocked /\ BlockedIsQueued
  BY <1>1 DEF Init, MutexBlocked, WakeupBlocked, BlockedIsQueued, NotBlocked, Blocked
<1> QED
  BY <1>2, <1>3, <1>4, <1>5 DEF ControlInvariant, ControlInvariantOf, ControlParts

\* Every step of the kernel and of those who control it preserves ControlInvariant.
LEMMA NextControl == ControlInvariant /\ [ControlNext]_controlVars => ControlInvariant'
<1> SUFFICES ASSUME ControlInvariant, [ControlNext]_controlVars PROVE ControlInvariant'
  OBVIOUS
<1>1. CASE [Next]_vars
  <2>1. TypeOK'
    BY <1>1, NextType DEF ControlInvariant, ControlInvariantOf
  <2>2. ControlKept(Threads)
    BY <1>1, KernelKeeps DEF ControlInvariant
  <2> QED
    BY <2>1, <2>2 DEF ControlKept, ControlInvariant, ControlInvariantOf
<1>2. CASE Control \/ \E x \in Threads : thread_resume(x)
  <2>1. TypeOK'
    BY <1>2, ControlType DEF ControlInvariant, ControlInvariantOf, ControlParts
  <2>2. ControlKept(Threads)
    BY <1>2, ControlKeeps DEF ControlInvariant
  <2> QED
    BY <2>1, <2>2 DEF ControlKept, ControlInvariant, ControlInvariantOf
<1> QED
  BY <1>1, <1>2 DEF ControlNext, controlVars

\* What follows holds for any number of threads, user threads, mutexes and wakeups, and
\* wherever a stack overflows.

\* A suspension, a resumption, a freeze or a panic of the FAT driver never gives a mutex
\* to a thread that does not own it, nor takes one away from a thread that was told it has it.
THEOREM ControlledMutexes == ControlSpec => []MutualExclusion
<1>1. ControlInvariant => MutualExclusion
  BY DEF ControlInvariant, ControlInvariantOf, ControlParts, HeldIsCountOf, MutualExclusion, TypeOK, CallsType
<1> QED
  BY <1>1, InitControl, NextControl, PTL DEF ControlSpec

\* thread_suspend and thread_resume keep the queues right: who blocks on a mutex is queued.
THEOREM BlockedStaysQueued == ControlSpec => []BlockedIsQueued
<1>1. ControlInvariant => BlockedIsQueued
  BY DEF ControlInvariant, ControlInvariantOf, ControlParts
<1> QED
  BY <1>1, InitControl, NextControl, PTL DEF ControlSpec

\* A frozen scheduler runs idle_thread alone.
THEOREM FrozenStaysIdle == ControlSpec => []FrozenRunsIdle
<1>1. ControlInvariant => FrozenRunsIdle
  BY DEF ControlInvariant, ControlInvariantOf
<1> QED
  BY <1>1, InitControl, NextControl, PTL DEF ControlSpec

\* No two threads are marked as running.
THEOREM OneThreadRuns == ControlSpec => []OneRunning
<1>1. ControlInvariant => OneRunning
  BY DEF ControlInvariant, ControlInvariantOf
<1> QED
  BY <1>1, InitControl, NextControl, PTL DEF ControlSpec
=============================================================================
