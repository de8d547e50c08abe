---------------------------- MODULE ThreadsProofs ----------------------------
(***************************************************************************)
(* Proofs about Threads, for every number of threads, mutexes and wakeups: *)
(* types and mutual exclusion; the refinement of RecursiveMutex; and the   *)
(* kernel's two linked lists.                                              *)
(***************************************************************************)
EXTENDS Threads, FiniteSetTheorems, TLAPS

SwitchResult ==
    /\ state' \in [AllThreads -> States]
    /\ block' \in [Threads -> BlockRecord]
    /\ current' \in AllThreads
    /\ frozen' \in BOOLEAN
    /\ waiters' \in [Mutexes -> SUBSET Threads]
    /\ ahead' \in [Threads -> SUBSET Threads]
    /\ signalled' \in [Wakeups -> BOOLEAN]
    /\ hung' \in BOOLEAN

\* scheduler_switch leaves what it writes well typed, whoever calls it.
LEMMA SwitchType ==
    ASSUME TypeOK,
           NEW st \in [AllThreads -> States], NEW bl \in [Threads -> BlockRecord],
           NEW sg \in [Wakeups -> BOOLEAN], NEW tgt \in Threads \cup {NULL}, NEW blk,
           NEW fz \in BOOLEAN,
           scheduler_switch(st, bl, sg, tgt, blk, fz)
    PROVE  SwitchResult
<1>1. PICK ov \in (IF current \in MayOverflow THEN BOOLEAN ELSE {FALSE}) :
      \E E \in SUBSET Overdue(StackState(ov, Preempt(st)), StackBlock(ov, bl), fz) :
      \E next \in Eligible(Expired(StackState(ov, Preempt(st)), E), tgt, blk, fz) :
        switch_to(st, bl, sg, fz, ov, E, next)
  BY DEF scheduler_switch
<1>a. PICK E \in SUBSET Overdue(StackState(ov, Preempt(st)), StackBlock(ov, bl), fz) :
      \E next \in Eligible(Expired(StackState(ov, Preempt(st)), E), tgt, blk, fz) :
        switch_to(st, bl, sg, fz, ov, E, next)
  BY <1>1
<1>2. PICK next \in Eligible(Expired(StackState(ov, Preempt(st)), E), tgt, blk, fz) :
        switch_to(st, bl, sg, fz, ov, E, next)
  BY <1>a
<1>3. ov \in BOOLEAN /\ (ov => current \in Threads /\ dbgwakeup \in Wakeups)
  BY ThreadsAssumption
<1>4. Preempt(st) \in [AllThreads -> States]
  BY DEF Preempt, States
<1>5. StackState(ov, Preempt(st)) \in [AllThreads -> States]
  BY <1>3, <1>4, ThreadsAssumption DEF StackState, TypeOK, ThreadsType, WakeupsType, AllThreads, States
<1>6. StackBlock(ov, bl) \in [Threads -> BlockRecord]
  BY <1>3 DEF StackBlock, TypeOK, WakeupsType, BlockRecord, Blocked, NotBlocked, BlockTypes
<1>7. next \in AllThreads
  BY ThreadsAssumption DEF Eligible, AllThreads
<1>8. Expired(StackState(ov, Preempt(st)), E) \in [AllThreads -> States]
  BY <1>5 DEF Expired, States
<1>9. state' \in [AllThreads -> States]
  BY <1>2, <1>7, <1>8 DEF switch_to, States
<1>10. block' \in [Threads -> BlockRecord]
  BY <1>2, <1>6 DEF switch_to, NotBlocked, Blocked, BlockRecord, BlockTypes
<1>11. waiters' \in [Mutexes -> SUBSET Threads] /\ ahead' \in [Threads -> SUBSET Threads]
  BY <1>2 DEF switch_to, mutex_remove_from_queue, TypeOK, MutexesType
<1>12. signalled' \in [Wakeups -> BOOLEAN]
  BY <1>2, <1>3 DEF switch_to
<1> QED
  BY <1>2, <1>7, <1>9, <1>10, <1>11, <1>12 DEF switch_to, SwitchResult
-----------------------------------------------------------------------------
\* The lists of owned mutexes stay lists of mutexes.
LEMMA UnlinkType ==
    ASSUME NEW l \in Seq(Mutexes), NEW m \in Mutexes
    PROVE  Unlink(l, m) \in Seq(Mutexes)
<1>1. CASE \E i \in 1 .. Len(l) : l[i] = m
  <2> DEFINE k == CHOOSE i \in 1 .. Len(l) : l[i] = m
             u == [i \in 1 .. Len(l) - 1 |-> IF i < k THEN l[i] ELSE l[i + 1]]
  <2>1. Len(l) \in Nat /\ Len(l) >= 1
    BY <1>1
  <2>2. \A i \in 1 .. Len(l) - 1 : l[i] \in Mutexes /\ l[i + 1] \in Mutexes
    BY <2>1
  <2>3. u \in [1 .. Len(l) - 1 -> Mutexes]
    BY <2>2
  <2>4. u \in Seq(Mutexes)
    BY <2>1, <2>3
  <2> QED
    BY <1>1, <2>4 DEF Unlink
<1>2. CASE ~ \E i \in 1 .. Len(l) : l[i] = m
  BY <1>2 DEF Unlink
<1> QED
  BY <1>1, <1>2

\* Counting one more recursive lock.
LEMMA IncrementType ==
    ASSUME NEW f \in [Mutexes -> Int], NEW a
    PROVE  [f EXCEPT ![a] = @ + 1] \in [Mutexes -> Int]
<1>1. CASE a \in Mutexes
  BY <1>1
<1>2. CASE a \notin Mutexes
  BY <1>2
<1> QED
  BY <1>1, <1>2

\* A mutex is linked in front of owned_mutexes.
LEMMA PrependType ==
    ASSUME NEW l \in Seq(Mutexes), NEW m \in Mutexes
    PROVE  <<m>> \o l \in Seq(Mutexes)
OBVIOUS

\* The state that scheduler_init and thread_create build is well typed.
LEMMA InitType == Init => TypeOK
<1> SUFFICES ASSUME Init PROVE TypeOK
  OBVIOUS
<1>1. ThreadsType
  BY DEF Init, ThreadsType, AllThreads, States, NotBlocked, Blocked, BlockRecord, BlockTypes
<1>2. MutexesType
  BY DEF Init, MutexesType
<1>3. WakeupsType
  BY DEF Init, WakeupsType
<1>4. CallsType
  BY DEF Init, CallsType, PCs
<1> QED
  BY <1>1, <1>2, <1>3, <1>4 DEF TypeOK

\* One step of a thread, of the timer or of an interrupt handler leaves every
\* field in its range.
LEMMA NextType == TypeOK /\ [Next]_vars => TypeOK'
<1> SUFFICES ASSUME TypeOK, [Next]_vars PROVE TypeOK'
  OBVIOUS
<1>1. ASSUME NEW t \in Threads, yield(t) PROVE TypeOK'
  <2>0. state \in [AllThreads -> States] /\ block \in [Threads -> BlockRecord]
        /\ signalled \in [Wakeups -> BOOLEAN] /\ frozen \in BOOLEAN
        /\ scheduler_switch(state, block, signalled, NULL, t, frozen)
    BY <1>1 DEF yield, TypeOK, ThreadsType, WakeupsType
  <2>a. SwitchResult
    BY <2>0, SwitchType
  <2>1. ThreadsType'
    BY <1>1, <2>a DEF yield, SwitchResult, TypeOK, ThreadsType, threadVars
  <2>2. MutexesType'
    BY <1>1, <2>a DEF yield, SwitchResult, TypeOK, MutexesType, mutexVars, queueVars
  <2>3. WakeupsType'
    BY <1>1, <2>a DEF yield, SwitchResult, TypeOK, WakeupsType, wakeupVars
  <2>4. CallsType'
    BY <1>1 DEF yield, TypeOK, CallsType, AfterYield, PCs, callVars
  <2> QED
    BY <2>1, <2>2, <2>3, <2>4 DEF TypeOK
<1>2. ASSUME NEW t \in Threads, NEW m \in Mutexes, mutex_lock(t, m) PROVE TypeOK'
  <2>1. ThreadsType'
    BY <1>2 DEF mutex_lock, TypeOK, ThreadsType, threadVars
  <2>2. MutexesType'
    <3>1. owned' \in [Threads -> Seq(Mutexes)]
      <4>1. <<m>> \o owned[t] \in Seq(Mutexes)
        BY PrependType DEF TypeOK, MutexesType
      <4> QED
        BY <1>2, <4>1 DEF mutex_lock, TypeOK, MutexesType
    <3>2. count' \in [Mutexes -> Nat]
      <4>1. CASE count' = [count EXCEPT ![m] = 1]
        BY <4>1 DEF TypeOK, MutexesType
      <4>2. CASE count' = [count EXCEPT ![m] = @ + 1]
        BY <4>2 DEF TypeOK, MutexesType
      <4> QED
        BY <1>2, <4>1, <4>2 DEF mutex_lock
    <3>3. owner' \in [Mutexes -> Threads \cup {NULL}]
      BY <1>2 DEF mutex_lock, TypeOK, MutexesType
    <3> QED
      BY <1>2, <3>1, <3>2, <3>3 DEF mutex_lock, TypeOK, MutexesType, queueVars
  <2>3. WakeupsType'
    BY <1>2 DEF mutex_lock, TypeOK, WakeupsType, wakeupVars
  <2>4. CallsType'
    BY <1>2 DEF mutex_lock, TypeOK, CallsType, callVars
  <2> QED
    BY <2>1, <2>2, <2>3, <2>4 DEF TypeOK
<1>3. ASSUME NEW t \in Threads, NEW m \in Mutexes, NEW timed \in BOOLEAN,
   mutex_lock_block(t, m, timed) PROVE TypeOK'
  <2>1. ThreadsType'
    BY <1>3 DEF mutex_lock_block, TypeOK, ThreadsType, Block, NotBlocked, Blocked,
       BlockRecord, BlockTypes, States, AllThreads, threadVars
  <2>2. MutexesType'
    BY <1>3 DEF mutex_lock_block, TypeOK, MutexesType, mutex_add_to_queue, StaysAhead,
       mutexVars, queueVars
  <2>3. WakeupsType'
    BY <1>3 DEF mutex_lock_block, TypeOK, WakeupsType, wakeupVars
  <2>4. CallsType'
    BY <1>3 DEF mutex_lock_block, TypeOK, CallsType, Block, PCs, callVars
  <2> QED
    BY <2>1, <2>2, <2>3, <2>4 DEF TypeOK
<1>4. ASSUME NEW t \in Threads, NEW m \in Mutexes, mutex_unlock(t, m) PROVE TypeOK'
  <2>1. ThreadsType'
    BY <1>4 DEF mutex_unlock, TypeOK, ThreadsType, panic, NotBlocked, Blocked,
       BlockRecord, BlockTypes, States, AllThreads, threadVars
  <2>2. MutexesType'
    BY <1>4 DEF mutex_unlock, TypeOK, MutexesType, mutexVars, queueVars
  <2>3. WakeupsType'
    BY <1>4 DEF mutex_unlock, TypeOK, WakeupsType, wakeupVars
  <2>4. CallsType'
    <3>1. CASE count[m] = 0 \/ owner[m] # t
      BY <1>4, <3>1, ThreadsAssumption DEF mutex_unlock, TypeOK, CallsType, panic, PCs, callVars
    <3>2. CASE ~(count[m] = 0 \/ owner[m] # t)
      BY <1>4, <3>2 DEF mutex_unlock, TypeOK, CallsType, callVars
    <3> QED
      BY <3>1, <3>2
  <2> QED
    BY <2>1, <2>2, <2>3, <2>4 DEF TypeOK
<1>5. ASSUME NEW t \in Threads, NEW m \in Mutexes, mutex_unlock_last(t, m) PROVE TypeOK'
  <2>1. ThreadsType'
    <3>1. CASE UNCHANGED <<state, block>>
      BY <1>5, <3>1 DEF mutex_unlock_last, TypeOK, ThreadsType
    <3>2. ASSUME NEW h \in waiters[m], state' = [state EXCEPT ![h] = "READY"],
                 block' = [block EXCEPT ![h] = NotBlocked]
          PROVE  ThreadsType'
      <4>1. h \in Threads
        BY DEF TypeOK, MutexesType
      <4> QED
        BY <1>5, <3>2, <4>1 DEF mutex_unlock_last, TypeOK, ThreadsType, NotBlocked, Blocked,
           BlockRecord, BlockTypes, States, AllThreads
    <3> QED
      BY <1>5, <3>1, <3>2 DEF mutex_unlock_last, mutex_unlock_internal
  <2>2. MutexesType'
    <3>1. Unlink(owned[t], m) \in Seq(Mutexes)
      BY UnlinkType DEF TypeOK, MutexesType
    <3>2. CASE /\ owned' = [owned EXCEPT ![t] = Unlink(@, m)]
               /\ count' = [count EXCEPT ![m] = 0]
               /\ UNCHANGED <<owner, queueVars>>
      BY <3>1, <3>2 DEF TypeOK, MutexesType, queueVars
    <3>3. ASSUME NEW h \in waiters[m],
                 owned' = [x \in Threads |-> CASE x = h -> <<m>> \o owned[h]
                                               [] x = t /\ x # h -> Unlink(owned[t], m)
                                               [] OTHER -> owned[x]],
                 count' = [count EXCEPT ![m] = 1],
                 owner' = [owner EXCEPT ![m] = h],
                 mutex_remove_from_queue({h})
          PROVE  MutexesType'
      <4>1. h \in Threads
        BY DEF TypeOK, MutexesType
      <4>2. owned' \in [Threads -> Seq(Mutexes)]
        <5> DEFINE u == Unlink(owned[t], m)
                   v == <<m>> \o owned[h]
        <5>1. u \in Seq(Mutexes) /\ v \in Seq(Mutexes)
          BY <3>1, <4>1, PrependType DEF TypeOK, MutexesType
        <5>2. owned' = [x \in Threads |-> CASE x = h -> v [] x = t /\ x # h -> u
                                           [] OTHER -> owned[x]]
          BY <3>3
        <5> HIDE DEF u, v
        <5> QED
          BY <5>1, <5>2 DEF TypeOK, MutexesType
      <4>3. waiters' \in [Mutexes -> SUBSET Threads] /\ ahead' \in [Threads -> SUBSET Threads]
        BY <3>3 DEF mutex_remove_from_queue, TypeOK, MutexesType
      <4> QED
        BY <3>3, <4>1, <4>2, <4>3 DEF TypeOK, MutexesType
    <3> QED
      BY <1>5, <3>2, <3>3 DEF mutex_unlock_last, mutex_unlock_internal
  <2>3. WakeupsType'
    BY <1>5 DEF mutex_unlock_last, TypeOK, WakeupsType, wakeupVars
  <2>4. CallsType'
    BY <1>5 DEF mutex_unlock_last, TypeOK, CallsType, callVars
  <2> QED
    BY <2>1, <2>2, <2>3, <2>4 DEF TypeOK
<1>6. ASSUME NEW t \in Threads, NEW m \in Mutexes, mutex_unlock_abort(t, m) PROVE
   TypeOK'
  <2> DEFINE st == [state EXCEPT ![t] = "DEFUNCT_ACK"]
             bl == [block EXCEPT ![t] = Blocked("PANIC", @.by, @.timed)]
  <2>0. st \in [AllThreads -> States] /\ bl \in [Threads -> BlockRecord]
        /\ signalled \in [Wakeups -> BOOLEAN] /\ frozen \in BOOLEAN
        /\ scheduler_switch(st, bl, signalled, NULL, NULL, frozen)
        /\ priority' = priority
    BY <1>6 DEF mutex_unlock_abort, TypeOK, ThreadsType, WakeupsType, NotBlocked, Blocked, BlockRecord, BlockTypes, States, AllThreads
  <2> HIDE DEF st, bl
  <2>a. SwitchResult
    BY <2>0, SwitchType
  <2>1. ThreadsType'
    BY <2>0, <2>a DEF SwitchResult, TypeOK, ThreadsType, threadVars
  <2>2. MutexesType'
    BY <1>6, <2>a, UnlinkType DEF mutex_unlock_abort, SwitchResult, TypeOK, MutexesType,
       mutexVars, queueVars
  <2>3. WakeupsType'
    BY <1>6, <2>a DEF mutex_unlock_abort, SwitchResult, TypeOK, WakeupsType, wakeupVars
  <2>4. CallsType'
    BY <1>6 DEF mutex_unlock_abort, TypeOK, CallsType, PCs, callVars
  <2> QED
    BY <2>1, <2>2, <2>3, <2>4 DEF TypeOK
<1>7. ASSUME NEW t \in Threads, mutex_lock_return(t) PROVE TypeOK'
  <2>1. ThreadsType'
    BY <1>7 DEF mutex_lock_return, TypeOK, ThreadsType, threadVars
  <2>2. MutexesType'
    BY <1>7 DEF mutex_lock_return, TypeOK, MutexesType, mutexVars, queueVars
  <2>3. WakeupsType'
    BY <1>7 DEF mutex_lock_return, TypeOK, WakeupsType, wakeupVars
  <2>4. CallsType'
    <3>1. held' \in [Threads -> [Mutexes -> Int]]
      <4>1. CASE owner[arg[t]] = t
        <5> DEFINE f == [held[t] EXCEPT ![arg[t]] = @ + 1]
        <5>1. held' = [held EXCEPT ![t] = f]
          BY <1>7, <4>1 DEF mutex_lock_return
        <5>2. f \in [Mutexes -> Int]
          BY IncrementType DEF TypeOK, CallsType
        <5> HIDE DEF f
        <5> QED
          BY <5>1, <5>2 DEF TypeOK, CallsType
      <4>2. CASE owner[arg[t]] # t
        BY <1>7, <4>2 DEF mutex_lock_return, TypeOK, CallsType
      <4> QED
        BY <4>1, <4>2
    <3> QED
      BY <3>1, <1>7 DEF mutex_lock_return, TypeOK, CallsType, PCs
  <2> QED
    BY <2>1, <2>2, <2>3, <2>4 DEF TypeOK
<1>8. ASSUME NEW t \in Threads, NEW w \in Wakeups, wakeup_wait(t, w) PROVE TypeOK'
  <2>1. ThreadsType'
    BY <1>8 DEF wakeup_wait, TypeOK, ThreadsType, panic, NotBlocked, Blocked,
       BlockRecord, BlockTypes, States, AllThreads, threadVars
  <2>2. MutexesType'
    BY <1>8 DEF wakeup_wait, TypeOK, MutexesType, mutexVars, queueVars
  <2>3. WakeupsType'
    BY <1>8 DEF wakeup_wait, TypeOK, WakeupsType, wakeupVars
  <2>4. CallsType'
    BY <1>8 DEF wakeup_wait, TypeOK, CallsType, panic, PCs, callVars
  <2> QED
    BY <2>1, <2>2, <2>3, <2>4 DEF TypeOK
<1>9. ASSUME NEW t \in Threads, NEW w \in Wakeups, NEW timed \in BOOLEAN,
   wakeup_wait_block(t, w, timed) PROVE TypeOK'
  <2>1. ThreadsType'
    BY <1>9 DEF wakeup_wait_block, TypeOK, ThreadsType, Block, NotBlocked, Blocked,
       BlockRecord, BlockTypes, States, AllThreads, threadVars
  <2>2. MutexesType'
    BY <1>9 DEF wakeup_wait_block, TypeOK, MutexesType, mutexVars, queueVars
  <2>3. WakeupsType'
    BY <1>9 DEF wakeup_wait_block, TypeOK, WakeupsType, wakeupVars
  <2>4. CallsType'
    BY <1>9 DEF wakeup_wait_block, TypeOK, CallsType, Block, PCs, callVars
  <2> QED
    BY <2>1, <2>2, <2>3, <2>4 DEF TypeOK
<1>10. ASSUME NEW t \in Threads, wakeup_wait_return(t) PROVE TypeOK'
  <2>1. ThreadsType'
    BY <1>10 DEF wakeup_wait_return, TypeOK, ThreadsType, threadVars
  <2>2. MutexesType'
    BY <1>10 DEF wakeup_wait_return, TypeOK, MutexesType, mutexVars, queueVars
  <2>3. WakeupsType'
    BY <1>10 DEF wakeup_wait_return, TypeOK, WakeupsType, wakeupVars
  <2>4. CallsType'
    BY <1>10 DEF wakeup_wait_return, TypeOK, CallsType, PCs, callVars
  <2> QED
    BY <2>1, <2>2, <2>3, <2>4 DEF TypeOK
<1>11. ASSUME NEW t \in Threads, NEW timed \in BOOLEAN, sleep(t, timed) PROVE TypeOK'
  <2>1. ThreadsType'
    BY <1>11, ThreadsAssumption DEF sleep, TypeOK, ThreadsType, Block, NotBlocked,
       Blocked, BlockRecord, BlockTypes, States, AllThreads, threadVars
  <2>2. MutexesType'
    BY <1>11 DEF sleep, TypeOK, MutexesType, mutexVars, queueVars
  <2>3. WakeupsType'
    BY <1>11 DEF sleep, TypeOK, WakeupsType, wakeupVars
  <2>4. CallsType'
    BY <1>11 DEF sleep, TypeOK, CallsType, Block, PCs, callVars
  <2> QED
    BY <2>1, <2>2, <2>3, <2>4 DEF TypeOK
<1>12. ASSUME NEW t \in Threads, NEW x \in Threads, NEW p \in Prios,
   thread_set_priority(t, x, p) PROVE TypeOK'
  <2>1. ThreadsType'
    BY <1>12 DEF thread_set_priority, TypeOK, ThreadsType, threadVars
  <2>2. MutexesType'
    BY <1>12 DEF thread_set_priority, TypeOK, MutexesType, mutexVars, queueVars
  <2>3. WakeupsType'
    BY <1>12 DEF thread_set_priority, TypeOK, WakeupsType, wakeupVars
  <2>4. CallsType'
    BY <1>12 DEF thread_set_priority, TypeOK, CallsType, callVars
  <2> QED
    BY <2>1, <2>2, <2>3, <2>4 DEF TypeOK
<1>13. CASE tick
  <2>0. state \in [AllThreads -> States] /\ block \in [Threads -> BlockRecord]
        /\ signalled \in [Wakeups -> BOOLEAN] /\ frozen \in BOOLEAN
        /\ scheduler_switch(state, block, signalled, NULL, NULL, frozen)
    BY <1>13 DEF tick, TypeOK, ThreadsType, WakeupsType
  <2>a. SwitchResult
    BY <2>0, SwitchType
  <2>1. ThreadsType'
    BY <1>13, <2>a DEF tick, SwitchResult, TypeOK, ThreadsType, threadVars
  <2>2. MutexesType'
    BY <1>13, <2>a DEF tick, SwitchResult, TypeOK, MutexesType, mutexVars, queueVars
  <2>3. WakeupsType'
    BY <1>13, <2>a DEF tick, SwitchResult, TypeOK, WakeupsType, wakeupVars
  <2>4. CallsType'
    BY <1>13 DEF tick, TypeOK, CallsType, callVars
  <2> QED
    BY <2>1, <2>2, <2>3, <2>4 DEF TypeOK
<1>14. ASSUME NEW w \in Wakeups, wakeup_signal(w) PROVE TypeOK'
  <2>1. ThreadsType'
    BY <1>14 DEF wakeup_signal, TypeOK, ThreadsType, SignalState, SignalBlock,
       NotBlocked, Blocked, BlockRecord, BlockTypes, States, AllThreads, threadVars
  <2>2. MutexesType'
    BY <1>14 DEF wakeup_signal, TypeOK, MutexesType, mutexVars, queueVars
  <2>3. WakeupsType'
    BY <1>14 DEF wakeup_signal, TypeOK, WakeupsType, wakeupVars
  <2>4. CallsType'
    BY <1>14 DEF wakeup_signal, TypeOK, CallsType, callVars
  <2> QED
    BY <2>1, <2>2, <2>3, <2>4 DEF TypeOK
<1>15. ASSUME NEW w \in Wakeups, wakeup_signal_idle(w) PROVE TypeOK'
  <2> DEFINE sg == [signalled EXCEPT ![w] = TRUE]
  <2>0. SignalState(w) \in [AllThreads -> States] /\ SignalBlock(w) \in [Threads -> BlockRecord]
        /\ sg \in [Wakeups -> BOOLEAN] /\ waiter[w] \in Threads \cup {NULL}
        /\ frozen \in BOOLEAN
        /\ scheduler_switch(SignalState(w), SignalBlock(w), sg, waiter[w], NULL, frozen)
        /\ priority' = priority
    BY <1>15 DEF wakeup_signal_idle, SignalState, SignalBlock, TypeOK, ThreadsType,
       WakeupsType, NotBlocked, Blocked, BlockRecord, BlockTypes, States, AllThreads
  <2> HIDE DEF sg
  <2>a. SwitchResult
    BY <2>0, SwitchType
  <2>1. ThreadsType'
    BY <2>0, <2>a DEF SwitchResult, TypeOK, ThreadsType, threadVars
  <2>2. MutexesType'
    BY <1>15, <2>a DEF wakeup_signal_idle, SwitchResult, TypeOK, MutexesType, mutexVars,
       queueVars
  <2>3. WakeupsType'
    BY <1>15, <2>a DEF wakeup_signal_idle, SwitchResult, TypeOK, WakeupsType, wakeupVars
  <2>4. CallsType'
    BY <1>15 DEF wakeup_signal_idle, TypeOK, CallsType, callVars
  <2> QED
    BY <2>1, <2>2, <2>3, <2>4 DEF TypeOK
<1>16. CASE UNCHANGED vars
  BY <1>16 DEF vars, threadVars, mutexVars, queueVars, wakeupVars, callVars, TypeOK,
     ThreadsType, MutexesType, WakeupsType, CallsType
<1> QED
  BY <1>1, <1>2, <1>3, <1>4, <1>5, <1>6, <1>7, <1>8, <1>9, <1>10, <1>11, <1>12, <1>13,
     <1>14, <1>15, <1>16 DEF Next, Step, Interrupt

\* Every field of the kernel's structures stays in its range, whatever the threads
\* call and whenever interrupts come.
THEOREM TypeCorrect == Spec => []TypeOK
BY InitType, NextType, PTL DEF Spec

-----------------------------------------------------------------------------
(* Mutual exclusion of the kernel's mutexes, from MutexInvariant.  The     *)
(* crux is mutex_lock after its yield(): the owner pointer alone tells     *)
(* whether the mutex was handed over, so a thread that waits must never be *)
(* the (stale) owner of what it waits for, and a thread that was handed a  *)
(* mutex must no longer be in its queue.                                   *)

QueuesKept(st) ==
    /\ \A x \in Threads : state'[x] = "BLOCKED" => st[x] = "BLOCKED"
    /\ \A m \in Mutexes : waiters'[m] \subseteq waiters[m]
    /\ \A m \in Mutexes : \A x \in waiters'[m] :
         st[x] \notin {"READY", "RUNNING"} =>
             state'[x] \notin {"READY", "RUNNING"} /\ current' # x

\* A switch blocks nobody, queues nobody and lets no queued thread run.
LEMMA SwitchQueue ==
    ASSUME TypeOK, WaiterWaits, QueuedWaits,
           NEW st \in [AllThreads -> States], NEW bl \in [Threads -> BlockRecord],
           NEW sg \in [Wakeups -> BOOLEAN], NEW tgt \in Threads \cup {NULL}, NEW blk,
           NEW fz \in BOOLEAN,
           scheduler_switch(st, bl, sg, tgt, blk, fz)
    PROVE  QueuesKept(st)
<1>1. PICK ov \in (IF current \in MayOverflow THEN BOOLEAN ELSE {FALSE}) :
      \E E \in SUBSET Overdue(StackState(ov, Preempt(st)), StackBlock(ov, bl), fz) :
      \E next \in Eligible(Expired(StackState(ov, Preempt(st)), E), tgt, blk, fz) :
        switch_to(st, bl, sg, fz, ov, E, next)
  BY DEF scheduler_switch
<1>2. PICK E \in SUBSET Overdue(StackState(ov, Preempt(st)), StackBlock(ov, bl), fz) :
      \E next \in Eligible(Expired(StackState(ov, Preempt(st)), E), tgt, blk, fz) :
        switch_to(st, bl, sg, fz, ov, E, next)
  BY <1>1
<1>3. PICK next \in Eligible(Expired(StackState(ov, Preempt(st)), E), tgt, blk, fz) :
        switch_to(st, bl, sg, fz, ov, E, next)
  BY <1>2
<1> DEFINE s0 == Preempt(st)
           s1 == StackState(ov, s0)
           s2 == Expired(s1, E)
<1>4. ov \in BOOLEAN /\ (ov => current \in Threads /\ dbgwakeup \in Wakeups)
  BY ThreadsAssumption
<1>5. /\ s0 \in [AllThreads -> States]
      /\ \A x \in AllThreads : s0[x] = st[x] \/ (st[x] = "RUNNING" /\ s0[x] = "READY")
  BY DEF Preempt, States, TypeOK, ThreadsType
<1> HIDE DEF s0
<1>6. /\ s1 \in [AllThreads -> States]
      /\ \A x \in Threads : s1[x] = "BLOCKED" => s0[x] = "BLOCKED"
      /\ \A x \in Threads : s1[x] \in {"READY", "RUNNING"} =>
            s0[x] \in {"READY", "RUNNING"} \/ (dbgwakeup \in Wakeups /\ x = waiter[dbgwakeup])
  BY <1>4, <1>5, ThreadsAssumption DEF StackState, TypeOK, ThreadsType, WakeupsType,
     AllThreads, States
<1> HIDE DEF s1
<1>7. /\ s2 \in [AllThreads -> States]
      /\ \A x \in Threads : s2[x] = IF x \in E THEN "READY" ELSE s1[x]
  BY <1>6 DEF Expired, States, AllThreads
<1> HIDE DEF s2
<1>8. next = idle \/ (next \in Threads /\ s2[next] = "READY")
  BY <1>3, ThreadsAssumption DEF Eligible, s0, s1, s2
<1>9. /\ state' = [s2 EXCEPT ![next] = "RUNNING"]
      /\ current' = next
      /\ waiters' = [m \in Mutexes |-> waiters[m] \ E]
  BY <1>3 DEF switch_to, mutex_remove_from_queue, s0, s1, s2
<1>10. \A x \in Threads : state'[x] = "BLOCKED" => st[x] = "BLOCKED"
  BY <1>5, <1>6, <1>7, <1>9 DEF AllThreads
<1>11. \A m \in Mutexes : waiters'[m] \subseteq waiters[m]
  BY <1>9
<1>12. ASSUME NEW m \in Mutexes, NEW x \in waiters'[m], st[x] \notin {"READY", "RUNNING"}
       PROVE  state'[x] \notin {"READY", "RUNNING"} /\ current' # x
  <2>1. x \in waiters[m] /\ x \notin E /\ x \in Threads /\ x # idle
    BY <1>9, ThreadsAssumption DEF TypeOK, MutexesType
  <2>2. ~(dbgwakeup \in Wakeups /\ x = waiter[dbgwakeup])
    BY <2>1, ThreadsAssumption DEF WaiterWaits, QueuedWaits, Awaits
  <2>3. s2[x] \notin {"READY", "RUNNING"}
    BY <1>5, <1>6, <1>7, <1>12, <2>1, <2>2 DEF AllThreads
  <2>4. next # x
    BY <1>8, <2>1, <2>3
  <2> QED
    BY <1>7, <1>9, <2>1, <2>3, <2>4 DEF AllThreads
<1> QED
  BY <1>10, <1>11, <1>12 DEF QueuesKept

\* In the initial state no mutex is owned and no thread waits.
LEMMA InitMutex == Init => MutexInvariant
<1> SUFFICES ASSUME Init PROVE MutexInvariant
  OBVIOUS
<1>1. TypeOK
  BY InitType
<1>2. QueuedWaits /\ WaiterWaits
  BY DEF Init, QueuedWaits, WaiterWaits
<1>3. HeldIsCount /\ HandedOver
  BY DEF Init, HeldIsCount, HandedOver, Awaits
<1> QED
  BY <1>1, <1>2, <1>3 DEF MutexInvariant

\* Every step of a thread or of an interrupt preserves MutexInvariant.
LEMMA NextMutex == MutexInvariant /\ [Next]_vars => MutexInvariant'
<1> SUFFICES ASSUME MutexInvariant, [Next]_vars PROVE MutexInvariant'
  OBVIOUS
<1> USE DEF MutexInvariant
<1>a. TypeOK'
  BY NextType
<1>b. /\ state \in [AllThreads -> States] /\ current \in AllThreads
      /\ waiters \in [Mutexes -> SUBSET Threads] /\ owner \in [Mutexes -> Threads \cup {NULL}]
      /\ count \in [Mutexes -> Nat] /\ waiter \in [Wakeups -> Threads \cup {NULL}]
      /\ pc \in [Threads -> PCs] /\ held \in [Threads -> [Mutexes -> Int]]
      /\ arg \in [Threads -> Mutexes \cup Wakeups \cup Threads \cup {NULL}]
  BY DEF TypeOK, ThreadsType, MutexesType, WakeupsType, CallsType
<1>c. TypeOK /\ WaiterWaits /\ QueuedWaits
  OBVIOUS
<1>1. ASSUME NEW t \in Threads, yield(t) PROVE QueuedWaits' /\ WaiterWaits' /\
   HeldIsCount' /\ HandedOver'
  <2>0. QueuesKept(state)
    <3>1. /\ block \in [Threads -> BlockRecord] /\ signalled \in [Wakeups -> BOOLEAN]
          /\ frozen \in BOOLEAN
          /\ scheduler_switch(state, block, signalled, NULL, t, frozen)
      BY <1>1 DEF yield, TypeOK, ThreadsType, WakeupsType
    <3> QED
      BY <1>b, <1>c, <3>1, SwitchQueue
  <2>1. QueuedWaits'
    BY <1>1, <1>b, <2>0, ThreadsAssumption DEF QueuesKept, yield, AfterYield, QueuedWaits,
       WaiterWaits, HeldIsCount, HandedOver, Awaits, Runs, Calls, PCs, States, AllThreads,
       threadVars, mutexVars, queueVars, wakeupVars, callVars
  <2>2. WaiterWaits'
    BY <1>1, <1>b, <2>0, ThreadsAssumption DEF QueuesKept, yield, AfterYield, QueuedWaits,
       WaiterWaits, HeldIsCount, HandedOver, Awaits, Runs, Calls, PCs, States, AllThreads,
       threadVars, mutexVars, queueVars, wakeupVars, callVars
  <2>3. HeldIsCount'
    BY <1>1, <1>b, <2>0, ThreadsAssumption DEF QueuesKept, yield, AfterYield, QueuedWaits,
       WaiterWaits, HeldIsCount, HandedOver, Awaits, Runs, Calls, PCs, States, AllThreads,
       threadVars, mutexVars, queueVars, wakeupVars, callVars
  <2>4. HandedOver'
    BY <1>1, <1>b, <2>0, ThreadsAssumption DEF QueuesKept, yield, AfterYield, QueuedWaits,
       WaiterWaits, HeldIsCount, HandedOver, Awaits, Runs, Calls, PCs, States, AllThreads,
       threadVars, mutexVars, queueVars, wakeupVars, callVars
  <2> QED
    BY <2>1, <2>2, <2>3, <2>4
<1>2. ASSUME NEW t \in Threads, NEW m \in Mutexes, mutex_lock(t, m) PROVE QueuedWaits' /\
   WaiterWaits' /\ HeldIsCount' /\ HandedOver'
  <2>1. QueuedWaits'
    BY <1>2, <1>b, ThreadsAssumption DEF mutex_lock, QueuedWaits, WaiterWaits,
       HeldIsCount, HandedOver, Awaits, Runs, Calls, PCs, States, AllThreads, threadVars,
       mutexVars, queueVars, wakeupVars, callVars
  <2>2. WaiterWaits'
    BY <1>2, <1>b, ThreadsAssumption DEF mutex_lock, QueuedWaits, WaiterWaits,
       HeldIsCount, HandedOver, Awaits, Runs, Calls, PCs, States, AllThreads, threadVars,
       mutexVars, queueVars, wakeupVars, callVars
  <2>3. HeldIsCount'
    BY <1>2, <1>b, ThreadsAssumption DEF mutex_lock, QueuedWaits, WaiterWaits,
       HeldIsCount, HandedOver, Awaits, Runs, Calls, PCs, States, AllThreads, threadVars,
       mutexVars, queueVars, wakeupVars, callVars
  <2>4. HandedOver'
    BY <1>2, <1>b, ThreadsAssumption DEF mutex_lock, QueuedWaits, WaiterWaits,
       HeldIsCount, HandedOver, Awaits, Runs, Calls, PCs, States, AllThreads, threadVars,
       mutexVars, queueVars, wakeupVars, callVars
  <2> QED
    BY <2>1, <2>2, <2>3, <2>4
<1>3. ASSUME NEW t \in Threads, NEW m \in Mutexes, NEW timed \in BOOLEAN,
   mutex_lock_block(t, m, timed) PROVE QueuedWaits' /\ WaiterWaits' /\ HeldIsCount' /\
   HandedOver'
  <2>1. QueuedWaits'
    BY <1>3, <1>b, ThreadsAssumption DEF mutex_lock_block, Block, mutex_add_to_queue,
       QueuedWaits, WaiterWaits, HeldIsCount, HandedOver, Awaits, Runs, Calls, PCs,
       States, AllThreads, threadVars, mutexVars, queueVars, wakeupVars, callVars
  <2>2. WaiterWaits'
    BY <1>3, <1>b, ThreadsAssumption DEF mutex_lock_block, Block, mutex_add_to_queue,
       QueuedWaits, WaiterWaits, HeldIsCount, HandedOver, Awaits, Runs, Calls, PCs,
       States, AllThreads, threadVars, mutexVars, queueVars, wakeupVars, callVars
  <2>3. HeldIsCount'
    BY <1>3, <1>b, ThreadsAssumption DEF mutex_lock_block, Block, mutex_add_to_queue,
       QueuedWaits, WaiterWaits, HeldIsCount, HandedOver, Awaits, Runs, Calls, PCs,
       States, AllThreads, threadVars, mutexVars, queueVars, wakeupVars, callVars
  <2>4. HandedOver'
    BY <1>3, <1>b, ThreadsAssumption DEF mutex_lock_block, Block, mutex_add_to_queue,
       QueuedWaits, WaiterWaits, HeldIsCount, HandedOver, Awaits, Runs, Calls, PCs,
       States, AllThreads, threadVars, mutexVars, queueVars, wakeupVars, callVars
  <2> QED
    BY <2>1, <2>2, <2>3, <2>4
<1>4. ASSUME NEW t \in Threads, NEW m \in Mutexes, mutex_unlock(t, m) PROVE QueuedWaits'
   /\ WaiterWaits' /\ HeldIsCount' /\ HandedOver'
  <2>1. QueuedWaits'
    BY <1>4, <1>b, ThreadsAssumption DEF mutex_unlock, panic, QueuedWaits, WaiterWaits,
       HeldIsCount, HandedOver, Awaits, Runs, Calls, PCs, States, AllThreads, threadVars,
       mutexVars, queueVars, wakeupVars, callVars
  <2>2. WaiterWaits'
    BY <1>4, <1>b, ThreadsAssumption DEF mutex_unlock, panic, QueuedWaits, WaiterWaits,
       HeldIsCount, HandedOver, Awaits, Runs, Calls, PCs, States, AllThreads, threadVars,
       mutexVars, queueVars, wakeupVars, callVars
  <2>3. HeldIsCount'
    BY <1>4, <1>b, ThreadsAssumption DEF mutex_unlock, panic, QueuedWaits, WaiterWaits,
       HeldIsCount, HandedOver, Awaits, Runs, Calls, PCs, States, AllThreads, threadVars,
       mutexVars, queueVars, wakeupVars, callVars
  <2>4. HandedOver'
    BY <1>4, <1>b, ThreadsAssumption DEF mutex_unlock, panic, QueuedWaits, WaiterWaits,
       HeldIsCount, HandedOver, Awaits, Runs, Calls, PCs, States, AllThreads, threadVars,
       mutexVars, queueVars, wakeupVars, callVars
  <2> QED
    BY <2>1, <2>2, <2>3, <2>4
<1>5. ASSUME NEW t \in Threads, NEW m \in Mutexes, mutex_unlock_last(t, m) PROVE
   QueuedWaits' /\ WaiterWaits' /\ HeldIsCount' /\ HandedOver'
  <2>1. QueuedWaits'
    BY <1>5, <1>b, ThreadsAssumption DEF mutex_unlock_last, mutex_unlock_internal,
       mutex_remove_from_queue, queueVars, QueuedWaits, WaiterWaits, HeldIsCount,
       HandedOver, Awaits, Runs, Calls, PCs, States, AllThreads, threadVars, mutexVars,
       wakeupVars, callVars
  <2>2. WaiterWaits'
    BY <1>5, <1>b, ThreadsAssumption DEF mutex_unlock_last, mutex_unlock_internal,
       mutex_remove_from_queue, queueVars, QueuedWaits, WaiterWaits, HeldIsCount,
       HandedOver, Awaits, Runs, Calls, PCs, States, AllThreads, threadVars, mutexVars,
       wakeupVars, callVars
  <2>3. HeldIsCount'
    BY <1>5, <1>b, ThreadsAssumption DEF mutex_unlock_last, mutex_unlock_internal,
       mutex_remove_from_queue, queueVars, QueuedWaits, WaiterWaits, HeldIsCount,
       HandedOver, Awaits, Runs, Calls, PCs, States, AllThreads, threadVars, mutexVars,
       wakeupVars, callVars
  <2>4. HandedOver'
    BY <1>5, <1>b, ThreadsAssumption DEF mutex_unlock_last, mutex_unlock_internal,
       mutex_remove_from_queue, queueVars, QueuedWaits, WaiterWaits, HeldIsCount,
       HandedOver, Awaits, Runs, Calls, PCs, States, AllThreads, threadVars, mutexVars,
       wakeupVars, callVars
  <2> QED
    BY <2>1, <2>2, <2>3, <2>4
<1>6. ASSUME NEW t \in Threads, NEW m \in Mutexes, mutex_unlock_abort(t, m) PROVE
   QueuedWaits' /\ WaiterWaits' /\ HeldIsCount' /\ HandedOver'
  <2> DEFINE st == [state EXCEPT ![t] = "DEFUNCT_ACK"]
  <2>0. QueuesKept(st)
    <3> DEFINE bl == [block EXCEPT ![t] = Blocked("PANIC", @.by, @.timed)]
    <3>1. /\ st \in [AllThreads -> States] /\ bl \in [Threads -> BlockRecord]
          /\ signalled \in [Wakeups -> BOOLEAN] /\ frozen \in BOOLEAN
          /\ scheduler_switch(st, bl, signalled, NULL, NULL, frozen)
      BY <1>6 DEF mutex_unlock_abort, TypeOK, ThreadsType, WakeupsType, NotBlocked, Blocked, BlockRecord, BlockTypes, States, AllThreads
    <3> HIDE DEF st, bl
    <3> QED
      BY <1>b, <1>c, <3>1, SwitchQueue
  <2>1. QueuedWaits'
    BY <1>6, <1>b, <2>0, ThreadsAssumption DEF QueuesKept, mutex_unlock_abort, QueuedWaits,
       WaiterWaits, HeldIsCount, HandedOver, Awaits, Runs, Calls, PCs, States, AllThreads,
       threadVars, mutexVars, queueVars, wakeupVars, callVars
  <2>2. WaiterWaits'
    BY <1>6, <1>b, <2>0, ThreadsAssumption DEF QueuesKept, mutex_unlock_abort, QueuedWaits,
       WaiterWaits, HeldIsCount, HandedOver, Awaits, Runs, Calls, PCs, States, AllThreads,
       threadVars, mutexVars, queueVars, wakeupVars, callVars
  <2>3. HeldIsCount'
    BY <1>6, <1>b, <2>0, ThreadsAssumption DEF QueuesKept, mutex_unlock_abort, QueuedWaits,
       WaiterWaits, HeldIsCount, HandedOver, Awaits, Runs, Calls, PCs, States, AllThreads,
       threadVars, mutexVars, queueVars, wakeupVars, callVars
  <2>4. HandedOver'
    BY <1>6, <1>b, <2>0, ThreadsAssumption DEF QueuesKept, mutex_unlock_abort, QueuedWaits,
       WaiterWaits, HeldIsCount, HandedOver, Awaits, Runs, Calls, PCs, States, AllThreads,
       threadVars, mutexVars, queueVars, wakeupVars, callVars
  <2> QED
    BY <2>1, <2>2, <2>3, <2>4
<1>7. ASSUME NEW t \in Threads, mutex_lock_return(t) PROVE QueuedWaits' /\ WaiterWaits' /\
   HeldIsCount' /\ HandedOver'
  <2>1. QueuedWaits'
    BY <1>7, <1>b, ThreadsAssumption DEF mutex_lock_return, QueuedWaits, WaiterWaits,
       HeldIsCount, HandedOver, Awaits, Runs, Calls, PCs, States, AllThreads, threadVars,
       mutexVars, queueVars, wakeupVars, callVars
  <2>2. WaiterWaits'
    BY <1>7, <1>b, ThreadsAssumption DEF mutex_lock_return, QueuedWaits, WaiterWaits,
       HeldIsCount, HandedOver, Awaits, Runs, Calls, PCs, States, AllThreads, threadVars,
       mutexVars, queueVars, wakeupVars, callVars
  <2>3. HeldIsCount'
    BY <1>7, <1>b, ThreadsAssumption DEF mutex_lock_return, QueuedWaits, WaiterWaits,
       HeldIsCount, HandedOver, Awaits, Runs, Calls, PCs, States, AllThreads, threadVars,
       mutexVars, queueVars, wakeupVars, callVars
  <2>4. HandedOver'
    BY <1>7, <1>b, ThreadsAssumption DEF mutex_lock_return, QueuedWaits, WaiterWaits,
       HeldIsCount, HandedOver, Awaits, Runs, Calls, PCs, States, AllThreads, threadVars,
       mutexVars, queueVars, wakeupVars, callVars
  <2> QED
    BY <2>1, <2>2, <2>3, <2>4
<1>8. ASSUME NEW t \in Threads, NEW w \in Wakeups, wakeup_wait(t, w) PROVE QueuedWaits' /\
   WaiterWaits' /\ HeldIsCount' /\ HandedOver'
  <2>1. QueuedWaits'
    BY <1>8, <1>b, ThreadsAssumption DEF wakeup_wait, panic, QueuedWaits, WaiterWaits,
       HeldIsCount, HandedOver, Awaits, Runs, Calls, PCs, States, AllThreads, threadVars,
       mutexVars, queueVars, wakeupVars, callVars
  <2>2. WaiterWaits'
    BY <1>8, <1>b, ThreadsAssumption DEF wakeup_wait, panic, QueuedWaits, WaiterWaits,
       HeldIsCount, HandedOver, Awaits, Runs, Calls, PCs, States, AllThreads, threadVars,
       mutexVars, queueVars, wakeupVars, callVars
  <2>3. HeldIsCount'
    BY <1>8, <1>b, ThreadsAssumption DEF wakeup_wait, panic, QueuedWaits, WaiterWaits,
       HeldIsCount, HandedOver, Awaits, Runs, Calls, PCs, States, AllThreads, threadVars,
       mutexVars, queueVars, wakeupVars, callVars
  <2>4. HandedOver'
    BY <1>8, <1>b, ThreadsAssumption DEF wakeup_wait, panic, QueuedWaits, WaiterWaits,
       HeldIsCount, HandedOver, Awaits, Runs, Calls, PCs, States, AllThreads, threadVars,
       mutexVars, queueVars, wakeupVars, callVars
  <2> QED
    BY <2>1, <2>2, <2>3, <2>4
<1>9. ASSUME NEW t \in Threads, NEW w \in Wakeups, NEW timed \in BOOLEAN,
   wakeup_wait_block(t, w, timed) PROVE QueuedWaits' /\ WaiterWaits' /\ HeldIsCount' /\
   HandedOver'
  <2>1. QueuedWaits'
    BY <1>9, <1>b, ThreadsAssumption DEF wakeup_wait_block, Block, QueuedWaits,
       WaiterWaits, HeldIsCount, HandedOver, Awaits, Runs, Calls, PCs, States, AllThreads,
       threadVars, mutexVars, queueVars, wakeupVars, callVars
  <2>2. WaiterWaits'
    BY <1>9, <1>b, ThreadsAssumption DEF wakeup_wait_block, Block, QueuedWaits,
       WaiterWaits, HeldIsCount, HandedOver, Awaits, Runs, Calls, PCs, States, AllThreads,
       threadVars, mutexVars, queueVars, wakeupVars, callVars
  <2>3. HeldIsCount'
    BY <1>9, <1>b, ThreadsAssumption DEF wakeup_wait_block, Block, QueuedWaits,
       WaiterWaits, HeldIsCount, HandedOver, Awaits, Runs, Calls, PCs, States, AllThreads,
       threadVars, mutexVars, queueVars, wakeupVars, callVars
  <2>4. HandedOver'
    BY <1>9, <1>b, ThreadsAssumption DEF wakeup_wait_block, Block, QueuedWaits,
       WaiterWaits, HeldIsCount, HandedOver, Awaits, Runs, Calls, PCs, States, AllThreads,
       threadVars, mutexVars, queueVars, wakeupVars, callVars
  <2> QED
    BY <2>1, <2>2, <2>3, <2>4
<1>10. ASSUME NEW t \in Threads, wakeup_wait_return(t) PROVE QueuedWaits' /\ WaiterWaits'
   /\ HeldIsCount' /\ HandedOver'
  <2>1. QueuedWaits'
    BY <1>10, <1>b, ThreadsAssumption DEF wakeup_wait_return, QueuedWaits, WaiterWaits,
       HeldIsCount, HandedOver, Awaits, Runs, Calls, PCs, States, AllThreads, threadVars,
       mutexVars, queueVars, wakeupVars, callVars
  <2>2. WaiterWaits'
    <3>1. ASSUME NEW w \in Wakeups, waiter'[w] # NULL
          PROVE  pc'[waiter'[w]] \in {"wakeup_yield", "wakeup_back"} /\ arg'[waiter'[w]] = w
      <4>1. /\ waiter'[w] = waiter[w] /\ arg' = arg
            /\ pc[t] \in {"wakeup_back", "wakeup_test", "wakeup_take"}
            /\ pc[t] = "wakeup_back" => w # arg[t]
            /\ \A x \in Threads \ {t} : pc'[x] = pc[x]
        BY <1>10, <1>b, <3>1 DEF wakeup_wait_return, wakeupVars
      <4>2. /\ waiter[w] \in Threads
            /\ pc[waiter[w]] \in {"wakeup_yield", "wakeup_back"} /\ arg[waiter[w]] = w
        BY <1>b, <1>c, <3>1, <4>1 DEF WaiterWaits
      <4>3. waiter[w] # t
        BY <4>1, <4>2
      <4> QED
        BY <4>1, <4>2, <4>3
    <3> QED
      BY <3>1 DEF WaiterWaits
  <2>3. HeldIsCount'
    BY <1>10, <1>b, ThreadsAssumption DEF wakeup_wait_return, QueuedWaits, WaiterWaits,
       HeldIsCount, HandedOver, Awaits, Runs, Calls, PCs, States, AllThreads, threadVars,
       mutexVars, queueVars, wakeupVars, callVars
  <2>4. HandedOver'
    BY <1>10, <1>b, ThreadsAssumption DEF wakeup_wait_return, QueuedWaits, WaiterWaits,
       HeldIsCount, HandedOver, Awaits, Runs, Calls, PCs, States, AllThreads, threadVars,
       mutexVars, queueVars, wakeupVars, callVars
  <2> QED
    BY <2>1, <2>2, <2>3, <2>4
<1>11. ASSUME NEW t \in Threads, NEW timed \in BOOLEAN, sleep(t, timed) PROVE QueuedWaits'
   /\ WaiterWaits' /\ HeldIsCount' /\ HandedOver'
  <2>1. QueuedWaits'
    BY <1>11, <1>b, ThreadsAssumption DEF sleep, Block, QueuedWaits, WaiterWaits,
       HeldIsCount, HandedOver, Awaits, Runs, Calls, PCs, States, AllThreads, threadVars,
       mutexVars, queueVars, wakeupVars, callVars
  <2>2. WaiterWaits'
    BY <1>11, <1>b, ThreadsAssumption DEF sleep, Block, QueuedWaits, WaiterWaits,
       HeldIsCount, HandedOver, Awaits, Runs, Calls, PCs, States, AllThreads, threadVars,
       mutexVars, queueVars, wakeupVars, callVars
  <2>3. HeldIsCount'
    BY <1>11, <1>b, ThreadsAssumption DEF sleep, Block, QueuedWaits, WaiterWaits,
       HeldIsCount, HandedOver, Awaits, Runs, Calls, PCs, States, AllThreads, threadVars,
       mutexVars, queueVars, wakeupVars, callVars
  <2>4. HandedOver'
    BY <1>11, <1>b, ThreadsAssumption DEF sleep, Block, QueuedWaits, WaiterWaits,
       HeldIsCount, HandedOver, Awaits, Runs, Calls, PCs, States, AllThreads, threadVars,
       mutexVars, queueVars, wakeupVars, callVars
  <2> QED
    BY <2>1, <2>2, <2>3, <2>4
<1>12. ASSUME NEW t \in Threads, NEW x \in Threads, NEW p \in Prios,
   thread_set_priority(t, x, p) PROVE QueuedWaits' /\ WaiterWaits' /\ HeldIsCount' /\
   HandedOver'
  <2>1. QueuedWaits'
    BY <1>12, <1>b, ThreadsAssumption DEF thread_set_priority, QueuedWaits, WaiterWaits,
       HeldIsCount, HandedOver, Awaits, Runs, Calls, PCs, States, AllThreads, threadVars,
       mutexVars, queueVars, wakeupVars, callVars
  <2>2. WaiterWaits'
    BY <1>12, <1>b, ThreadsAssumption DEF thread_set_priority, QueuedWaits, WaiterWaits,
       HeldIsCount, HandedOver, Awaits, Runs, Calls, PCs, States, AllThreads, threadVars,
       mutexVars, queueVars, wakeupVars, callVars
  <2>3. HeldIsCount'
    BY <1>12, <1>b, ThreadsAssumption DEF thread_set_priority, QueuedWaits, WaiterWaits,
       HeldIsCount, HandedOver, Awaits, Runs, Calls, PCs, States, AllThreads, threadVars,
       mutexVars, queueVars, wakeupVars, callVars
  <2>4. HandedOver'
    BY <1>12, <1>b, ThreadsAssumption DEF thread_set_priority, QueuedWaits, WaiterWaits,
       HeldIsCount, HandedOver, Awaits, Runs, Calls, PCs, States, AllThreads, threadVars,
       mutexVars, queueVars, wakeupVars, callVars
  <2> QED
    BY <2>1, <2>2, <2>3, <2>4
<1>13. ASSUME tick PROVE QueuedWaits' /\ WaiterWaits' /\ HeldIsCount' /\ HandedOver'
  <2>0. QueuesKept(state)
    <3>1. /\ block \in [Threads -> BlockRecord] /\ signalled \in [Wakeups -> BOOLEAN]
          /\ frozen \in BOOLEAN
          /\ scheduler_switch(state, block, signalled, NULL, NULL, frozen)
      BY <1>13 DEF tick, TypeOK, ThreadsType, WakeupsType
    <3> QED
      BY <1>b, <1>c, <3>1, SwitchQueue
  <2>1. QueuedWaits'
    BY <1>13, <1>b, <2>0, ThreadsAssumption DEF QueuesKept, tick, QueuedWaits, WaiterWaits,
       HeldIsCount, HandedOver, Awaits, Runs, Calls, PCs, States, AllThreads, threadVars,
       mutexVars, queueVars, wakeupVars, callVars
  <2>2. WaiterWaits'
    BY <1>13, <1>b, <2>0, ThreadsAssumption DEF QueuesKept, tick, QueuedWaits, WaiterWaits,
       HeldIsCount, HandedOver, Awaits, Runs, Calls, PCs, States, AllThreads, threadVars,
       mutexVars, queueVars, wakeupVars, callVars
  <2>3. HeldIsCount'
    BY <1>13, <1>b, <2>0, ThreadsAssumption DEF QueuesKept, tick, QueuedWaits, WaiterWaits,
       HeldIsCount, HandedOver, Awaits, Runs, Calls, PCs, States, AllThreads, threadVars,
       mutexVars, queueVars, wakeupVars, callVars
  <2>4. HandedOver'
    BY <1>13, <1>b, <2>0, ThreadsAssumption DEF QueuesKept, tick, QueuedWaits, WaiterWaits,
       HeldIsCount, HandedOver, Awaits, Runs, Calls, PCs, States, AllThreads, threadVars,
       mutexVars, queueVars, wakeupVars, callVars
  <2> QED
    BY <2>1, <2>2, <2>3, <2>4
<1>14. ASSUME NEW w \in Wakeups, wakeup_signal(w) PROVE QueuedWaits' /\ WaiterWaits' /\
   HeldIsCount' /\ HandedOver'
  <2>1. QueuedWaits'
    BY <1>14, <1>b, ThreadsAssumption DEF wakeup_signal, SignalState, QueuedWaits,
       WaiterWaits, HeldIsCount, HandedOver, Awaits, Runs, Calls, PCs, States, AllThreads,
       threadVars, mutexVars, queueVars, wakeupVars, callVars
  <2>2. WaiterWaits'
    BY <1>14, <1>b, ThreadsAssumption DEF wakeup_signal, SignalState, QueuedWaits,
       WaiterWaits, HeldIsCount, HandedOver, Awaits, Runs, Calls, PCs, States, AllThreads,
       threadVars, mutexVars, queueVars, wakeupVars, callVars
  <2>3. HeldIsCount'
    BY <1>14, <1>b, ThreadsAssumption DEF wakeup_signal, SignalState, QueuedWaits,
       WaiterWaits, HeldIsCount, HandedOver, Awaits, Runs, Calls, PCs, States, AllThreads,
       threadVars, mutexVars, queueVars, wakeupVars, callVars
  <2>4. HandedOver'
    BY <1>14, <1>b, ThreadsAssumption DEF wakeup_signal, SignalState, QueuedWaits,
       WaiterWaits, HeldIsCount, HandedOver, Awaits, Runs, Calls, PCs, States, AllThreads,
       threadVars, mutexVars, queueVars, wakeupVars, callVars
  <2> QED
    BY <2>1, <2>2, <2>3, <2>4
<1>15. ASSUME NEW w \in Wakeups, wakeup_signal_idle(w) PROVE QueuedWaits' /\ WaiterWaits'
   /\ HeldIsCount' /\ HandedOver'
  <2> DEFINE st == SignalState(w)
  <2>0. QueuesKept(st)
    <3> DEFINE sg == [signalled EXCEPT ![w] = TRUE]
    <3>1. /\ st \in [AllThreads -> States] /\ SignalBlock(w) \in [Threads -> BlockRecord]
          /\ sg \in [Wakeups -> BOOLEAN] /\ waiter[w] \in Threads \cup {NULL}
          /\ frozen \in BOOLEAN
          /\ scheduler_switch(st, SignalBlock(w), sg, waiter[w], NULL, frozen)
      BY <1>15 DEF wakeup_signal_idle, SignalState, SignalBlock, TypeOK, ThreadsType,
         WakeupsType, NotBlocked, Blocked, BlockRecord, BlockTypes, States, AllThreads
    <3> HIDE DEF st, sg
    <3> QED
      BY <1>b, <1>c, <3>1, SwitchQueue
  <2>a. /\ \A x \in Threads : st[x] \in {state[x], "READY"}
        /\ \A m \in Mutexes : \A x \in waiters[m] : st[x] = state[x]
    BY <1>b, ThreadsAssumption DEF SignalState, WaiterWaits, QueuedWaits, Awaits, AllThreads
  <2>b. UNCHANGED <<mutexVars, waiter, callVars>>
    BY <1>15 DEF wakeup_signal_idle
  <2> HIDE DEF st
  <2>1. QueuedWaits'
    BY <1>b, <2>0, <2>a, <2>b DEF QueuesKept, QueuedWaits, Awaits, mutexVars, callVars
  <2>2. WaiterWaits'
    BY <2>b DEF WaiterWaits, callVars
  <2>3. HeldIsCount'
    BY <2>b DEF HeldIsCount, Awaits, mutexVars, callVars
  <2>4. HandedOver'
    BY <2>0, <2>a, <2>b DEF QueuesKept, HandedOver, Awaits, mutexVars, callVars
  <2> QED
    BY <2>1, <2>2, <2>3, <2>4
<1>16. ASSUME UNCHANGED vars PROVE QueuedWaits' /\ WaiterWaits' /\ HeldIsCount' /\ HandedOver'
  BY <1>16 DEF vars, threadVars, mutexVars, queueVars, wakeupVars, callVars, QueuedWaits,
     WaiterWaits, HeldIsCount, HandedOver, Awaits
<1> QED
  BY <1>a, <1>1, <1>2, <1>3, <1>4, <1>5, <1>6, <1>7, <1>8, <1>9, <1>10, <1>11, <1>12,
     <1>13, <1>14, <1>15, <1>16 DEF Next, Step, Interrupt

\* Mutual exclusion of the recursive mutexes: a thread that mutex_lock told it has
\* the mutex owns it, and no other thread was told so.
THEOREM MutexCorrect == Spec => []MutualExclusion
<1>1. MutexInvariant => MutualExclusion
  BY DEF MutexInvariant, HeldIsCount, MutualExclusion
<1> QED
  BY <1>1, InitMutex, NextMutex, PTL DEF Spec

\* mutex_lock tells the right result apart by the owner pointer alone.
THEOREM HandOffCorrect == Spec => []LockReturnIsHandOff
<1>1. MutexInvariant => LockReturnIsHandOff
  BY DEF MutexInvariant, HeldIsCount, HandedOver, LockReturnIsHandOff
<1> QED
  BY <1>1, InitMutex, NextMutex, PTL DEF Spec
-----------------------------------------------------------------------------
(* The queues and the refinement of RecursiveMutex, where no stack         *)
(* overflows.  (An overflow suspends user threads where they are, also     *)
(* those that wait in a queue, and brings defunct ones back.)              *)
(* MutexInvariant says what threads that wait may do; QueueInvariant adds  *)
(* who is where: a thread blocked on a mutex or a wakeup is exactly there, *)
(* only a mutex whose owner died keeps waiters while it is free, and the   *)
(* dead stay dead.                                                         *)

\* A mutex that is locked or waited for has been owned.
OwnerKnown ==
    \A m \in Mutexes : count[m] > 0 \/ waiters[m] # {} => owner[m] \in Threads

\* A thread that panicf or a data abort killed only has a yield left.
DeadStays ==
    \A t \in Threads : state[t] = "DEFUNCT_ACK" => pc[t] \in {"panic_yield", "dead"}

\* A wakeup keeps its waiter until that thread has run on.
WaiterKept ==
    \A t \in Threads : pc[t] \in {"wakeup_yield", "wakeup_back"} =>
        \E w \in Wakeups : arg[t] = w /\ waiter[w] = t

\* A thread blocked on a wakeup is inside wakeup_wait, and not the one that runs on.
BlockedWaits ==
    \A t \in Threads, w \in Wakeups :
        state[t] = "BLOCKED" /\ block[t].type = "WAKEUP" /\ block[t].by = w =>
            /\ arg[t] = w /\ ~signalled[w]
            /\ pc[t] \in {"wakeup_yield", "wakeup_back"}
            /\ pc[t] = "wakeup_back" => current # t

QueueParts ==
    /\ QueueIsBlockedThreads /\ NoWaiterOnFreeMutex /\ OwnerKnown
    /\ DeadStays /\ WaiterKept /\ BlockedWaits

QueueInvariant == MutexInvariant /\ QueueParts

-----------------------------------------------------------------------------
\* A switch from the state st and the blocks bl that ends the timeouts of E.
Switched(st, bl, sg, E) ==
    /\ \A x \in E : st[x] = "BLOCKED" /\ state'[x] \in {"READY", "RUNNING"} /\ block'[x] = NotBlocked
    /\ \A x \in Threads \ E :
         /\ block'[x] = bl[x]
         /\ \/ state'[x] = st[x]
            \/ st[x] \in {"READY", "RUNNING"} /\ state'[x] \in {"READY", "RUNNING"}
    /\ \A x \in Threads : current' = x => state'[x] = "RUNNING"
    /\ waiters' = [m \in Mutexes |-> waiters[m] \ E]
    /\ signalled' = sg

\* Without overflows that is all that scheduler_switch does to them.
LEMMA SwitchExact ==
    ASSUME MayOverflow = {},
           NEW st \in [AllThreads -> States], NEW bl \in [Threads -> BlockRecord],
           NEW sg, NEW tgt \in Threads \cup {NULL}, NEW blk, NEW fz \in BOOLEAN,
           scheduler_switch(st, bl, sg, tgt, blk, fz)
    PROVE  \E E \in SUBSET Threads : Switched(st, bl, sg, E)
<1>1. PICK E \in SUBSET Overdue(StackState(FALSE, Preempt(st)), StackBlock(FALSE, bl), fz) :
      \E next \in Eligible(Expired(StackState(FALSE, Preempt(st)), E), tgt, blk, fz) :
        switch_to(st, bl, sg, fz, FALSE, E, next)
  BY DEF scheduler_switch
<1>2. PICK next \in Eligible(Expired(StackState(FALSE, Preempt(st)), E), tgt, blk, fz) :
        switch_to(st, bl, sg, fz, FALSE, E, next)
  BY <1>1
<1> DEFINE s0 == Preempt(st)
           s2 == Expired(s0, E)
<1>3. StackState(FALSE, s0) = s0 /\ StackBlock(FALSE, bl) = bl
  BY DEF StackState, StackBlock
<1>4. /\ s0 \in [AllThreads -> States]
      /\ \A x \in AllThreads : s0[x] = st[x] \/ (st[x] = "RUNNING" /\ s0[x] = "READY")
  BY DEF Preempt, States
<1>5. E \subseteq Threads /\ \A x \in E : s0[x] = "BLOCKED"
  BY <1>1, <1>3 DEF Overdue
<1>6. /\ state' = [s2 EXCEPT ![next] = "RUNNING"]
      /\ block' = [t \in Threads |-> IF t \in E THEN NotBlocked ELSE bl[t]]
      /\ current' = next
      /\ waiters' = [m \in Mutexes |-> waiters[m] \ E]
      /\ signalled' = sg
  BY <1>2, <1>3 DEF switch_to, mutex_remove_from_queue
<1> HIDE DEF s0
<1>7. /\ s2 \in [AllThreads -> States]
      /\ \A x \in AllThreads : s2[x] = IF x \in E THEN "READY" ELSE s0[x]
  BY <1>4 DEF Expired, States, AllThreads
<1> HIDE DEF s2
<1>8. next = idle \/ (next \in Threads /\ s2[next] = "READY")
  BY <1>2, <1>3, ThreadsAssumption DEF Eligible, s2, s0
<1>9. \A x \in E : st[x] = "BLOCKED" /\ state'[x] \in {"READY", "RUNNING"} /\ block'[x] = NotBlocked
  BY <1>4, <1>5, <1>6, <1>7 DEF AllThreads
<1>10. \A x \in Threads \ E :
          \/ state'[x] = st[x]
          \/ st[x] \in {"READY", "RUNNING"} /\ state'[x] \in {"READY", "RUNNING"}
  <2>1. TAKE x \in Threads \ E
  <2>2. CASE x = next
    BY <1>4, <1>6, <1>7, <1>8, <2>2, ThreadsAssumption DEF AllThreads
  <2>3. CASE x # next
    BY <1>4, <1>6, <1>7, <2>3 DEF AllThreads
  <2> QED
    BY <2>2, <2>3
<1>11. \A x \in Threads \ E : block'[x] = bl[x]
  BY <1>6
<1>12. \A x \in Threads : current' = x => state'[x] = "RUNNING"
  BY <1>6, <1>7 DEF AllThreads
<1> QED
  BY <1>5, <1>6, <1>9, <1>10, <1>11, <1>12 DEF Switched

\* In the initial state nobody waits.
LEMMA InitQueue == Init => QueueInvariant
<1> SUFFICES ASSUME Init PROVE QueueInvariant
  OBVIOUS
<1>1. MutexInvariant
  BY InitMutex
<1>2. QueueIsBlockedThreads /\ NoWaiterOnFreeMutex /\ OwnerKnown
  BY ThreadsAssumption
     DEF Init, QueueIsBlockedThreads, NoWaiterOnFreeMutex, OwnerKnown, AllThreads
<1>3. DeadStays /\ WaiterKept /\ BlockedWaits
  BY ThreadsAssumption DEF Init, DeadStays, WaiterKept, BlockedWaits, AllThreads
<1> QED
  BY <1>1, <1>2, <1>3 DEF QueueInvariant, QueueParts

\* Every step preserves QueueInvariant.
LEMMA NextQueue ==
    ASSUME MayOverflow = {}, QueueInvariant, [Next]_vars
    PROVE  QueueInvariant'
<1>a. MutexInvariant'
  BY NextMutex DEF QueueInvariant
<1>b. /\ state \in [AllThreads -> States] /\ current \in AllThreads
      /\ block \in [Threads -> BlockRecord] /\ frozen \in BOOLEAN
      /\ signalled \in [Wakeups -> BOOLEAN]
      /\ waiters \in [Mutexes -> SUBSET Threads] /\ owner \in [Mutexes -> Threads \cup {NULL}]
      /\ count \in [Mutexes -> Nat] /\ waiter \in [Wakeups -> Threads \cup {NULL}]
      /\ pc \in [Threads -> PCs]
      /\ arg \in [Threads -> Mutexes \cup Wakeups \cup Threads \cup {NULL}]
  BY DEF QueueInvariant, MutexInvariant, TypeOK, ThreadsType, MutexesType, WakeupsType, CallsType
<1>c. /\ QueuedWaits /\ WaiterWaits
      /\ QueueIsBlockedThreads /\ NoWaiterOnFreeMutex /\ OwnerKnown
      /\ DeadStays /\ WaiterKept /\ BlockedWaits
  BY DEF QueueInvariant, MutexInvariant, QueueParts
<1>1. ASSUME NEW t \in Threads, yield(t)
      PROVE  QueueParts'
  <2>a. PICK E \in SUBSET Threads : Switched(state, block, signalled, E)
    <3>1. /\ state \in [AllThreads -> States] /\ block \in [Threads -> BlockRecord]
          /\ NULL \in Threads \cup {NULL}
          /\ scheduler_switch(state, block, signalled, NULL, t, frozen)
      BY <1>1, <1>b DEF yield, NotBlocked, Blocked, BlockRecord, BlockTypes, States,
         AllThreads
    <3> QED
      BY <1>b, <3>1, SwitchExact
  <2>1. QueueIsBlockedThreads'
    BY <1>1, <1>b, <1>c, <2>a, ThreadsAssumption DEF yield, AfterYield, Switched,
       NotBlocked, Blocked, QueueIsBlockedThreads, QueuedWaits, WaiterWaits, Awaits, Calls,
       Runs, AllThreads, threadVars, mutexVars, queueVars, wakeupVars, callVars
  <2>2. NoWaiterOnFreeMutex'
    BY <1>1, <1>b, <1>c, <2>a, ThreadsAssumption DEF yield, AfterYield, Switched,
       NotBlocked, Blocked, NoWaiterOnFreeMutex, OwnerKnown, QueueIsBlockedThreads,
       DeadStays, WaiterWaits, Calls, Runs, AllThreads, threadVars, mutexVars, queueVars,
       wakeupVars, callVars
  <2>3. OwnerKnown'
    BY <1>1, <1>b, <1>c, <2>a, ThreadsAssumption DEF yield, AfterYield, Switched,
       NotBlocked, Blocked, OwnerKnown, AllThreads, threadVars, mutexVars, queueVars,
       wakeupVars, callVars
  <2>4. DeadStays'
    BY <1>1, <1>b, <1>c, <2>a, ThreadsAssumption DEF yield, AfterYield, Switched,
       NotBlocked, Blocked, DeadStays, QueueIsBlockedThreads, Calls, Runs, AllThreads,
       threadVars, mutexVars, queueVars, wakeupVars, callVars
  <2>5. WaiterKept'
    BY <1>1, <1>b, <1>c, <2>a, ThreadsAssumption DEF yield, AfterYield, Switched,
       NotBlocked, Blocked, WaiterKept, WaiterWaits, Calls, Runs, AllThreads, threadVars,
       mutexVars, queueVars, wakeupVars, callVars
  <2>6. BlockedWaits'
    BY <1>1, <1>b, <1>c, <2>a, ThreadsAssumption DEF yield, AfterYield, Switched,
       NotBlocked, Blocked, BlockedWaits, WaiterKept, WaiterWaits, QueuedWaits, Awaits,
       Calls, Runs, AllThreads, threadVars, mutexVars, queueVars, wakeupVars, callVars
  <2> QED
    BY <2>1, <2>2, <2>3, <2>4, <2>5, <2>6 DEF QueueParts
<1>2. ASSUME NEW t \in Threads, NEW m \in Mutexes, mutex_lock(t, m)
      PROVE  QueueParts'
  <2>1. QueueIsBlockedThreads'
    BY <1>2, <1>b, <1>c, ThreadsAssumption DEF mutex_lock, QueueIsBlockedThreads,
       QueuedWaits, WaiterWaits, Awaits, Calls, Runs, AllThreads, threadVars, mutexVars,
       queueVars, wakeupVars, callVars
  <2>2. NoWaiterOnFreeMutex'
    <3>1. UNCHANGED <<state, waiters>>
      BY <1>2 DEF mutex_lock, threadVars, queueVars
    <3>2. ASSUME NEW n \in Mutexes, count'[n] = 0 PROVE n # m /\ count[n] = 0 /\ owner'[n] = owner[n]
      BY <1>2, <1>b, <3>2 DEF mutex_lock
    <3> QED
      BY <1>c, <3>1, <3>2 DEF NoWaiterOnFreeMutex
  <2>3. OwnerKnown'
    BY <1>2, <1>b, <1>c, ThreadsAssumption DEF mutex_lock, OwnerKnown, AllThreads,
       threadVars, mutexVars, queueVars, wakeupVars, callVars
  <2>4. DeadStays'
    BY <1>2, <1>b, <1>c, ThreadsAssumption DEF mutex_lock, DeadStays, QueueIsBlockedThreads,
       Calls, Runs, AllThreads, threadVars, mutexVars, queueVars, wakeupVars, callVars
  <2>5. WaiterKept'
    BY <1>2, <1>b, <1>c, ThreadsAssumption DEF mutex_lock, WaiterKept, WaiterWaits, Calls,
       Runs, AllThreads, threadVars, mutexVars, queueVars, wakeupVars, callVars
  <2>6. BlockedWaits'
    BY <1>2, <1>b, <1>c, ThreadsAssumption DEF mutex_lock, BlockedWaits, WaiterKept,
       WaiterWaits, QueuedWaits, Awaits, Calls, Runs, AllThreads, threadVars, mutexVars,
       queueVars, wakeupVars, callVars
  <2> QED
    BY <2>1, <2>2, <2>3, <2>4, <2>5, <2>6 DEF QueueParts
<1>3. ASSUME NEW t \in Threads, NEW m \in Mutexes, NEW timed \in BOOLEAN,
            mutex_lock_block(t, m, timed)
      PROVE  QueueParts'
  <2>1. QueueIsBlockedThreads'
    BY <1>3, <1>b, <1>c, ThreadsAssumption DEF mutex_lock_block, Block, Blocked,
       mutex_add_to_queue, QueueIsBlockedThreads, QueuedWaits, WaiterWaits, Awaits, Calls,
       Runs, AllThreads, threadVars, mutexVars, queueVars, wakeupVars, callVars
  <2>2. NoWaiterOnFreeMutex'
    BY <1>3, <1>b, <1>c, ThreadsAssumption DEF mutex_lock_block, Block, Blocked,
       mutex_add_to_queue, NoWaiterOnFreeMutex, OwnerKnown, QueueIsBlockedThreads,
       DeadStays, WaiterWaits, Calls, Runs, AllThreads, threadVars, mutexVars, queueVars,
       wakeupVars, callVars
  <2>3. OwnerKnown'
    BY <1>3, <1>b, <1>c, ThreadsAssumption DEF mutex_lock_block, Block, Blocked,
       mutex_add_to_queue, OwnerKnown, AllThreads, threadVars, mutexVars, queueVars,
       wakeupVars, callVars
  <2>4. DeadStays'
    BY <1>3, <1>b, <1>c, ThreadsAssumption DEF mutex_lock_block, Block, Blocked,
       mutex_add_to_queue, DeadStays, QueueIsBlockedThreads, Calls, Runs, AllThreads,
       threadVars, mutexVars, queueVars, wakeupVars, callVars
  <2>5. WaiterKept'
    BY <1>3, <1>b, <1>c, ThreadsAssumption DEF mutex_lock_block, Block, Blocked,
       mutex_add_to_queue, WaiterKept, WaiterWaits, Calls, Runs, AllThreads, threadVars,
       mutexVars, queueVars, wakeupVars, callVars
  <2>6. BlockedWaits'
    BY <1>3, <1>b, <1>c, ThreadsAssumption DEF mutex_lock_block, Block, Blocked,
       mutex_add_to_queue, BlockedWaits, WaiterKept, WaiterWaits, QueuedWaits, Awaits,
       Calls, Runs, AllThreads, threadVars, mutexVars, queueVars, wakeupVars, callVars
  <2> QED
    BY <2>1, <2>2, <2>3, <2>4, <2>5, <2>6 DEF QueueParts
<1>4. ASSUME NEW t \in Threads, NEW m \in Mutexes, mutex_unlock(t, m)
      PROVE  QueueParts'
  <2>1. QueueIsBlockedThreads'
    BY <1>4, <1>b, <1>c, ThreadsAssumption DEF mutex_unlock, panic, Blocked,
       QueueIsBlockedThreads, QueuedWaits, WaiterWaits, Awaits, Calls, Runs, AllThreads,
       threadVars, mutexVars, queueVars, wakeupVars, callVars
  <2>2. NoWaiterOnFreeMutex'
    BY <1>4, <1>b, <1>c, ThreadsAssumption DEF mutex_unlock, panic, Blocked,
       NoWaiterOnFreeMutex, OwnerKnown, QueueIsBlockedThreads, DeadStays, WaiterWaits,
       Calls, Runs, AllThreads, threadVars, mutexVars, queueVars, wakeupVars, callVars
  <2>3. OwnerKnown'
    BY <1>4, <1>b, <1>c, ThreadsAssumption DEF mutex_unlock, panic, Blocked, OwnerKnown,
       AllThreads, threadVars, mutexVars, queueVars, wakeupVars, callVars
  <2>4. DeadStays'
    BY <1>4, <1>b, <1>c, ThreadsAssumption DEF mutex_unlock, panic, Blocked, DeadStays,
       QueueIsBlockedThreads, Calls, Runs, AllThreads, threadVars, mutexVars, queueVars,
       wakeupVars, callVars
  <2>5. WaiterKept'
    BY <1>4, <1>b, <1>c, ThreadsAssumption DEF mutex_unlock, panic, Blocked, WaiterKept,
       WaiterWaits, Calls, Runs, AllThreads, threadVars, mutexVars, queueVars, wakeupVars,
       callVars
  <2>6. BlockedWaits'
    BY <1>4, <1>b, <1>c, ThreadsAssumption DEF mutex_unlock, panic, Blocked, BlockedWaits,
       WaiterKept, WaiterWaits, QueuedWaits, Awaits, Calls, Runs, AllThreads, threadVars,
       mutexVars, queueVars, wakeupVars, callVars
  <2> QED
    BY <2>1, <2>2, <2>3, <2>4, <2>5, <2>6 DEF QueueParts
<1>5. ASSUME NEW t \in Threads, NEW m \in Mutexes, mutex_unlock_last(t, m)
      PROVE  QueueParts'
  <2>0. /\ Calls(t) /\ count[m] = 1 /\ owner[m] = t
        /\ UNCHANGED <<current, waiter, signalled, pc, arg>>
    BY <1>5 DEF mutex_unlock_last, wakeupVars
  <2>1. CASE waiters[m] = {}
    <3>0. /\ count' = [count EXCEPT ![m] = 0]
          /\ UNCHANGED <<state, block, owner, waiters>>
      BY <1>5, <2>1 DEF mutex_unlock_last, mutex_unlock_internal, queueVars
    <3>1. QueueIsBlockedThreads'
      BY <1>b, <1>c, <2>0, <2>1, <3>0, ThreadsAssumption DEF QueueIsBlockedThreads,
         QueuedWaits, WaiterWaits, Awaits, Calls, Runs, AllThreads
    <3>2. NoWaiterOnFreeMutex'
      BY <1>b, <1>c, <2>0, <2>1, <3>0, ThreadsAssumption DEF NoWaiterOnFreeMutex,
         OwnerKnown, QueueIsBlockedThreads, DeadStays, WaiterWaits, Calls, Runs, AllThreads
    <3>3. OwnerKnown'
      BY <1>b, <1>c, <2>0, <2>1, <3>0, ThreadsAssumption DEF OwnerKnown, AllThreads
    <3>4. DeadStays'
      BY <1>b, <1>c, <2>0, <2>1, <3>0, ThreadsAssumption DEF DeadStays,
         QueueIsBlockedThreads, Calls, Runs, AllThreads
    <3>5. WaiterKept'
      BY <1>b, <1>c, <2>0, <2>1, <3>0, ThreadsAssumption DEF WaiterKept, WaiterWaits, Calls,
         Runs, AllThreads
    <3>6. BlockedWaits'
      BY <1>b, <1>c, <2>0, <2>1, <3>0, ThreadsAssumption DEF BlockedWaits, WaiterKept,
         WaiterWaits, QueuedWaits, Awaits, Calls, Runs, AllThreads
    <3> QED
      BY <3>1, <3>2, <3>3, <3>4, <3>5, <3>6 DEF QueueParts
  <2>2. CASE waiters[m] # {}
    <3>0. PICK h \in waiters[m] :
            /\ count' = [count EXCEPT ![m] = 1]
            /\ owner' = [owner EXCEPT ![m] = h]
            /\ state' = [state EXCEPT ![h] = "READY"]
            /\ block' = [block EXCEPT ![h] = NotBlocked]
            /\ waiters' = [n \in Mutexes |-> waiters[n] \ {h}]
      BY <1>5, <2>2 DEF mutex_unlock_last, mutex_unlock_internal, mutex_remove_from_queue
    <3>1. QueueIsBlockedThreads'
      BY <1>b, <1>c, <2>0, <3>0, ThreadsAssumption DEF NotBlocked, Blocked,
         QueueIsBlockedThreads, QueuedWaits, WaiterWaits, Awaits, Calls, Runs, AllThreads
    <3>2. NoWaiterOnFreeMutex'
      BY <1>b, <1>c, <2>0, <3>0, ThreadsAssumption DEF NotBlocked, Blocked,
         NoWaiterOnFreeMutex, OwnerKnown, QueueIsBlockedThreads, DeadStays, WaiterWaits,
         Calls, Runs, AllThreads
    <3>3. OwnerKnown'
      BY <1>b, <1>c, <2>0, <3>0, ThreadsAssumption DEF NotBlocked, Blocked, OwnerKnown,
         AllThreads
    <3>4. DeadStays'
      BY <1>b, <1>c, <2>0, <3>0, ThreadsAssumption DEF NotBlocked, Blocked, DeadStays,
         QueueIsBlockedThreads, Calls, Runs, AllThreads
    <3>5. WaiterKept'
      BY <1>b, <1>c, <2>0, <3>0, ThreadsAssumption DEF NotBlocked, Blocked, WaiterKept,
         WaiterWaits, Calls, Runs, AllThreads
    <3>6. BlockedWaits'
      BY <1>b, <1>c, <2>0, <3>0, ThreadsAssumption DEF NotBlocked, Blocked, BlockedWaits,
         WaiterKept, WaiterWaits, QueuedWaits, Awaits, Calls, Runs, AllThreads
    <3> QED
      BY <3>1, <3>2, <3>3, <3>4, <3>5, <3>6 DEF QueueParts
  <2> QED
    BY <2>1, <2>2
<1>6. ASSUME NEW t \in Threads, NEW m \in Mutexes, mutex_unlock_abort(t, m)
      PROVE  QueueParts'
  <2> DEFINE st == [state EXCEPT ![t] = "DEFUNCT_ACK"]
             bl == [block EXCEPT ![t] = Blocked("PANIC", @.by, @.timed)]
  <2>a. PICK E \in SUBSET Threads : Switched(st, bl, signalled, E)
    <3>1. /\ st \in [AllThreads -> States] /\ bl \in [Threads -> BlockRecord]
          /\ NULL \in Threads \cup {NULL}
          /\ scheduler_switch(st, bl, signalled, NULL, NULL, frozen)
      BY <1>6, <1>b DEF mutex_unlock_abort, NotBlocked, Blocked, BlockRecord, BlockTypes,
         States, AllThreads
    <3> HIDE DEF st, bl
    <3> QED
      BY <1>b, <3>1, SwitchExact
  <2>1. QueueIsBlockedThreads'
    BY <1>6, <1>b, <1>c, <2>a, ThreadsAssumption DEF mutex_unlock_abort, Switched, Blocked,
       NotBlocked, QueueIsBlockedThreads, QueuedWaits, WaiterWaits, Awaits, Calls, Runs,
       AllThreads, threadVars, mutexVars, queueVars, wakeupVars, callVars
  <2>2. NoWaiterOnFreeMutex'
    BY <1>6, <1>b, <1>c, <2>a, ThreadsAssumption DEF mutex_unlock_abort, Switched, Blocked,
       NotBlocked, NoWaiterOnFreeMutex, OwnerKnown, QueueIsBlockedThreads, DeadStays,
       WaiterWaits, Calls, Runs, AllThreads, threadVars, mutexVars, queueVars, wakeupVars,
       callVars
  <2>3. OwnerKnown'
    BY <1>6, <1>b, <1>c, <2>a, ThreadsAssumption DEF mutex_unlock_abort, Switched, Blocked,
       NotBlocked, OwnerKnown, AllThreads, threadVars, mutexVars, queueVars, wakeupVars,
       callVars
  <2>4. DeadStays'
    BY <1>6, <1>b, <1>c, <2>a, ThreadsAssumption DEF mutex_unlock_abort, Switched, Blocked,
       NotBlocked, DeadStays, QueueIsBlockedThreads, Calls, Runs, AllThreads, threadVars,
       mutexVars, queueVars, wakeupVars, callVars
  <2>5. WaiterKept'
    BY <1>6, <1>b, <1>c, <2>a, ThreadsAssumption DEF mutex_unlock_abort, Switched, Blocked,
       NotBlocked, WaiterKept, WaiterWaits, Calls, Runs, AllThreads, threadVars, mutexVars,
       queueVars, wakeupVars, callVars
  <2>6. BlockedWaits'
    BY <1>6, <1>b, <1>c, <2>a, ThreadsAssumption DEF mutex_unlock_abort, Switched, Blocked,
       NotBlocked, BlockedWaits, WaiterKept, WaiterWaits, QueuedWaits, Awaits, Calls, Runs,
       AllThreads, threadVars, mutexVars, queueVars, wakeupVars, callVars
  <2> QED
    BY <2>1, <2>2, <2>3, <2>4, <2>5, <2>6 DEF QueueParts
<1>7. ASSUME NEW t \in Threads, mutex_lock_return(t)
      PROVE  QueueParts'
  <2>1. QueueIsBlockedThreads'
    BY <1>7, <1>b, <1>c, ThreadsAssumption DEF mutex_lock_return, QueueIsBlockedThreads,
       QueuedWaits, WaiterWaits, Awaits, Calls, Runs, AllThreads, threadVars, mutexVars,
       queueVars, wakeupVars, callVars
  <2>2. NoWaiterOnFreeMutex'
    BY <1>7, <1>b, <1>c, ThreadsAssumption DEF mutex_lock_return, NoWaiterOnFreeMutex,
       OwnerKnown, QueueIsBlockedThreads, DeadStays, WaiterWaits, Calls, Runs, AllThreads,
       threadVars, mutexVars, queueVars, wakeupVars, callVars
  <2>3. OwnerKnown'
    BY <1>7, <1>b, <1>c, ThreadsAssumption DEF mutex_lock_return, OwnerKnown, AllThreads,
       threadVars, mutexVars, queueVars, wakeupVars, callVars
  <2>4. DeadStays'
    BY <1>7, <1>b, <1>c, ThreadsAssumption DEF mutex_lock_return, DeadStays,
       QueueIsBlockedThreads, Calls, Runs, AllThreads, threadVars, mutexVars, queueVars,
       wakeupVars, callVars
  <2>5. WaiterKept'
    BY <1>7, <1>b, <1>c, ThreadsAssumption DEF mutex_lock_return, WaiterKept, WaiterWaits,
       Calls, Runs, AllThreads, threadVars, mutexVars, queueVars, wakeupVars, callVars
  <2>6. BlockedWaits'
    BY <1>7, <1>b, <1>c, ThreadsAssumption DEF mutex_lock_return, BlockedWaits, WaiterKept,
       WaiterWaits, QueuedWaits, Awaits, Calls, Runs, AllThreads, threadVars, mutexVars,
       queueVars, wakeupVars, callVars
  <2> QED
    BY <2>1, <2>2, <2>3, <2>4, <2>5, <2>6 DEF QueueParts
<1>8. ASSUME NEW t \in Threads, NEW w \in Wakeups, wakeup_wait(t, w)
      PROVE  QueueParts'
  <2>1. QueueIsBlockedThreads'
    BY <1>8, <1>b, <1>c, ThreadsAssumption DEF wakeup_wait, panic, Blocked,
       QueueIsBlockedThreads, QueuedWaits, WaiterWaits, Awaits, Calls, Runs, AllThreads,
       threadVars, mutexVars, queueVars, wakeupVars, callVars
  <2>2. NoWaiterOnFreeMutex'
    BY <1>8, <1>b, <1>c, ThreadsAssumption DEF wakeup_wait, panic, Blocked,
       NoWaiterOnFreeMutex, OwnerKnown, QueueIsBlockedThreads, DeadStays, WaiterWaits,
       Calls, Runs, AllThreads, threadVars, mutexVars, queueVars, wakeupVars, callVars
  <2>3. OwnerKnown'
    BY <1>8, <1>b, <1>c, ThreadsAssumption DEF wakeup_wait, panic, Blocked, OwnerKnown,
       AllThreads, threadVars, mutexVars, queueVars, wakeupVars, callVars
  <2>4. DeadStays'
    BY <1>8, <1>b, <1>c, ThreadsAssumption DEF wakeup_wait, panic, Blocked, DeadStays,
       QueueIsBlockedThreads, Calls, Runs, AllThreads, threadVars, mutexVars, queueVars,
       wakeupVars, callVars
  <2>5. WaiterKept'
    BY <1>8, <1>b, <1>c, ThreadsAssumption DEF wakeup_wait, panic, Blocked, WaiterKept,
       WaiterWaits, Calls, Runs, AllThreads, threadVars, mutexVars, queueVars, wakeupVars,
       callVars
  <2>6. BlockedWaits'
    <3>1. arg' = arg /\ current' = current /\ t = current /\ pc[t] = "app"
      BY <1>8 DEF wakeup_wait, Calls, Runs
    <3>2. CASE panic(t) /\ UNCHANGED signalled
      <4>1. /\ state'[t] # "BLOCKED"
            /\ \A x \in Threads \ {t} : state'[x] = state[x] /\ block'[x] = block[x] /\ pc'[x] = pc[x]
        BY <1>b, <3>2 DEF panic, AllThreads
      <4> QED
        BY <1>c, <3>1, <3>2, <4>1 DEF BlockedWaits
    <3>3. CASE UNCHANGED <<state, block, pc>> /\ \A x \in Wakeups : signalled'[x] => signalled[x]
      BY <1>c, <3>1, <3>3 DEF BlockedWaits
    <3> QED
      BY <1>8, <1>b, <3>2, <3>3 DEF wakeup_wait
  <2> QED
    BY <2>1, <2>2, <2>3, <2>4, <2>5, <2>6 DEF QueueParts
<1>9. ASSUME NEW t \in Threads, NEW w \in Wakeups, NEW timed \in BOOLEAN,
            wakeup_wait_block(t, w, timed)
      PROVE  QueueParts'
  <2>1. QueueIsBlockedThreads'
    BY <1>9, <1>b, <1>c, ThreadsAssumption DEF wakeup_wait_block, Block, Blocked,
       QueueIsBlockedThreads, QueuedWaits, WaiterWaits, Awaits, Calls, Runs, AllThreads,
       threadVars, mutexVars, queueVars, wakeupVars, callVars
  <2>2. NoWaiterOnFreeMutex'
    BY <1>9, <1>b, <1>c, ThreadsAssumption DEF wakeup_wait_block, Block, Blocked,
       NoWaiterOnFreeMutex, OwnerKnown, QueueIsBlockedThreads, DeadStays, WaiterWaits,
       Calls, Runs, AllThreads, threadVars, mutexVars, queueVars, wakeupVars, callVars
  <2>3. OwnerKnown'
    BY <1>9, <1>b, <1>c, ThreadsAssumption DEF wakeup_wait_block, Block, Blocked,
       OwnerKnown, AllThreads, threadVars, mutexVars, queueVars, wakeupVars, callVars
  <2>4. DeadStays'
    BY <1>9, <1>b, <1>c, ThreadsAssumption DEF wakeup_wait_block, Block, Blocked, DeadStays,
       QueueIsBlockedThreads, Calls, Runs, AllThreads, threadVars, mutexVars, queueVars,
       wakeupVars, callVars
  <2>5. WaiterKept'
    BY <1>9, <1>b, <1>c, ThreadsAssumption DEF wakeup_wait_block, Block, Blocked,
       WaiterKept, WaiterWaits, Calls, Runs, AllThreads, threadVars, mutexVars, queueVars,
       wakeupVars, callVars
  <2>6. BlockedWaits'
    BY <1>9, <1>b, <1>c, ThreadsAssumption DEF wakeup_wait_block, Block, Blocked,
       BlockedWaits, WaiterKept, WaiterWaits, QueuedWaits, Awaits, Calls, Runs, AllThreads,
       threadVars, mutexVars, queueVars, wakeupVars, callVars
  <2> QED
    BY <2>1, <2>2, <2>3, <2>4, <2>5, <2>6 DEF QueueParts
<1>10. ASSUME NEW t \in Threads, wakeup_wait_return(t)
      PROVE  QueueParts'
  <2>1. QueueIsBlockedThreads'
    BY <1>10, <1>b, <1>c, ThreadsAssumption DEF wakeup_wait_return, QueueIsBlockedThreads,
       QueuedWaits, WaiterWaits, Awaits, Calls, Runs, AllThreads, threadVars, mutexVars,
       queueVars, wakeupVars, callVars
  <2>2. NoWaiterOnFreeMutex'
    BY <1>10, <1>b, <1>c, ThreadsAssumption DEF wakeup_wait_return, NoWaiterOnFreeMutex,
       OwnerKnown, QueueIsBlockedThreads, DeadStays, WaiterWaits, Calls, Runs, AllThreads,
       threadVars, mutexVars, queueVars, wakeupVars, callVars
  <2>3. OwnerKnown'
    BY <1>10, <1>b, <1>c, ThreadsAssumption DEF wakeup_wait_return, OwnerKnown, AllThreads,
       threadVars, mutexVars, queueVars, wakeupVars, callVars
  <2>4. DeadStays'
    BY <1>10, <1>b, <1>c, ThreadsAssumption DEF wakeup_wait_return, DeadStays,
       QueueIsBlockedThreads, Calls, Runs, AllThreads, threadVars, mutexVars, queueVars,
       wakeupVars, callVars
  <2>5. WaiterKept'
    BY <1>10, <1>b, <1>c, ThreadsAssumption DEF wakeup_wait_return, WaiterKept, WaiterWaits,
       Calls, Runs, AllThreads, threadVars, mutexVars, queueVars, wakeupVars, callVars
  <2>6. BlockedWaits'
    BY <1>10, <1>b, <1>c, ThreadsAssumption DEF wakeup_wait_return, BlockedWaits,
       WaiterKept, WaiterWaits, QueuedWaits, Awaits, Calls, Runs, AllThreads, threadVars,
       mutexVars, queueVars, wakeupVars, callVars
  <2> QED
    BY <2>1, <2>2, <2>3, <2>4, <2>5, <2>6 DEF QueueParts
<1>11. ASSUME NEW t \in Threads, NEW timed \in BOOLEAN, sleep(t, timed)
      PROVE  QueueParts'
  <2>1. QueueIsBlockedThreads'
    BY <1>11, <1>b, <1>c, ThreadsAssumption DEF sleep, Block, Blocked,
       QueueIsBlockedThreads, QueuedWaits, WaiterWaits, Awaits, Calls, Runs, AllThreads,
       threadVars, mutexVars, queueVars, wakeupVars, callVars
  <2>2. NoWaiterOnFreeMutex'
    BY <1>11, <1>b, <1>c, ThreadsAssumption DEF sleep, Block, Blocked, NoWaiterOnFreeMutex,
       OwnerKnown, QueueIsBlockedThreads, DeadStays, WaiterWaits, Calls, Runs, AllThreads,
       threadVars, mutexVars, queueVars, wakeupVars, callVars
  <2>3. OwnerKnown'
    BY <1>11, <1>b, <1>c, ThreadsAssumption DEF sleep, Block, Blocked, OwnerKnown,
       AllThreads, threadVars, mutexVars, queueVars, wakeupVars, callVars
  <2>4. DeadStays'
    BY <1>11, <1>b, <1>c, ThreadsAssumption DEF sleep, Block, Blocked, DeadStays,
       QueueIsBlockedThreads, Calls, Runs, AllThreads, threadVars, mutexVars, queueVars,
       wakeupVars, callVars
  <2>5. WaiterKept'
    BY <1>11, <1>b, <1>c, ThreadsAssumption DEF sleep, Block, Blocked, WaiterKept,
       WaiterWaits, Calls, Runs, AllThreads, threadVars, mutexVars, queueVars, wakeupVars,
       callVars
  <2>6. BlockedWaits'
    BY <1>11, <1>b, <1>c, ThreadsAssumption DEF sleep, Block, Blocked, BlockedWaits,
       WaiterKept, WaiterWaits, QueuedWaits, Awaits, Calls, Runs, AllThreads, threadVars,
       mutexVars, queueVars, wakeupVars, callVars
  <2> QED
    BY <2>1, <2>2, <2>3, <2>4, <2>5, <2>6 DEF QueueParts
<1>12. ASSUME NEW t \in Threads, NEW x \in Threads, NEW p \in Prios,
            thread_set_priority(t, x, p)
      PROVE  QueueParts'
  <2>1. QueueIsBlockedThreads'
    BY <1>12, <1>b, <1>c, ThreadsAssumption DEF thread_set_priority, QueueIsBlockedThreads,
       QueuedWaits, WaiterWaits, Awaits, Calls, Runs, AllThreads, threadVars, mutexVars,
       queueVars, wakeupVars, callVars
  <2>2. NoWaiterOnFreeMutex'
    BY <1>12, <1>b, <1>c, ThreadsAssumption DEF thread_set_priority, NoWaiterOnFreeMutex,
       OwnerKnown, QueueIsBlockedThreads, DeadStays, WaiterWaits, Calls, Runs, AllThreads,
       threadVars, mutexVars, queueVars, wakeupVars, callVars
  <2>3. OwnerKnown'
    BY <1>12, <1>b, <1>c, ThreadsAssumption DEF thread_set_priority, OwnerKnown, AllThreads,
       threadVars, mutexVars, queueVars, wakeupVars, callVars
  <2>4. DeadStays'
    BY <1>12, <1>b, <1>c, ThreadsAssumption DEF thread_set_priority, DeadStays,
       QueueIsBlockedThreads, Calls, Runs, AllThreads, threadVars, mutexVars, queueVars,
       wakeupVars, callVars
  <2>5. WaiterKept'
    BY <1>12, <1>b, <1>c, ThreadsAssumption DEF thread_set_priority, WaiterKept,
       WaiterWaits, Calls, Runs, AllThreads, threadVars, mutexVars, queueVars, wakeupVars,
       callVars
  <2>6. BlockedWaits'
    BY <1>12, <1>b, <1>c, ThreadsAssumption DEF thread_set_priority, BlockedWaits,
       WaiterKept, WaiterWaits, QueuedWaits, Awaits, Calls, Runs, AllThreads, threadVars,
       mutexVars, queueVars, wakeupVars, callVars
  <2> QED
    BY <2>1, <2>2, <2>3, <2>4, <2>5, <2>6 DEF QueueParts
<1>13. ASSUME tick
      PROVE  QueueParts'
  <2>a. PICK E \in SUBSET Threads : Switched(state, block, signalled, E)
    <3>1. /\ state \in [AllThreads -> States] /\ block \in [Threads -> BlockRecord]
          /\ NULL \in Threads \cup {NULL}
          /\ scheduler_switch(state, block, signalled, NULL, NULL, frozen)
      BY <1>13, <1>b DEF tick, NotBlocked, Blocked, BlockRecord, BlockTypes, States,
         AllThreads
    <3> QED
      BY <1>b, <3>1, SwitchExact
  <2>1. QueueIsBlockedThreads'
    BY <1>13, <1>b, <1>c, <2>a, ThreadsAssumption DEF tick, Switched, NotBlocked, Blocked,
       QueueIsBlockedThreads, QueuedWaits, WaiterWaits, Awaits, Calls, Runs, AllThreads,
       threadVars, mutexVars, queueVars, wakeupVars, callVars
  <2>2. NoWaiterOnFreeMutex'
    BY <1>13, <1>b, <1>c, <2>a, ThreadsAssumption DEF tick, Switched, NotBlocked, Blocked,
       NoWaiterOnFreeMutex, OwnerKnown, QueueIsBlockedThreads, DeadStays, WaiterWaits,
       Calls, Runs, AllThreads, threadVars, mutexVars, queueVars, wakeupVars, callVars
  <2>3. OwnerKnown'
    BY <1>13, <1>b, <1>c, <2>a, ThreadsAssumption DEF tick, Switched, NotBlocked, Blocked,
       OwnerKnown, AllThreads, threadVars, mutexVars, queueVars, wakeupVars, callVars
  <2>4. DeadStays'
    BY <1>13, <1>b, <1>c, <2>a, ThreadsAssumption DEF tick, Switched, NotBlocked, Blocked,
       DeadStays, QueueIsBlockedThreads, Calls, Runs, AllThreads, threadVars, mutexVars,
       queueVars, wakeupVars, callVars
  <2>5. WaiterKept'
    BY <1>13, <1>b, <1>c, <2>a, ThreadsAssumption DEF tick, Switched, NotBlocked, Blocked,
       WaiterKept, WaiterWaits, Calls, Runs, AllThreads, threadVars, mutexVars, queueVars,
       wakeupVars, callVars
  <2>6. BlockedWaits'
    BY <1>13, <1>b, <1>c, <2>a, ThreadsAssumption DEF tick, Switched, NotBlocked, Blocked,
       BlockedWaits, WaiterKept, WaiterWaits, QueuedWaits, Awaits, Calls, Runs, AllThreads,
       threadVars, mutexVars, queueVars, wakeupVars, callVars
  <2> QED
    BY <2>1, <2>2, <2>3, <2>4, <2>5, <2>6 DEF QueueParts
<1>14. ASSUME NEW w \in Wakeups, wakeup_signal(w)
      PROVE  QueueParts'
  <2>1. QueueIsBlockedThreads'
    BY <1>14, <1>b, <1>c, ThreadsAssumption DEF wakeup_signal, SignalState, SignalBlock,
       NotBlocked, Blocked, QueueIsBlockedThreads, QueuedWaits, WaiterWaits, Awaits, Calls,
       Runs, AllThreads, threadVars, mutexVars, queueVars, wakeupVars, callVars
  <2>2. NoWaiterOnFreeMutex'
    BY <1>14, <1>b, <1>c, ThreadsAssumption DEF wakeup_signal, SignalState, SignalBlock,
       NotBlocked, Blocked, NoWaiterOnFreeMutex, OwnerKnown, QueueIsBlockedThreads,
       DeadStays, WaiterWaits, Calls, Runs, AllThreads, threadVars, mutexVars, queueVars,
       wakeupVars, callVars
  <2>3. OwnerKnown'
    BY <1>14, <1>b, <1>c, ThreadsAssumption DEF wakeup_signal, SignalState, SignalBlock,
       NotBlocked, Blocked, OwnerKnown, AllThreads, threadVars, mutexVars, queueVars,
       wakeupVars, callVars
  <2>4. DeadStays'
    BY <1>14, <1>b, <1>c, ThreadsAssumption DEF wakeup_signal, SignalState, SignalBlock,
       NotBlocked, Blocked, DeadStays, QueueIsBlockedThreads, Calls, Runs, AllThreads,
       threadVars, mutexVars, queueVars, wakeupVars, callVars
  <2>5. WaiterKept'
    BY <1>14, <1>b, <1>c, ThreadsAssumption DEF wakeup_signal, SignalState, SignalBlock,
       NotBlocked, Blocked, WaiterKept, WaiterWaits, Calls, Runs, AllThreads, threadVars,
       mutexVars, queueVars, wakeupVars, callVars
  <2>6. BlockedWaits'
    BY <1>14, <1>b, <1>c, ThreadsAssumption DEF wakeup_signal, SignalState, SignalBlock,
       NotBlocked, Blocked, BlockedWaits, WaiterKept, WaiterWaits, QueuedWaits, Awaits,
       Calls, Runs, AllThreads, threadVars, mutexVars, queueVars, wakeupVars, callVars
  <2> QED
    BY <2>1, <2>2, <2>3, <2>4, <2>5, <2>6 DEF QueueParts
<1>15. ASSUME NEW w \in Wakeups, wakeup_signal_idle(w)
      PROVE  QueueParts'
  <2> DEFINE st == SignalState(w)
             bl == SignalBlock(w)
             sg == [signalled EXCEPT ![w] = TRUE]
  <2>a. PICK E \in SUBSET Threads : Switched(st, bl, sg, E)
    <3>1. /\ st \in [AllThreads -> States] /\ bl \in [Threads -> BlockRecord]
          /\ waiter[w] \in Threads \cup {NULL}
          /\ scheduler_switch(st, bl, sg, waiter[w], NULL, frozen)
      BY <1>15, <1>b DEF wakeup_signal_idle, SignalState, SignalBlock, NotBlocked, Blocked,
         BlockRecord, BlockTypes, States, AllThreads
    <3> HIDE DEF st, bl, sg
    <3> QED
      BY <1>b, <3>1, SwitchExact
  <2>1. QueueIsBlockedThreads'
    <3>1. /\ waiters' = [m \in Mutexes |-> waiters[m] \ E] /\ waiter[w] \in Threads
          /\ st = [state EXCEPT ![waiter[w]] = "READY"]
          /\ bl = [block EXCEPT ![waiter[w]] = NotBlocked]
      BY <1>15, <1>b, <2>a DEF wakeup_signal_idle, Switched, SignalState, SignalBlock
    <3>2. ASSUME NEW x \in Threads, NEW m \in Mutexes
          PROVE  x \in waiters[m] <=> st[x] = "BLOCKED" /\ bl[x].type = "MUTEX" /\ bl[x].by = m
      <4>1. CASE x = waiter[w]
        BY <1>15, <1>b, <1>c, <3>1, <4>1 DEF wakeup_signal_idle, WaiterWaits, QueuedWaits, Awaits,
           AllThreads
      <4>2. CASE x # waiter[w]
        BY <1>b, <1>c, <3>1, <4>2 DEF QueueIsBlockedThreads, AllThreads
      <4> QED
        BY <4>1, <4>2
    <3> HIDE DEF st, bl, sg
    <3>3. ASSUME NEW x \in Threads, NEW m \in Mutexes
          PROVE  x \in waiters'[m] <=>
                     state'[x] = "BLOCKED" /\ block'[x].type = "MUTEX" /\ block'[x].by = m
      BY <2>a, <3>1, <3>2, <3>3 DEF Switched
    <3> QED
      BY <3>3 DEF QueueIsBlockedThreads
  <2>2. NoWaiterOnFreeMutex'
    <3>1. /\ UNCHANGED <<count, owner>> /\ waiters' = [m \in Mutexes |-> waiters[m] \ E]
          /\ waiter[w] \in Threads
      BY <1>15, <1>b, <2>a DEF wakeup_signal_idle, Switched, mutexVars
    <3>2. ASSUME NEW x \in Threads, state[x] = "DEFUNCT_ACK" PROVE state'[x] = "DEFUNCT_ACK"
      <4>1. x # waiter[w]
        BY <1>15, <1>c, <3>2 DEF wakeup_signal_idle, WaiterWaits, DeadStays
      <4>2. SignalState(w)[x] = "DEFUNCT_ACK"
        BY <1>b, <3>1, <3>2, <4>1 DEF SignalState, AllThreads
      <4> QED
        BY <2>a, <4>2 DEF Switched
    <3> QED
      BY <1>b, <1>c, <3>1, <3>2 DEF NoWaiterOnFreeMutex, OwnerKnown
  <2>3. OwnerKnown'
    BY <1>15, <1>b, <1>c, <2>a, ThreadsAssumption DEF wakeup_signal_idle, Switched,
       SignalState, SignalBlock, NotBlocked, Blocked, OwnerKnown, AllThreads, threadVars,
       mutexVars, queueVars, wakeupVars, callVars
  <2>4. DeadStays'
    BY <1>15, <1>b, <1>c, <2>a, ThreadsAssumption DEF wakeup_signal_idle, Switched,
       SignalState, SignalBlock, NotBlocked, Blocked, DeadStays, QueueIsBlockedThreads,
       Calls, Runs, AllThreads, threadVars, mutexVars, queueVars, wakeupVars, callVars
  <2>5. WaiterKept'
    BY <1>15, <1>b, <1>c, <2>a, ThreadsAssumption DEF wakeup_signal_idle, Switched,
       SignalState, SignalBlock, NotBlocked, Blocked, WaiterKept, WaiterWaits, Calls, Runs,
       AllThreads, threadVars, mutexVars, queueVars, wakeupVars, callVars
  <2>6. BlockedWaits'
    BY <1>15, <1>b, <1>c, <2>a, ThreadsAssumption DEF wakeup_signal_idle, Switched,
       SignalState, SignalBlock, NotBlocked, Blocked, BlockedWaits, WaiterKept, WaiterWaits,
       QueuedWaits, Awaits, Calls, Runs, AllThreads, threadVars, mutexVars, queueVars,
       wakeupVars, callVars
  <2> QED
    BY <2>1, <2>2, <2>3, <2>4, <2>5, <2>6 DEF QueueParts
<1>16. ASSUME UNCHANGED vars PROVE QueueParts'
  BY <1>16, <1>c DEF vars, threadVars, mutexVars, queueVars, wakeupVars, callVars, QueueParts,
     QueueIsBlockedThreads, NoWaiterOnFreeMutex, OwnerKnown, DeadStays, WaiterKept, BlockedWaits
<1> QED
  BY <1>a, <1>1, <1>2, <1>3, <1>4, <1>5, <1>6, <1>7, <1>8, <1>9, <1>10, <1>11, <1>12,
     <1>13, <1>14, <1>15, <1>16 DEF Next, Step, Interrupt, QueueInvariant
-----------------------------------------------------------------------------
(* The refinement of RecursiveMutex.                                       *)

Holder == [m \in Mutexes |-> IF count[m] = 0 THEN NULL ELSE owner[m]]
Dead == {t \in Threads : state[t] = "DEFUNCT_ACK"}

\* What an abstract step sees of a switch: some waits end, nobody dies.
LEMMA SwitchGivesUp ==
    ASSUME NEW st \in [AllThreads -> States], NEW bl, NEW sg, NEW E \in SUBSET Threads,
           Switched(st, bl, sg, E)
    PROVE  /\ waiters' = [m \in Mutexes |-> waiters[m] \ E]
           /\ Dead' = {x \in Threads : st[x] = "DEFUNCT_ACK"}
<1>1. \A x \in Threads : state'[x] = "DEFUNCT_ACK" <=> st[x] = "DEFUNCT_ACK"
  BY DEF Switched
<1> QED
  BY <1>1 DEF Switched, Dead

\* A step whose holders, depths and dead stay the same, and that ends the waits of E.
LEMMA GivesUp ==
    ASSUME NEW E \in SUBSET Threads, waiters' = [m \in Mutexes |-> waiters[m] \ E],
           Dead' = Dead, UNCHANGED <<owner, count>>
    PROVE  M!Next
<1>1. Holder' = Holder
  BY DEF Holder
<1>2. M!GiveUp(E)
  BY <1>1 DEF M!GiveUp, Holder, Dead
<1> QED
  BY <1>2 DEF M!Next

\* A step that kills t and changes nothing else.
LEMMA Dies ==
    ASSUME NEW t \in Threads, Dead' = Dead \cup {t}, UNCHANGED <<owner, count, waiters>>
    PROVE  M!Next
<1>1. Holder' = Holder
  BY DEF Holder
<1>2. M!Die(t)
  BY <1>1 DEF M!Die, Holder, Dead
<1> QED
  BY <1>2 DEF M!Next

\* A step that the abstract mutexes do not see.
LEMMA Stutters ==
    ASSUME Dead' = Dead, UNCHANGED <<owner, count, waiters>>
    PROVE  UNCHANGED M!mutexes
<1>1. Holder' = Holder
  BY DEF Holder
<1> QED
  BY <1>1 DEF M!mutexes, Holder, Dead

\* Whoever changes the count and the owner of m alone changes its holder alone.
LEMMA HolderOf ==
    ASSUME NEW m \in Mutexes, NEW c, NEW o,
           count \in [Mutexes -> Nat], owner \in [Mutexes -> Threads \cup {NULL}],
           count' = [count EXCEPT ![m] = c], owner' = [owner EXCEPT ![m] = o]
    PROVE  Holder' = [Holder EXCEPT ![m] = IF c = 0 THEN NULL ELSE o]
<1>1. \A n \in Mutexes \ {m} : count'[n] = count[n] /\ owner'[n] = owner[n]
  OBVIOUS
<1>2. count'[m] = c /\ owner'[m] = o
  OBVIOUS
<1>3. Holder' = [n \in Mutexes |-> IF n = m THEN IF c = 0 THEN NULL ELSE o ELSE Holder[n]]
  BY <1>1, <1>2 DEF Holder
<1> QED
  BY <1>3 DEF Holder

\* Every step of the kernel is a step of RecursiveMutex or is not seen there.
LEMMA StepRefines ==
    ASSUME MayOverflow = {}, QueueInvariant, [Next]_vars
    PROVE  [M!Next]_(M!mutexes)
<1>b. /\ state \in [AllThreads -> States] /\ current \in AllThreads
      /\ block \in [Threads -> BlockRecord] /\ frozen \in BOOLEAN
      /\ signalled \in [Wakeups -> BOOLEAN]
      /\ waiters \in [Mutexes -> SUBSET Threads] /\ owner \in [Mutexes -> Threads \cup {NULL}]
      /\ count \in [Mutexes -> Nat] /\ waiter \in [Wakeups -> Threads \cup {NULL}]
      /\ pc \in [Threads -> PCs]
      /\ arg \in [Threads -> Mutexes \cup Wakeups \cup Threads \cup {NULL}]
  BY DEF QueueInvariant, MutexInvariant, TypeOK, ThreadsType, MutexesType, WakeupsType, CallsType
<1>c. /\ QueuedWaits /\ WaiterWaits /\ QueueIsBlockedThreads /\ OwnerKnown /\ DeadStays
  BY DEF QueueInvariant, MutexInvariant, QueueParts
<1>d. \A t \in Threads : Calls(t) => t \notin Dead /\ \A m \in Mutexes : t \notin waiters[m]
  BY <1>c DEF Calls, Dead, DeadStays, QueuedWaits, Awaits
<1>1. ASSUME NEW t \in Threads, yield(t) PROVE M!Next
  <2>1. PICK E \in SUBSET Threads : Switched(state, block, signalled, E)
    BY <1>b, <1>1, SwitchExact DEF yield
  <2>2. waiters' = [m \in Mutexes |-> waiters[m] \ E] /\ Dead' = Dead
    BY <1>b, <2>1, SwitchGivesUp DEF Dead
  <2>3. UNCHANGED <<owner, count>>
    BY <1>1 DEF yield, mutexVars
  <2> QED
    BY <2>2, <2>3, GivesUp
<1>2. ASSUME NEW t \in Threads, NEW m \in Mutexes, mutex_lock(t, m) PROVE M!Next
  <2>a. /\ count' = [count EXCEPT ![m] = count[m] + 1] /\ owner' = [owner EXCEPT ![m] = t]
        /\ count[m] = 0 \/ owner[m] = t
    BY <1>2, <1>b DEF mutex_lock
  <2>1. /\ Holder[m] \in {NULL, t}
        /\ Holder' = [Holder EXCEPT ![m] = t]
    <3>1. count[m] \in Nat /\ count[m] + 1 # 0
      BY <1>b
    <3> QED
      BY <1>b, <2>a, <3>1, HolderOf DEF Holder
  <2>2. UNCHANGED <<waiters, Dead>>
    BY <1>2 DEF mutex_lock, queueVars, threadVars, Dead
  <2>3. M!Acquire(t, m)
    BY <2>a, <2>1, <2>2 DEF M!Acquire, Holder, Dead
  <2> QED
    BY <2>3 DEF M!Next
<1>3. ASSUME NEW t \in Threads, NEW m \in Mutexes, NEW timed \in BOOLEAN,
             mutex_lock_block(t, m, timed)
      PROVE  M!Next
  <2>1. Holder[m] \notin {NULL, t} /\ Holder' = Holder /\ count' = count
    BY <1>3, <1>b, <1>c, ThreadsAssumption DEF mutex_lock_block, mutexVars, Holder, OwnerKnown
  <2>2. Dead' = Dead
    BY <1>3, <1>b, <1>d, ThreadsAssumption DEF mutex_lock_block, Block, Dead, AllThreads
  <2>3. /\ \A n \in Mutexes : t \notin waiters[n]
        /\ waiters' = [waiters EXCEPT ![m] = @ \cup {t}]
    BY <1>3, <1>d DEF mutex_lock_block, mutex_add_to_queue
  <2>4. M!Wait(t, m)
    BY <2>1, <2>2, <2>3 DEF M!Wait, Holder, Dead
  <2> QED
    BY <2>4 DEF M!Next
<1>4. ASSUME NEW t \in Threads, NEW m \in Mutexes, mutex_unlock(t, m) PROVE M!Next
  <2>1. CASE panic(t) /\ UNCHANGED <<count, held>>
    <3>1. Dead' = Dead \cup {t}
      BY <1>b, <2>1, ThreadsAssumption DEF panic, Dead, AllThreads
    <3> QED
      BY <1>4, <2>1, <3>1, Dies DEF mutex_unlock, queueVars
  <2>2. CASE /\ count[m] > 1 /\ owner[m] = t
             /\ count' = [count EXCEPT ![m] = @ - 1] /\ UNCHANGED state
    <3>1. Holder' = Holder /\ Holder[m] = t /\ Dead' = Dead /\ waiters' = waiters
      BY <1>4, <1>b, <2>2 DEF mutex_unlock, queueVars, Holder, Dead
    <3>2. M!Undo(t, m)
      BY <2>2, <3>1 DEF M!Undo, Holder, Dead
    <3> QED
      BY <3>2 DEF M!Next
  <2> QED
    BY <1>4, <2>1, <2>2 DEF mutex_unlock
<1>5. ASSUME NEW t \in Threads, NEW m \in Mutexes, mutex_unlock_last(t, m) PROVE M!Next
  <2>0. Holder[m] = t /\ count[m] = 1
    BY <1>5, <1>b DEF mutex_unlock_last, Holder
  <2>1. CASE waiters[m] = {}
    <3>1. /\ count' = [count EXCEPT ![m] = 0]
          /\ UNCHANGED <<state, owner, waiters>>
      BY <1>5, <2>1 DEF mutex_unlock_last, mutex_unlock_internal, queueVars
    <3>2. Holder' = [Holder EXCEPT ![m] = NULL] /\ Dead' = Dead
      BY <1>b, <3>1 DEF Holder, Dead
    <3>3. M!Release(t, m)
      BY <2>0, <2>1, <3>1, <3>2 DEF M!Release, Holder, Dead
    <3> QED
      BY <3>3 DEF M!Next
  <2>2. CASE waiters[m] # {}
    <3>1. PICK h \in waiters[m] :
            /\ count' = [count EXCEPT ![m] = 1]
            /\ owner' = [owner EXCEPT ![m] = h]
            /\ state' = [state EXCEPT ![h] = "READY"]
            /\ waiters' = [n \in Mutexes |-> waiters[n] \ {h}]
      BY <1>5, <2>2 DEF mutex_unlock_last, mutex_unlock_internal, mutex_remove_from_queue
    <3>2. h \in Threads /\ state[h] = "BLOCKED" /\ \A n \in Mutexes \ {m} : h \notin waiters[n]
      BY <1>b, <1>c DEF QueueIsBlockedThreads
    <3>3. waiters' = [waiters EXCEPT ![m] = @ \ {h}]
      <4>1. \A n \in Mutexes : n # m => waiters[n] \ {h} = waiters[n]
        BY <3>2
      <4> QED
        BY <1>b, <3>1, <4>1
    <3>4. Holder' = [Holder EXCEPT ![m] = h] /\ Dead' = Dead /\ count' = count
      BY <1>b, <2>0, <3>1, <3>2, ThreadsAssumption DEF Holder, Dead, AllThreads
    <3>5. M!Release(t, m)
      BY <2>0, <2>2, <3>3, <3>4 DEF M!Release, Holder, Dead
    <3> QED
      BY <3>5 DEF M!Next
  <2> QED
    BY <2>1, <2>2
<1>6. ASSUME NEW t \in Threads, NEW m \in Mutexes, mutex_unlock_abort(t, m) PROVE M!Next
  <2> DEFINE st == [state EXCEPT ![t] = "DEFUNCT_ACK"]
             bl == [block EXCEPT ![t] = Blocked("PANIC", @.by, @.timed)]
  <2>1. PICK E \in SUBSET Threads : Switched(st, bl, signalled, E)
    <3>1. /\ st \in [AllThreads -> States] /\ bl \in [Threads -> BlockRecord]
          /\ scheduler_switch(st, bl, signalled, NULL, NULL, frozen)
      BY <1>6, <1>b DEF mutex_unlock_abort, Blocked, BlockRecord, BlockTypes, States, AllThreads
    <3> HIDE DEF st, bl
    <3> QED
      BY <1>b, <3>1, SwitchExact
  <2>2. /\ st \in [AllThreads -> States]
        /\ {x \in Threads : st[x] = "DEFUNCT_ACK"} = Dead \cup {t}
    BY <1>b, ThreadsAssumption DEF Dead, States, AllThreads
  <2> HIDE DEF st, bl
  <2>3. waiters' = [n \in Mutexes |-> waiters[n] \ E] /\ Dead' = Dead \cup {t}
    BY <2>1, <2>2, SwitchGivesUp
  <2>a. /\ owner[m] = t /\ count[m] = 1 /\ count' = [count EXCEPT ![m] = 0]
        /\ owner' = [owner EXCEPT ![m] = t]
    BY <1>6, <1>b DEF mutex_unlock_abort
  <2>b. Holder[m] = t
    BY <2>a DEF Holder
  <2>4. Holder' = [Holder EXCEPT ![m] = NULL]
    BY <1>b, <2>a, HolderOf
  <2>5. M!Abandon(t, m, E)
    BY <2>a, <2>b, <2>3, <2>4 DEF M!Abandon, Holder, Dead
  <2> QED
    BY <2>5 DEF M!Next
<1>7. ASSUME NEW t \in Threads, mutex_lock_return(t) PROVE UNCHANGED M!mutexes
  BY <1>7, Stutters DEF mutex_lock_return, threadVars, mutexVars, queueVars, Dead
<1>8. ASSUME NEW t \in Threads, NEW w \in Wakeups, wakeup_wait(t, w)
      PROVE  [M!Next]_(M!mutexes)
  <2>1. CASE panic(t)
    <3>1. Dead' = Dead \cup {t}
      BY <1>b, <2>1, ThreadsAssumption DEF panic, Dead, AllThreads
    <3> QED
      BY <1>8, <3>1, Dies DEF wakeup_wait, mutexVars, queueVars
  <2>2. CASE UNCHANGED state
    BY <1>8, <2>2, Stutters DEF wakeup_wait, mutexVars, queueVars, Dead
  <2> QED
    BY <1>8, <2>1, <2>2 DEF wakeup_wait
<1>9. ASSUME NEW t \in Threads, NEW w \in Wakeups, NEW timed \in BOOLEAN,
             wakeup_wait_block(t, w, timed)
      PROVE  UNCHANGED M!mutexes
  <2>1. Dead' = Dead
    BY <1>9, <1>b, <1>d, ThreadsAssumption DEF wakeup_wait_block, Block, Dead, AllThreads
  <2> QED
    BY <1>9, <2>1, Stutters DEF wakeup_wait_block, mutexVars, queueVars
<1>10. ASSUME NEW t \in Threads, wakeup_wait_return(t) PROVE UNCHANGED M!mutexes
  BY <1>10, Stutters DEF wakeup_wait_return, threadVars, mutexVars, queueVars, Dead
<1>11. ASSUME NEW t \in Threads, NEW timed \in BOOLEAN, sleep(t, timed)
       PROVE  UNCHANGED M!mutexes
  <2>1. Dead' = Dead
    BY <1>11, <1>b, <1>d, ThreadsAssumption DEF sleep, Block, Dead, AllThreads
  <2> QED
    BY <1>11, <2>1, Stutters DEF sleep, mutexVars, queueVars
<1>12. ASSUME NEW t \in Threads, NEW x \in Threads, NEW p \in Prios,
              thread_set_priority(t, x, p)
       PROVE  UNCHANGED M!mutexes
  BY <1>12, Stutters DEF thread_set_priority, mutexVars, queueVars, Dead
<1>13. ASSUME tick PROVE M!Next
  <2>1. PICK E \in SUBSET Threads : Switched(state, block, signalled, E)
    BY <1>b, <1>13, SwitchExact DEF tick
  <2>2. waiters' = [m \in Mutexes |-> waiters[m] \ E] /\ Dead' = Dead
    BY <1>b, <2>1, SwitchGivesUp DEF Dead
  <2>3. UNCHANGED <<owner, count>>
    BY <1>13 DEF tick, mutexVars
  <2> QED
    BY <2>2, <2>3, GivesUp
<1>14. ASSUME NEW w \in Wakeups
       PROVE  {x \in Threads : SignalState(w)[x] = "DEFUNCT_ACK"} = Dead
  <2>1. CASE waiter[w] = NULL
    BY <2>1 DEF SignalState, Dead
  <2>2. CASE waiter[w] # NULL
    <3>1. waiter[w] \in Threads /\ waiter[w] \notin Dead
      BY <1>b, <1>c, <2>2 DEF WaiterWaits, DeadStays, Dead
    <3> QED
      BY <1>b, <2>2, <3>1, ThreadsAssumption DEF SignalState, Dead, AllThreads
  <2> QED
    BY <2>1, <2>2
<1>15. ASSUME NEW w \in Wakeups, wakeup_signal(w) PROVE UNCHANGED M!mutexes
  <2>1. Dead' = Dead
    BY <1>15, <1>14 DEF wakeup_signal, Dead
  <2> QED
    BY <1>15, <2>1, Stutters DEF wakeup_signal, mutexVars, queueVars
<1>16. ASSUME NEW w \in Wakeups, wakeup_signal_idle(w) PROVE M!Next
  <2> DEFINE st == SignalState(w)
             bl == SignalBlock(w)
             sg == [signalled EXCEPT ![w] = TRUE]
  <2>0. st \in [AllThreads -> States] /\ {x \in Threads : st[x] = "DEFUNCT_ACK"} = Dead
    BY <1>14, <1>b DEF SignalState, States, AllThreads
  <2>1. PICK E \in SUBSET Threads : Switched(st, bl, sg, E)
    <3>1. /\ bl \in [Threads -> BlockRecord] /\ waiter[w] \in Threads \cup {NULL}
          /\ scheduler_switch(st, bl, sg, waiter[w], NULL, frozen)
      BY <1>16, <1>b DEF wakeup_signal_idle, SignalBlock, NotBlocked, Blocked, BlockRecord,
         BlockTypes
    <3> HIDE DEF st, bl, sg
    <3> QED
      BY <1>b, <2>0, <3>1, SwitchExact
  <2> HIDE DEF st, bl, sg
  <2>2. waiters' = [m \in Mutexes |-> waiters[m] \ E] /\ Dead' = Dead
    BY <2>0, <2>1, SwitchGivesUp DEF Dead
  <2>3. UNCHANGED <<owner, count>>
    BY <1>16 DEF wakeup_signal_idle, mutexVars
  <2> QED
    BY <2>2, <2>3, GivesUp
<1>17. ASSUME UNCHANGED vars PROVE UNCHANGED M!mutexes
  BY <1>17, Stutters DEF vars, threadVars, mutexVars, queueVars, Dead
<1> QED
  BY <1>1, <1>2, <1>3, <1>4, <1>5, <1>6, <1>7, <1>8, <1>9, <1>10, <1>11, <1>12, <1>13, <1>15,
     <1>16, <1>17 DEF Next, Step, Interrupt

-----------------------------------------------------------------------------
\* A thread blocked on a mutex is in the queue of exactly that mutex and a queue holds
\* nobody else (mutex_add_to_queue, mutex_remove_from_queue, scheduler_switch).
THEOREM QueueCorrect ==
    ASSUME MayOverflow = {} PROVE Spec => []QueueIsBlockedThreads
<1>1. QueueInvariant /\ [Next]_vars => QueueInvariant'
  BY NextQueue
<1>2. QueueInvariant => QueueIsBlockedThreads
  BY DEF QueueInvariant, QueueParts
<1> QED
  BY <1>1, <1>2, InitQueue, PTL DEF Spec

\* Waiters are only left on a free mutex by the death of its owner inside mutex_unlock.
THEOREM FreeMutexCorrect ==
    ASSUME MayOverflow = {} PROVE Spec => []NoWaiterOnFreeMutex
<1>1. QueueInvariant /\ [Next]_vars => QueueInvariant'
  BY NextQueue
<1>2. QueueInvariant => NoWaiterOnFreeMutex
  BY DEF QueueInvariant, QueueParts
<1> QED
  BY <1>1, <1>2, InitQueue, PTL DEF Spec

\* No signal is lost: nobody stays blocked on a wakeup that is signalled, however the
\* unprotected steps of wakeup_wait and wakeup_signal interleave.
THEOREM WakeupCorrect ==
    ASSUME MayOverflow = {} PROVE Spec => []NoLostWakeup
<1>1. QueueInvariant /\ [Next]_vars => QueueInvariant'
  BY NextQueue
<1>2. QueueInvariant => NoLostWakeup
  BY DEF QueueInvariant, QueueParts, BlockedWaits, WaiterKept, NoLostWakeup
<1> QED
  BY <1>1, <1>2, InitQueue, PTL DEF Spec

\* The kernel's mutexes do what RecursiveMutex promises: whoever undoes the last lock
\* hands the mutex to one of the waiters, and nobody takes it in between (mutex_lock,
\* mutex_unlock_internal, the timeouts of scheduler_switch, panicf, the data abort).
THEOREM MutexRefinement ==
    ASSUME MayOverflow = {} PROVE Spec => ImplementsMutex
<1>1. Init => M!Init
  BY DEF Init, M!Init, AllThreads
<1>2. QueueInvariant /\ [Next]_vars => QueueInvariant' /\ [M!Next]_(M!mutexes)
  BY NextQueue, StepRefines
<1> QED
  BY <1>1, <1>2, InitQueue, PTL DEF Spec, ImplementsMutex, M!Spec
-----------------------------------------------------------------------------
(* The kernel's two linked lists: the queue of a mutex (queue_next) and    *)
(* the mutexes of a thread (owned_next).  Threads models the queue as a    *)
(* set with, for every thread, the set of those before it; that this is a  *)
(* list is proved here, whatever priorities change while threads wait.     *)

\* A thread that waits is in one queue.
LEMMA OneQueue ==
    ASSUME TypeOK, QueuedWaits, NEW m \in Mutexes, NEW n \in Mutexes,
           NEW x \in waiters[m], x \in waiters[n]
    PROVE  m = n
BY DEF QueuedWaits, Awaits

\* So whoever is before it is in that queue.
LEMMA AheadWaits ==
    ASSUME TypeOK, QueuedWaits, QueueIsLinear, NEW m \in Mutexes, NEW x \in waiters[m]
    PROVE  ahead[x] \subseteq waiters[m] \ {x}
<1>1. x \in Threads
  BY DEF TypeOK, MutexesType
<1>2. CASE ahead[x] = {}
  BY <1>2
<1>3. CASE ahead[x] # {}
  <2>1. PICK n \in Mutexes : x \in waiters[n] /\ ahead[x] \subseteq waiters[n] \ {x}
    BY <1>1, <1>3 DEF QueueIsLinear
  <2> QED
    BY <2>1, OneQueue
<1> QED
  BY <1>2, <1>3

\* mutex_add_to_queue puts a thread into the list: behind the first ones whose
\* priority is above its own, before all others.
LEMMA AddKeepsLinear ==
    ASSUME TypeOK, QueuedWaits, QueueIsLinear, NEW m \in Mutexes, NEW t \in Threads,
           \A n \in Mutexes : t \notin waiters[n], mutex_add_to_queue(m, t)
    PROVE  QueueIsLinear'
<1> DEFINE S == StaysAhead(m, t)
           W == waiters[m]
<1>1. /\ S \subseteq W /\ W \subseteq Threads /\ t \notin W
      /\ \A x \in W : x \in S <=> \A y \in ahead[x] \cup {x} : priority[y] > priority[t]
  BY DEF StaysAhead, TypeOK, MutexesType
<1>2. /\ waiters' = [waiters EXCEPT ![m] = @ \cup {t}]
      /\ \A x \in Threads : ahead'[x] = IF x = t THEN S
                                        ELSE IF x \in W \ S THEN ahead[x] \cup {t} ELSE ahead[x]
  BY DEF mutex_add_to_queue
<1> HIDE DEF S
<1>3. /\ waiters'[m] = W \cup {t}
      /\ \A n \in Mutexes : n # m => waiters'[n] = waiters[n]
  BY <1>2 DEF TypeOK, MutexesType
<1>4. \A x \in W : ahead[x] \subseteq W \ {x}
  BY AheadWaits
<1>5. \A x, y \in W : /\ x # y => (x \in ahead[y] <=> y \notin ahead[x])
                      /\ x \in ahead[y] => ahead[x] \subseteq ahead[y] \ {y}
  BY DEF QueueIsLinear
<1>6. \A x \in W : t \notin ahead[x]
  BY <1>1, <1>4
\* Those that stay ahead are the first ones of the queue.
<1>7. ASSUME NEW y \in S, NEW x \in ahead[y] PROVE x \in S
  BY <1>1, <1>4, <1>5, <1>7
<1>8. ASSUME NEW y \in W \ S PROVE S \subseteq ahead[y]
  BY <1>1, <1>5, <1>7, <1>8
<1>9. ASSUME NEW x \in W \cup {t}, NEW y \in W \cup {t}
      PROVE  /\ x # y => (x \in ahead'[y] <=> y \notin ahead'[x])
             /\ x \in ahead'[y] => ahead'[x] \subseteq ahead'[y] \ {y}
  <2>1. CASE x \in W /\ y \in W
    <3>1. x # t /\ y # t /\ x \in Threads /\ y \in Threads
      BY <1>1, <2>1
    <3>2. x \in ahead'[y] <=> x \in ahead[y]
      BY <1>2, <3>1
    <3>3. y \in ahead'[x] <=> y \in ahead[x]
      BY <1>2, <3>1
    <3>4. ASSUME x \in ahead[y] PROVE ahead'[x] \subseteq ahead'[y] \ {y}
      <4>1. ahead[x] \subseteq ahead[y] \ {y}
        BY <1>5, <2>1, <3>4
      <4>2. y \in S => x \in S
        BY <1>7, <3>4
      <4> QED
        BY <1>2, <2>1, <3>1, <4>1, <4>2
    <3> QED
      BY <1>5, <2>1, <3>2, <3>3, <3>4
  <2>2. CASE x = t /\ y \in W
    <3>1. ahead'[t] = S /\ y # t /\ y \in Threads
      BY <1>1, <1>2, <2>2
    <3>2. t \in ahead'[y] <=> y \notin S
      BY <1>2, <1>6, <2>2, <3>1
    <3>3. t \in ahead'[y] => S \subseteq ahead'[y] \ {y}
      BY <1>2, <1>8, <2>2, <3>1, <3>2
    <3> QED
      BY <2>2, <3>1, <3>2, <3>3
  <2>3. CASE x \in W /\ y = t
    <3>1. ahead'[t] = S /\ x # t /\ x \in Threads
      BY <1>1, <1>2, <2>3
    <3>2. t \in ahead'[x] <=> x \notin S
      BY <1>2, <1>6, <2>3, <3>1
    <3>3. x \in S => ahead'[x] \subseteq S \ {t}
      BY <1>1, <1>2, <1>7, <3>1
    <3> QED
      BY <2>3, <3>1, <3>2, <3>3
  <2>4. CASE x = t /\ y = t
    BY <1>1, <1>2, <2>4
  <2> QED
    BY <2>1, <2>2, <2>3, <2>4
<1>10. ASSUME NEW n \in Mutexes, n # m, NEW x \in waiters[n]
       PROVE  x \in Threads /\ ahead'[x] = ahead[x]
  <2>1. x \in Threads /\ x # t
    BY DEF TypeOK, MutexesType
  <2>2. x \notin W
    BY <1>10, OneQueue
  <2> QED
    BY <1>2, <2>1, <2>2
<1>11. ASSUME NEW n \in Mutexes, NEW x \in waiters'[n], NEW y \in waiters'[n]
       PROVE  /\ x # y => (x \in ahead'[y] <=> y \notin ahead'[x])
              /\ x \in ahead'[y] => ahead'[x] \subseteq ahead'[y] \ {y}
  <2>1. CASE n = m
    BY <1>3, <1>9, <1>11, <2>1
  <2>2. CASE n # m
    <3>1. x \in waiters[n] /\ y \in waiters[n]
      BY <1>3, <1>11, <2>2
    <3> QED
      BY <1>10, <2>2, <3>1 DEF QueueIsLinear
  <2> QED
    BY <2>1, <2>2
<1>12. ASSUME NEW x \in Threads, ahead'[x] # {}
       PROVE  \E n \in Mutexes : x \in waiters'[n] /\ ahead'[x] \subseteq waiters'[n] \ {x}
  <2>1. CASE x \in W \cup {t}
    <3>1. CASE x = t
      <4>1. ahead'[t] = S
        BY <1>2
      <4>2. t \in waiters'[m] /\ ahead'[t] \subseteq waiters'[m] \ {t}
        BY <1>1, <1>3, <4>1
      <4> QED
        BY <3>1, <4>2
    <3>2. CASE x \in W /\ x # t
      <4>1. ahead'[x] \subseteq ahead[x] \cup {t}
        BY <1>2, <3>2
      <4>2. ahead'[x] \subseteq waiters'[m] \ {x}
        BY <1>3, <1>4, <3>2, <4>1
      <4> QED
        BY <1>3, <3>2, <4>2
    <3> QED
      BY <2>1, <3>1, <3>2
  <2>2. CASE x \notin W \cup {t}
    <3>1. ahead'[x] = ahead[x]
      BY <1>2, <2>2
    <3>2. PICK n \in Mutexes : x \in waiters[n] /\ ahead[x] \subseteq waiters[n] \ {x}
      BY <1>12, <3>1 DEF QueueIsLinear
    <3> QED
      BY <1>3, <2>2, <3>1, <3>2
  <2> QED
    BY <2>1, <2>2
<1> QED
  BY <1>11, <1>12 DEF QueueIsLinear

\* mutex_remove_from_queue leaves the others in their order.
LEMMA RemoveKeepsLinear ==
    ASSUME TypeOK, QueueIsLinear, NEW E, mutex_remove_from_queue(E)
    PROVE  QueueIsLinear'
<1>1. /\ \A n \in Mutexes : waiters'[n] = waiters[n] \ E
      /\ \A x \in Threads : ahead'[x] = IF x \in E THEN {} ELSE ahead[x] \ E
  BY DEF mutex_remove_from_queue
<1>2. ASSUME NEW n \in Mutexes, NEW x \in waiters'[n], NEW y \in waiters'[n]
      PROVE  /\ x # y => (x \in ahead'[y] <=> y \notin ahead'[x])
             /\ x \in ahead'[y] => ahead'[x] \subseteq ahead'[y] \ {y}
  <2>1. /\ x \in waiters[n] /\ x \notin E /\ x \in Threads
        /\ y \in waiters[n] /\ y \notin E /\ y \in Threads
    BY <1>1, <1>2 DEF TypeOK, MutexesType
  <2>2. ahead'[x] = ahead[x] \ E /\ ahead'[y] = ahead[y] \ E
    BY <1>1, <2>1
  <2>3. /\ x # y => (x \in ahead[y] <=> y \notin ahead[x])
        /\ x \in ahead[y] => ahead[x] \subseteq ahead[y] \ {y}
    BY <2>1 DEF QueueIsLinear
  <2> QED
    BY <2>1, <2>2, <2>3
<1>3. ASSUME NEW x \in Threads, ahead'[x] # {}
      PROVE  \E n \in Mutexes : x \in waiters'[n] /\ ahead'[x] \subseteq waiters'[n] \ {x}
  <2>1. x \notin E /\ ahead'[x] = ahead[x] \ E
    BY <1>1, <1>3
  <2>2. PICK n \in Mutexes : x \in waiters[n] /\ ahead[x] \subseteq waiters[n] \ {x}
    BY <1>3, <2>1 DEF QueueIsLinear
  <2> QED
    BY <1>1, <2>1, <2>2
<1> QED
  BY <1>2, <1>3 DEF QueueIsLinear

\* Every scheduler_switch dequeues those whose timeouts are over, and no one else.
LEMMA SwitchDequeues ==
    ASSUME NEW st, NEW bl, NEW sg, NEW tgt, NEW blk, NEW fz,
           scheduler_switch(st, bl, sg, tgt, blk, fz)
    PROVE  \E E : mutex_remove_from_queue(E)
BY DEF scheduler_switch, switch_to

\* The queues change in these two ways only.
LEMMA NextLinear ==
    ASSUME TypeOK, QueuedWaits, QueueIsLinear, [Next]_vars
    PROVE  QueueIsLinear'
<1>1. ASSUME UNCHANGED queueVars PROVE QueueIsLinear'
  BY <1>1 DEF QueueIsLinear, queueVars
<1>2. ASSUME NEW E, mutex_remove_from_queue(E) PROVE QueueIsLinear'
  BY <1>2, RemoveKeepsLinear
<1>3. ASSUME NEW t \in Threads, yield(t) PROVE QueueIsLinear'
  BY <1>2, <1>3, SwitchDequeues DEF yield
<1>4. ASSUME NEW t \in Threads, NEW m \in Mutexes, NEW timed \in BOOLEAN,
             mutex_lock_block(t, m, timed)
      PROVE  QueueIsLinear'
  <2>1. pc[t] = "app" /\ mutex_add_to_queue(m, t)
    BY <1>4 DEF mutex_lock_block, Calls
  <2>2. \A n \in Mutexes : t \notin waiters[n]
    BY <2>1 DEF QueuedWaits, Awaits
  <2> QED
    BY <2>1, <2>2, AddKeepsLinear
<1>5. ASSUME NEW t \in Threads, NEW m \in Mutexes, mutex_unlock_last(t, m)
      PROVE  QueueIsLinear'
  BY <1>1, <1>2, <1>5 DEF mutex_unlock_last, mutex_unlock_internal
<1>6. ASSUME NEW t \in Threads, NEW m \in Mutexes, mutex_unlock_abort(t, m)
      PROVE  QueueIsLinear'
  BY <1>2, <1>6, SwitchDequeues DEF mutex_unlock_abort
<1>7. ASSUME tick PROVE QueueIsLinear'
  BY <1>2, <1>7, SwitchDequeues DEF tick
<1>8. ASSUME NEW w \in Wakeups, wakeup_signal_idle(w) PROVE QueueIsLinear'
  BY <1>2, <1>8, SwitchDequeues DEF wakeup_signal_idle
<1>9. ASSUME NEW t \in Threads, NEW m \in Mutexes, mutex_lock(t, m) \/ mutex_unlock(t, m)
      PROVE  QueueIsLinear'
  BY <1>1, <1>9 DEF mutex_lock, mutex_unlock
<1>10. ASSUME NEW t \in Threads, mutex_lock_return(t) \/ wakeup_wait_return(t)
       PROVE  QueueIsLinear'
  BY <1>1, <1>10 DEF mutex_lock_return, wakeup_wait_return
<1>11. ASSUME NEW t \in Threads, NEW w \in Wakeups,
              \/ wakeup_wait(t, w) \/ wakeup_signal(w)
              \/ \E timed \in BOOLEAN : wakeup_wait_block(t, w, timed)
       PROVE  QueueIsLinear'
  BY <1>1, <1>11 DEF wakeup_wait, wakeup_wait_block, wakeup_signal
<1>12. ASSUME NEW t \in Threads,
              \/ \E timed \in BOOLEAN : sleep(t, timed)
              \/ \E x \in Threads, p \in Prios : thread_set_priority(t, x, p)
       PROVE  QueueIsLinear'
  BY <1>1, <1>12 DEF sleep, thread_set_priority
<1>13. ASSUME NEW w \in Wakeups, wakeup_signal(w) PROVE QueueIsLinear'
  BY <1>1, <1>13 DEF wakeup_signal
<1>14. ASSUME UNCHANGED vars PROVE QueueIsLinear'
  BY <1>1, <1>14 DEF vars
<1> QED
  BY <1>3, <1>4, <1>5, <1>6, <1>7, <1>8, <1>9, <1>10, <1>11, <1>12, <1>13, <1>14
     DEF Next, Step, Interrupt

\* The queue of a mutex is a list: of two waiters one is behind the other, whatever
\* timeouts end in the middle of it and whatever priorities change meanwhile.
THEOREM QueueLinear == Spec => []QueueIsLinear
<1>1. Init => QueueIsLinear
  BY DEF Init, QueueIsLinear
<1>2. MutexInvariant /\ QueueIsLinear /\ [Next]_vars => QueueIsLinear'
  BY NextLinear DEF MutexInvariant
<1> QED
  BY <1>1, <1>2, InitMutex, NextMutex, PTL DEF Spec
-----------------------------------------------------------------------------
In(l, m) == \E i \in 1 .. Len(l) : l[i] = m
Once(l) == \A i, j \in 1 .. Len(l) : l[i] = l[j] => i = j

\* Linking a mutex in front of owned_mutexes.
LEMMA PrependList ==
    ASSUME NEW l \in Seq(Mutexes), NEW m \in Mutexes, ~In(l, m), Once(l)
    PROVE  /\ Once(<<m>> \o l)
           /\ \A n : In(<<m>> \o l, n) <=> n = m \/ In(l, n)
<1> DEFINE k == <<m>> \o l
<1>1. /\ Len(l) \in Nat /\ Len(k) = Len(l) + 1
      /\ k[1] = m
      /\ \A i \in 1 .. Len(l) : k[i + 1] = l[i]
  OBVIOUS
<1>2. \A i \in 1 .. Len(k) : i # 1 => i - 1 \in 1 .. Len(l) /\ k[i] = l[i - 1]
  BY <1>1
<1> HIDE DEF k
<1>3. Once(k)
  <2>1. SUFFICES ASSUME NEW i \in 1 .. Len(k), NEW j \in 1 .. Len(k), k[i] = k[j] PROVE i = j
    BY DEF Once
  <2>2. CASE i = 1 \/ j = 1
    BY <1>1, <1>2, <2>1, <2>2 DEF In
  <2>3. CASE i # 1 /\ j # 1
    <3>1. /\ i - 1 \in 1 .. Len(l) /\ j - 1 \in 1 .. Len(l)
          /\ l[i - 1] = l[j - 1]
      BY <1>2, <2>1, <2>3
    <3>2. i - 1 = j - 1
      BY <3>1 DEF Once
    <3> QED
      BY <1>1, <3>2
  <2> QED
    BY <2>2, <2>3
<1>4. ASSUME NEW n PROVE In(k, n) <=> n = m \/ In(l, n)
  <2>1. ASSUME In(k, n) PROVE n = m \/ In(l, n)
    BY <1>1, <1>2, <2>1 DEF In
  <2>2. ASSUME n = m PROVE In(k, n)
    <3>1. 1 \in 1 .. Len(k)
      BY <1>1
    <3> QED
      BY <1>1, <2>2, <3>1 DEF In
  <2>3. ASSUME In(l, n) PROVE In(k, n)
    <3>1. PICK i \in 1 .. Len(l) : l[i] = n
      BY <2>3 DEF In
    <3>2. i + 1 \in 1 .. Len(k) /\ k[i + 1] = n
      BY <1>1, <3>1
    <3> QED
      BY <3>2 DEF In
  <2> QED
    BY <2>1, <2>2, <2>3
<1> QED
  BY <1>3, <1>4 DEF k

\* mutex_unlock_internal unlinks the one mutex.
LEMMA UnlinkList ==
    ASSUME NEW l \in Seq(Mutexes), NEW m \in Mutexes, In(l, m), Once(l)
    PROVE  /\ Once(Unlink(l, m))
           /\ \A n : In(Unlink(l, m), n) <=> n # m /\ In(l, n)
<1> DEFINE k == CHOOSE i \in 1 .. Len(l) : l[i] = m
           u == Unlink(l, m)
<1>1. Len(l) \in Nat /\ k \in 1 .. Len(l) /\ l[k] = m
  BY DEF In
<1>2. u = [i \in 1 .. Len(l) - 1 |-> IF i < k THEN l[i] ELSE l[i + 1]]
  BY DEF In, Unlink
<1> HIDE DEF k
<1>3. Len(l) >= 1 /\ Len(l) - 1 \in Nat
  BY <1>1
<1>4. Len(u) = Len(l) - 1
  BY <1>2, <1>3
<1>5. \A i \in 1 .. Len(l) - 1 : u[i] = IF i < k THEN l[i] ELSE l[i + 1]
  BY <1>2
<1> HIDE DEF u
<1>6. Once(u)
  <2>1. SUFFICES ASSUME NEW i \in 1 .. Len(l) - 1, NEW j \in 1 .. Len(l) - 1, u[i] = u[j]
                 PROVE  i = j
    BY <1>4 DEF Once
  <2> DEFINE a == IF i < k THEN i ELSE i + 1
             b == IF j < k THEN j ELSE j + 1
  <2>2. a \in 1 .. Len(l) /\ b \in 1 .. Len(l) /\ l[a] = l[b]
    BY <1>1, <1>5, <2>1
  <2>3. a = b
    BY <2>2 DEF Once
  <2> QED
    BY <1>1, <2>3
<1>7. ASSUME NEW n PROVE In(u, n) <=> n # m /\ In(l, n)
  <2>1. ASSUME NEW i \in 1 .. Len(u), u[i] = n PROVE n # m /\ In(l, n)
    <3> DEFINE a == IF i < k THEN i ELSE i + 1
    <3>1. a \in 1 .. Len(l) /\ l[a] = n /\ a # k
      BY <1>1, <1>4, <1>5, <2>1
    <3>2. n # m
      BY <1>1, <3>1 DEF Once
    <3> QED
      BY <3>1, <3>2 DEF In
  <2>2. ASSUME n # m, NEW i \in 1 .. Len(l), l[i] = n PROVE In(u, n)
    <3> DEFINE a == IF i < k THEN i ELSE i - 1
    <3>1. a \in 1 .. Len(u) /\ u[a] = n
      BY <1>1, <1>4, <1>5, <2>2
    <3> QED
      BY <3>1 DEF In
  <2> QED
    BY <2>1, <2>2 DEF In
<1> QED
  BY <1>6, <1>7 DEF u

\* owned_mutexes lists what its thread owns, and each once.
OwnedOnce == \A t \in Threads : Once(owned[t])
OwnedListed ==
    \A t \in Threads, m \in Mutexes : In(owned[t], m) <=> count[m] > 0 /\ owner[m] = t

\* A mutex is linked and unlinked where its owner changes.
LEMMA NextLists ==
    ASSUME TypeOK, QueuedWaits, OwnedOnce, OwnedListed, [Next]_vars
    PROVE  OwnedOnce' /\ OwnedListed'
<1>a. /\ owned \in [Threads -> Seq(Mutexes)] /\ owner \in [Mutexes -> Threads \cup {NULL}]
      /\ count \in [Mutexes -> Nat] /\ waiters \in [Mutexes -> SUBSET Threads]
  BY DEF TypeOK, MutexesType
<1>1. ASSUME UNCHANGED mutexVars PROVE OwnedOnce' /\ OwnedListed'
  BY <1>1 DEF OwnedOnce, OwnedListed, mutexVars
<1>b. ASSUME UNCHANGED <<owner, owned>>, \A n \in Mutexes : count'[n] > 0 <=> count[n] > 0
      PROVE  OwnedOnce' /\ OwnedListed'
  BY <1>b DEF OwnedOnce, OwnedListed
<1>2. ASSUME NEW t \in Threads, NEW m \in Mutexes, mutex_lock(t, m)
      PROVE  OwnedOnce' /\ OwnedListed'
  <2>1. CASE count[m] = 0
    <3>1. /\ count' = [count EXCEPT ![m] = 1]
          /\ owner' = [owner EXCEPT ![m] = t]
          /\ owned' = [owned EXCEPT ![t] = <<m>> \o owned[t]]
      BY <1>2, <2>1 DEF mutex_lock
    <3>2. \A x \in Threads : ~In(owned[x], m)
      BY <2>1 DEF OwnedListed
    <3>3. /\ Once(<<m>> \o owned[t])
          /\ \A n : In(<<m>> \o owned[t], n) <=> n = m \/ In(owned[t], n)
      BY <1>a, <3>2, PrependList DEF OwnedOnce
    <3>4. /\ owned'[t] = <<m>> \o owned[t]
          /\ \A x \in Threads : x # t => owned'[x] = owned[x]
      BY <1>a, <3>1
    <3>5. OwnedOnce'
      BY <3>3, <3>4 DEF OwnedOnce
    <3>6. OwnedListed'
      <4>1. ASSUME NEW x \in Threads, NEW n \in Mutexes
            PROVE  In(owned'[x], n) <=> count'[n] > 0 /\ owner'[n] = x
        <5>1. CASE n = m
          <6>1. count'[n] = 1 /\ owner'[n] = t
            BY <1>a, <3>1, <5>1
          <6>2. In(owned'[x], n) <=> x = t
            BY <3>2, <3>3, <3>4, <5>1
          <6> QED
            BY <6>1, <6>2
        <5>2. CASE n # m
          <6>1. count'[n] = count[n] /\ owner'[n] = owner[n]
            BY <1>a, <3>1, <5>2
          <6>2. In(owned'[x], n) <=> In(owned[x], n)
            BY <3>3, <3>4, <5>2
          <6> QED
            BY <6>1, <6>2 DEF OwnedListed
        <5> QED
          BY <5>1, <5>2
      <4> QED
        BY <4>1 DEF OwnedListed
    <3> QED
      BY <3>5, <3>6
  <2>2. CASE count[m] # 0
    <3>1. /\ UNCHANGED <<owner, owned>>
          /\ count' = [count EXCEPT ![m] = count[m] + 1] /\ count[m] > 0
      BY <1>2, <1>a, <2>2 DEF mutex_lock
    <3>2. \A n \in Mutexes : count'[n] > 0 <=> count[n] > 0
      BY <1>a, <3>1
    <3> QED
      BY <1>b, <3>1, <3>2
  <2> QED
    BY <2>1, <2>2
<1>3. ASSUME NEW t \in Threads, NEW m \in Mutexes, mutex_unlock(t, m)
      PROVE  OwnedOnce' /\ OwnedListed'
  <2>1. /\ UNCHANGED <<owner, owned>>
        /\ count' = count \/ (count[m] > 1 /\ count' = [count EXCEPT ![m] = count[m] - 1])
    BY <1>3 DEF mutex_unlock
  <2>2. \A n \in Mutexes : count'[n] > 0 <=> count[n] > 0
    <3>1. ASSUME NEW n \in Mutexes PROVE count'[n] > 0 <=> count[n] > 0
      <4>1. count'[n] = count[n] \/ (n = m /\ count[m] > 1 /\ count'[n] = count[m] - 1)
        BY <1>a, <2>1
      <4>2. count[n] \in Nat
        BY <1>a
      <4> QED
        BY <4>1, <4>2
    <3> QED
      BY <3>1
  <2> QED
    BY <1>b, <2>1, <2>2
<1>4. ASSUME NEW t \in Threads, NEW m \in Mutexes, count[m] = 1, owner[m] = t
      PROVE  /\ Once(Unlink(owned[t], m))
             /\ \A n : In(Unlink(owned[t], m), n) <=> n # m /\ In(owned[t], n)
             /\ \A x \in Threads : x # t => ~In(owned[x], m)
  <2>1. In(owned[t], m)
    BY <1>4 DEF OwnedListed
  <2>2. \A x \in Threads : x # t => ~In(owned[x], m)
    BY <1>4 DEF OwnedListed
  <2> QED
    BY <1>a, <2>1, <2>2, UnlinkList DEF OwnedOnce
<1>5. ASSUME NEW t \in Threads, NEW m \in Mutexes, count[m] = 1, owner[m] = t,
             owned' = [owned EXCEPT ![t] = Unlink(@, m)],
             count' = [count EXCEPT ![m] = 0], owner' = owner
      PROVE  OwnedOnce' /\ OwnedListed'
  <2>1. /\ owned'[t] = Unlink(owned[t], m)
        /\ \A x \in Threads : x # t => owned'[x] = owned[x]
    BY <1>5, <1>a
  <2>2. OwnedOnce'
    BY <1>4, <1>5, <2>1 DEF OwnedOnce
  <2>3. OwnedListed'
    BY <1>a, <1>4, <1>5, <2>1 DEF OwnedListed
  <2> QED
    BY <2>2, <2>3
<1>6. ASSUME NEW t \in Threads, NEW m \in Mutexes, mutex_unlock_last(t, m)
      PROVE  OwnedOnce' /\ OwnedListed'
  <2>1. count[m] = 1 /\ owner[m] = t /\ pc[t] = "app"
    BY <1>6 DEF mutex_unlock_last, Calls
  <2>2. CASE waiters[m] = {}
    BY <1>5, <1>6, <2>1, <2>2 DEF mutex_unlock_last, mutex_unlock_internal
  <2>3. CASE waiters[m] # {}
    <3>1. PICK h \in waiters[m] :
            /\ owned' = [x \in Threads |-> CASE x = h -> <<m>> \o owned[h]
                                             [] x = t /\ x # h -> Unlink(owned[t], m)
                                             [] OTHER -> owned[x]]
            /\ count' = [count EXCEPT ![m] = 1]
            /\ owner' = [owner EXCEPT ![m] = h]
      BY <1>6, <2>3 DEF mutex_unlock_last, mutex_unlock_internal
    <3>2. h \in Threads /\ h # t
      BY <1>a, <2>1 DEF QueuedWaits, Awaits
    <3>3. /\ owned'[h] = <<m>> \o owned[h]
          /\ owned'[t] = Unlink(owned[t], m)
          /\ \A x \in Threads : x # t /\ x # h => owned'[x] = owned[x]
      BY <3>1, <3>2
    <3>4. /\ Once(<<m>> \o owned[h])
          /\ \A n : In(<<m>> \o owned[h], n) <=> n = m \/ In(owned[h], n)
      BY <1>a, <1>4, <2>1, <3>2, PrependList DEF OwnedOnce
    <3>5. OwnedOnce'
      <4>1. Once(owned'[h]) /\ Once(owned'[t])
        BY <1>4, <2>1, <3>3, <3>4
      <4>2. \A x \in Threads : x # t /\ x # h => Once(owned'[x])
        BY <3>3 DEF OwnedOnce
      <4> QED
        BY <4>1, <4>2 DEF OwnedOnce
    <3>6. ASSUME NEW x \in Threads, NEW n \in Mutexes
          PROVE  In(owned'[x], n) <=> count'[n] > 0 /\ owner'[n] = x
      <4>1. In(owned[x], n) <=> count[n] > 0 /\ owner[n] = x
        BY DEF OwnedListed
      <4>2. CASE x = h
        BY <1>a, <2>1, <3>1, <3>2, <3>3, <3>4, <4>1, <4>2
      <4>3. CASE x = t
        BY <1>a, <1>4, <2>1, <3>1, <3>2, <3>3, <4>1, <4>3
      <4>4. CASE x # h /\ x # t
        BY <1>a, <1>4, <2>1, <3>1, <3>2, <3>3, <4>1, <4>4
      <4> QED
        BY <4>2, <4>3, <4>4
    <3> QED
      BY <3>5, <3>6 DEF OwnedListed
  <2> QED
    BY <2>2, <2>3
<1>7. ASSUME NEW t \in Threads, NEW m \in Mutexes, mutex_unlock_abort(t, m)
      PROVE  OwnedOnce' /\ OwnedListed'
  BY <1>5, <1>7 DEF mutex_unlock_abort
<1>8. ASSUME NEW t \in Threads,
             \/ yield(t) \/ mutex_lock_return(t) \/ wakeup_wait_return(t)
             \/ \E m \in Mutexes, timed \in BOOLEAN : mutex_lock_block(t, m, timed)
             \/ \E w \in Wakeups : wakeup_wait(t, w)
             \/ \E w \in Wakeups, timed \in BOOLEAN : wakeup_wait_block(t, w, timed)
             \/ \E timed \in BOOLEAN : sleep(t, timed)
             \/ \E x \in Threads, p \in Prios : thread_set_priority(t, x, p)
      PROVE  OwnedOnce' /\ OwnedListed'
  BY <1>1, <1>8 DEF yield, mutex_lock_return, wakeup_wait_return, mutex_lock_block,
     wakeup_wait, wakeup_wait_block, sleep, thread_set_priority
<1>9. ASSUME Interrupt PROVE OwnedOnce' /\ OwnedListed'
  BY <1>1, <1>9 DEF Interrupt, tick, wakeup_signal, wakeup_signal_idle
<1>10. ASSUME UNCHANGED vars PROVE OwnedOnce' /\ OwnedListed'
  BY <1>1, <1>10 DEF vars
<1> QED
  BY <1>2, <1>3, <1>6, <1>7, <1>8, <1>9, <1>10 DEF Next, Step

\* owned_mutexes of a thread lists the mutexes that it owns, once each.
THEOREM OwnedLists == Spec => []OwnedIsOwner
<1>1. Init => OwnedOnce /\ OwnedListed
  BY DEF Init, OwnedOnce, OwnedListed, Once, In
<1>2. MutexInvariant /\ OwnedOnce /\ OwnedListed /\ [Next]_vars => OwnedOnce' /\ OwnedListed'
  BY NextLists DEF MutexInvariant
<1>3. OwnedOnce /\ OwnedListed => OwnedIsOwner
  <2> SUFFICES ASSUME OwnedOnce, OwnedListed, NEW t \in Threads, NEW m \in Mutexes
               PROVE  Cardinality({i \in 1 .. Len(owned[t]) : owned[t][i] = m})
                        = IF count[m] > 0 /\ owner[m] = t THEN 1 ELSE 0
    BY DEF OwnedIsOwner
  <2> DEFINE I == {i \in 1 .. Len(owned[t]) : owned[t][i] = m}
  <2>1. CASE count[m] > 0 /\ owner[m] = t
    <3>1. PICK i \in 1 .. Len(owned[t]) : owned[t][i] = m
      BY <2>1 DEF OwnedListed, In
    <3>2. I = {i}
      BY <3>1 DEF OwnedOnce, Once
    <3> QED
      BY <2>1, <3>2, FS_Singleton
  <2>2. CASE ~(count[m] > 0 /\ owner[m] = t)
    <3>1. I = {}
      BY <2>2 DEF OwnedListed, In
    <3> QED
      BY <2>2, <3>1, FS_EmptySet
  <2> QED
    BY <2>1, <2>2
<1> QED
  BY <1>1, <1>2, <1>3, InitMutex, NextMutex, PTL DEF Spec
=============================================================================
