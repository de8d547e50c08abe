------------------------------- MODULE Threads -------------------------------
(***************************************************************************)
(* The emCORE kernel's threads: scheduler, recursive mutexes with direct   *)
(* hand-off, wakeups (one-waiter binary events), sleep, suspend/resume and *)
(* the scheduler freeze (emcore/thread.c, arm/contextswitch.S, panic.c).   *)
(*                                                                         *)
(* The CPU has one core.  A critical section masks interrupts, so what is  *)
(* between enter_critical_section and leave_critical_section is one step.  *)
(* Between two steps of the current thread any interrupt may run: a timer  *)
(* tick (which may switch threads), a driver's wakeup_signal, or the USB   *)
(* monitor's commands.  pc[t] records where inside an API call thread t    *)
(* is; every thread is a most general client that may call anything.       *)
(*                                                                         *)
(* Time is abstracted: a blocked thread either has a timeout ("timed") or  *)
(* not (TIMEOUT_BLOCK), and any set of timed threads may be overdue when   *)
(* the scheduler looks.  The cputime/priority score is abstracted to a     *)
(* free choice among the runnable threads.                                 *)
(***************************************************************************)
EXTENDS Integers, Sequences, FiniteSets

CONSTANTS Threads,      \* the threads thread_create has made (idle_thread is not one)
          UserThreads,  \* those of type USER_THREAD
          MayOverflow,  \* those whose stack canary may be found overwritten
          Mutexes,
          Wakeups,
          dbgwakeup,    \* the monitor worker's wakeup, or NULL without monitor
          Prios,        \* the thread priorities in use; 0 is never scheduled
          MaxCount,     \* bound: recursive locks of one mutex
          idle,         \* idle_thread
          NULL

ASSUME ThreadsAssumption ==
    /\ idle \notin Threads
    /\ NULL \notin Threads \cup {idle} \cup Mutexes \cup Wakeups
    /\ UserThreads \subseteq Threads
    /\ MayOverflow \subseteq Threads
    /\ MayOverflow # {} => dbgwakeup \in Wakeups
    /\ Prios \subseteq Nat /\ Prios # {}
    /\ MaxCount \in Nat \ {0}

VARIABLES state,      \* scheduler_thread.state of every thread and of idle_thread
          block,      \* block_type, blocked_by and whether timeout # -1
          priority,
          owned,      \* owned_mutexes, the list linked by owned_next
          current,    \* current_thread
          frozen,     \* scheduler_frozen
          owner, count,  \* of a mutex; owner is left stale when count is 0
          waiters,    \* the set of threads in a mutex's queue ...
          ahead,      \* ... and, for a queued thread, those before it (queue_next)
          waiter, signalled, \* of a wakeup
          pc, arg,    \* where a thread is inside an API call, and the call's obj
          held,       \* history: the locks a thread was told it has (THREAD_OK)
          hung        \* the CPU sits in hang (panic or abort in IRQ mode)

threadVars == <<state, block, priority>>
mutexVars  == <<owned, owner, count>>
queueVars  == <<waiters, ahead>>
wakeupVars == <<waiter, signalled>>
callVars   == <<pc, arg, held>>
vars == <<threadVars, current, frozen, mutexVars, queueVars, wakeupVars,
          callVars, hung>>

AllThreads == Threads \cup {idle}
States == {"SUSPENDED", "READY", "RUNNING", "BLOCKED", "DEFUNCT", "DEFUNCT_ACK"}
BlockTypes == {"NONE", "SLEEP", "MUTEX", "WAKEUP", "STKOV", "PANIC"}
BlockRecord == [type : BlockTypes, by : Mutexes \cup Wakeups \cup {NULL}, timed : BOOLEAN]
Blocked(type, obj, timed) == [type |-> type, by |-> obj, timed |-> timed]
NotBlocked == Blocked("NONE", NULL, FALSE)
PCs == {"app", "mutex_yield", "mutex_back", "wakeup_yield", "wakeup_back",
        "wakeup_test", "wakeup_take", "yield", "panic_yield", "dead", "lost", "ack",
        "free", "kill"}

-----------------------------------------------------------------------------
(* Mutex queues and the scheduler.                                         *)

\* The threads that stay in front of t when it is queued on m: the walk stops
\* at the first waiter whose priority is not above t's.
StaysAhead(m, t) ==
    {x \in waiters[m] : \A y \in ahead[x] \cup {x} : priority[y] > priority[t]}

\* Variant: the waiters behind t are not linked to it.
mutex_add_to_queue_cut(m, t) ==
    /\ waiters' = [waiters EXCEPT ![m] = @ \cup {t}]
    /\ ahead' = [ahead EXCEPT ![t] = StaysAhead(m, t)]

mutex_add_to_queue(m, t) ==
    /\ waiters' = [waiters EXCEPT ![m] = @ \cup {t}]
    /\ ahead' = [x \in Threads |->
                   IF x = t THEN StaysAhead(m, t)
                   ELSE IF x \in waiters[m] \ StaysAhead(m, t) THEN ahead[x] \cup {t}
                   ELSE ahead[x]]

\* Variant: a wait that ends is not unlinked.
mutex_remove_from_queue_forgotten(E) == UNCHANGED queueVars

mutex_remove_from_queue(E) ==
    /\ waiters' = [m \in Mutexes |-> waiters[m] \ E]
    /\ ahead' = [x \in Threads |-> IF x \in E THEN {} ELSE ahead[x] \ E]

\* Unlinking the last element of a queue, when it is not the first, makes the
\* loop of mutex_remove_from_queue read queue_next through a NULL pointer.
NullWalk(E) ==
    \E m \in Mutexes : \E t \in E \cap waiters[m] :
        ahead[t] # {} /\ \A x \in waiters[m] : t \notin ahead[x]

\* The stack canary check of scheduler_switch: all user threads are suspended,
\* the current one is defunct, and the monitor worker is signalled.
StackState(ov, st) ==
    LET susp == [t \in AllThreads |-> IF t = current THEN "DEFUNCT"
                                      ELSE IF t \in UserThreads THEN "SUSPENDED"
                                      ELSE st[t]]
    IN  IF ~ov THEN st
        ELSE IF waiter[dbgwakeup] = NULL THEN susp
        ELSE [susp EXCEPT ![waiter[dbgwakeup]] = "READY"]

StackBlock(ov, bl) ==
    LET stk == [bl EXCEPT ![current] = Blocked("STKOV", @.by, @.timed)]
    IN  IF ~ov THEN bl
        ELSE IF waiter[dbgwakeup] = NULL THEN stk
        ELSE [stk EXCEPT ![waiter[dbgwakeup]] = NotBlocked]

\* The thread that stops running is ready again, unless it is blocked or dead.
Preempt_forgotten(st) == st     \* variant: it stays RUNNING

Preempt(st) == IF st[current] = "RUNNING" THEN [st EXCEPT ![current] = "READY"] ELSE st

\* The thread that runs next: tgt if it is ready, else any ready thread with a
\* priority, blk (the one that yields) only if there is no other, else idle.
\* Variant: a thread that an interrupt wants to run is preferred to the freeze.
Eligible_thaws(st, tgt, blk, fz) ==
    IF tgt # NULL /\ st[tgt] = "READY" THEN {tgt}
    ELSE IF fz THEN {idle}
    ELSE {idle} \cup {t \in Threads : st[t] = "READY" /\ priority[t] > 0}

Eligible(st, tgt, blk, fz) ==
    LET ready == {t \in Threads : st[t] = "READY" /\ priority[t] > 0}
    IN  IF fz THEN {idle}
        ELSE IF tgt # NULL /\ st[tgt] = "READY" THEN {tgt}
        ELSE IF ready = {} THEN {idle}
        ELSE IF ready = {blk} THEN {blk}
        ELSE ready \ {blk}

\* Variant: only sleeps end.
Overdue_sleep(st, bl, fz) ==
    {t \in Threads : st[t] = "BLOCKED" /\ bl[t].timed /\ bl[t].type = "SLEEP"}

Overdue(st, bl, fz) ==
    IF fz THEN {} ELSE {t \in Threads : st[t] = "BLOCKED" /\ bl[t].timed}

\* The threads whose timeout is over get ready.
Expired(st, E) == [t \in AllThreads |-> IF t \in E THEN "READY" ELSE st[t]]

\* The effect of a switch that finds the stack overwritten (ov) or not, ends the
\* timeouts of E and picks next.  It runs in IRQ mode, where a data abort ends
\* in hang.
switch_to(st, bl, sg, fz, ov, E, next) ==
    /\ state' = [Expired(StackState(ov, Preempt(st)), E) EXCEPT ![next] = "RUNNING"]
    /\ block' = [t \in Threads |-> IF t \in E THEN NotBlocked ELSE StackBlock(ov, bl)[t]]
    /\ current' = next
    /\ frozen' = fz
    /\ mutex_remove_from_queue(E)
    /\ signalled' = IF ov THEN [sg EXCEPT ![dbgwakeup] = TRUE] ELSE sg
    /\ hung' \in (IF NullWalk(E) THEN BOOLEAN ELSE {FALSE})

\* scheduler_switch(tgt, blk), called when the fields are st, bl, sg and fz.
scheduler_switch(st, bl, sg, tgt, blk, fz) ==
    \E ov \in (IF current \in MayOverflow THEN BOOLEAN ELSE {FALSE}) :
    \E E \in SUBSET Overdue(StackState(ov, Preempt(st)), StackBlock(ov, bl), fz) :
    \E next \in Eligible(Expired(StackState(ov, Preempt(st)), E), tgt, blk, fz) :
        switch_to(st, bl, sg, fz, ov, E, next)

-----------------------------------------------------------------------------
(* What the current thread does.                                           *)

Runs(t) == ~hung /\ current = t
Calls(t) == Runs(t) /\ pc[t] = "app"

\* yield(), alone, as sleep(0), or at the end of a call that blocked.
AfterYield(p) == CASE p = "mutex_yield"  -> "mutex_back"
                   [] p = "wakeup_yield" -> "wakeup_back"
                   [] p = "panic_yield"  -> "dead"
                   [] OTHER -> "app"

yield(t) ==
    /\ Runs(t)
    /\ pc[t] \in {"app", "mutex_yield", "wakeup_yield", "yield", "panic_yield"}
    /\ pc' = [pc EXCEPT ![t] = AfterYield(@)]
    /\ scheduler_switch(state, block, signalled, NULL, t, frozen)
    /\ UNCHANGED <<priority, mutexVars, waiter, arg, held>>

\* The common part of the calls that block: state and block are set inside the
\* critical section, the thread still has to reach its yield().
Block(t, type, obj, timed, at) ==
    /\ state' = [state EXCEPT ![t] = "BLOCKED"]
    /\ block' = [block EXCEPT ![t] = Blocked(type, obj, timed)]
    /\ pc' = [pc EXCEPT ![t] = at]
    /\ arg' = [arg EXCEPT ![t] = obj]

\* panicf(PANIC_KILLTHREAD): the thread is defunct, keeps its mutexes, yields.
panic(t) ==
    /\ state' = [state EXCEPT ![t] = "DEFUNCT_ACK"]
    /\ block' = [block EXCEPT ![t] = Blocked("PANIC", @.by, @.timed)]
    /\ pc' = [pc EXCEPT ![t] = "panic_yield"]

\* mutex_lock(m, timeout) when it returns at once.  (With TIMEOUT_NONE on a
\* mutex of another thread it returns THREAD_TIMEOUT and changes nothing.)
mutex_lock(t, m) ==
    /\ Calls(t)
    /\ \/ /\ count[m] = 0
          /\ count' = [count EXCEPT ![m] = 1]
          /\ owner' = [owner EXCEPT ![m] = t]
          /\ owned' = [owned EXCEPT ![t] = <<m>> \o @]
       \/ /\ count[m] \in 1 .. MaxCount - 1
          /\ owner[m] = t
          /\ count' = [count EXCEPT ![m] = @ + 1]
          /\ UNCHANGED <<owner, owned>>
    /\ held' = [held EXCEPT ![t][m] = @ + 1]
    /\ UNCHANGED <<threadVars, current, frozen, queueVars, wakeupVars, pc, arg, hung>>

\* Variant: the mutex is not recursive.
mutex_lock_block_own(t, m, timed) ==
    /\ Calls(t)
    /\ count[m] > 0
    /\ Block(t, "MUTEX", m, timed, "mutex_yield")
    /\ mutex_add_to_queue(m, t)
    /\ UNCHANGED <<priority, current, frozen, mutexVars, wakeupVars, held, hung>>

mutex_lock_block(t, m, timed) ==
    /\ Calls(t)
    /\ count[m] > 0
    /\ owner[m] # t
    /\ Block(t, "MUTEX", m, timed, "mutex_yield")
    /\ mutex_add_to_queue(m, t)
    /\ UNCHANGED <<priority, current, frozen, mutexVars, wakeupVars, held, hung>>

\* Variant: the result does not depend on the owner.
mutex_lock_return_ok(t) ==
    /\ Runs(t)
    /\ pc[t] = "mutex_back"
    /\ pc' = [pc EXCEPT ![t] = "app"]
    /\ held' = [held EXCEPT ![t][arg[t]] = @ + 1]
    /\ UNCHANGED <<threadVars, current, frozen, mutexVars, queueVars, wakeupVars, arg, hung>>

\* After the yield() of mutex_lock: THREAD_OK if the mutex was handed to it.
mutex_lock_return(t) ==
    /\ Runs(t)
    /\ pc[t] = "mutex_back"
    /\ pc' = [pc EXCEPT ![t] = "app"]
    /\ held' = IF owner[arg[t]] = t THEN [held EXCEPT ![t][arg[t]] = @ + 1] ELSE held
    /\ UNCHANGED <<threadVars, current, frozen, mutexVars, queueVars, wakeupVars, arg, hung>>

\* Variant: panicf comes back and the count is decremented all the same.
mutex_unlock_unchecked(t, m) ==
    /\ Calls(t)
    /\ count[m] # 1
    /\ count' = [count EXCEPT ![m] = @ - 1]
    /\ UNCHANGED <<threadVars, current, frozen, owned, owner, queueVars, wakeupVars,
                   callVars, hung>>

\* mutex_unlock of a mutex that the thread does not own, or of a nested lock.
mutex_unlock(t, m) ==
    /\ Calls(t)
    /\ \/ /\ count[m] = 0 \/ owner[m] # t
          /\ panic(t)
          /\ UNCHANGED <<count, held>>
       \/ /\ count[m] > 1
          /\ owner[m] = t
          /\ count' = [count EXCEPT ![m] = @ - 1]
          /\ held' = [held EXCEPT ![t][m] = @ - 1]
          /\ UNCHANGED <<state, block, pc>>
    /\ UNCHANGED <<priority, current, frozen, owned, owner, queueVars, wakeupVars, arg, hung>>

\* The list l without m.
Unlink(l, m) ==
    LET k == CHOOSE i \in 1 .. Len(l) : l[i] = m
    IN  IF \E i \in 1 .. Len(l) : l[i] = m
        THEN [i \in 1 .. Len(l) - 1 |-> IF i < k THEN l[i] ELSE l[i + 1]]
        ELSE l

\* mutex_unlock_internal walks past the end of owned_mutexes (through NULL)
\* when the mutex is the last of the list but not the first.
OwnedNullWalk(t, m) == Len(owned[t]) > 1 /\ owned[t][Len(owned[t])] = m

\* Variants: the waiter is only made ready, for others to take the mutex first;
\* the new owner's list is not updated; the new owner stays blocked.
mutex_unlock_internal_barging(t, m) ==
    /\ owned' = [owned EXCEPT ![t] = Unlink(@, m)]
    /\ count' = [count EXCEPT ![m] = 0]
    /\ UNCHANGED <<state, block, owner, queueVars>>

mutex_unlock_internal_unlisted(t, m) ==
    \E h \in waiters[m] :
       /\ ahead[h] = {}
       /\ owned' = [owned EXCEPT ![t] = Unlink(@, m)]
       /\ count' = [count EXCEPT ![m] = 1]
       /\ owner' = [owner EXCEPT ![m] = h]
       /\ state' = [state EXCEPT ![h] = "READY"]
       /\ block' = [block EXCEPT ![h] = NotBlocked]
       /\ mutex_remove_from_queue({h})

mutex_unlock_internal_asleep(t, m) ==
    \E h \in waiters[m] :
       /\ ahead[h] = {}
       /\ owned' = [x \in Threads |-> CASE x = h -> <<m>> \o owned[h]
                                        [] x = t /\ x # h -> Unlink(owned[t], m)
                                        [] OTHER -> owned[x]]
       /\ count' = [count EXCEPT ![m] = 1]
       /\ owner' = [owner EXCEPT ![m] = h]
       /\ mutex_remove_from_queue({h})
       /\ UNCHANGED <<state, block>>

\* mutex_unlock_internal: unlink the mutex, hand it to the first waiter.
mutex_unlock_internal(t, m) ==
    \/ /\ waiters[m] = {}
       /\ owned' = [owned EXCEPT ![t] = Unlink(@, m)]
       /\ count' = [count EXCEPT ![m] = 0]
       /\ UNCHANGED <<state, block, owner, queueVars>>
    \/ \E h \in waiters[m] :
       /\ ahead[h] = {}
       /\ owned' = [x \in Threads |-> CASE x = h -> <<m>> \o owned[h]
                                        [] x = t /\ x # h -> Unlink(owned[t], m)
                                        [] OTHER -> owned[x]]
       /\ count' = [count EXCEPT ![m] = 1]
       /\ owner' = [owner EXCEPT ![m] = h]
       /\ state' = [state EXCEPT ![h] = "READY"]
       /\ block' = [block EXCEPT ![h] = NotBlocked]
       /\ mutex_remove_from_queue({h})

mutex_unlock_last(t, m) ==
    /\ Calls(t)
    /\ count[m] = 1
    /\ owner[m] = t
    /\ mutex_unlock_internal(t, m)
    /\ held' = [held EXCEPT ![t][m] = @ - 1]
    /\ UNCHANGED <<priority, current, frozen, wakeupVars, pc, arg, hung>>

\* The same call when the NULL walk ends in a data abort: the thread is killed
\* with the mutex unlinked and its count 0, before any hand-off.
mutex_unlock_abort(t, m) ==
    /\ Calls(t)
    /\ count[m] = 1
    /\ owner[m] = t
    /\ OwnedNullWalk(t, m)
    /\ owned' = [owned EXCEPT ![t] = Unlink(@, m)]
    /\ count' = [count EXCEPT ![m] = 0]
    /\ held' = [held EXCEPT ![t][m] = @ - 1]
    /\ pc' = [pc EXCEPT ![t] = "dead"]
    /\ scheduler_switch([state EXCEPT ![t] = "DEFUNCT_ACK"],
                        [block EXCEPT ![t] = Blocked("PANIC", @.by, @.timed)],
                        signalled, NULL, NULL, frozen)
    /\ UNCHANGED <<priority, owner, waiter, arg>>

\* wakeup_wait(w, timeout): panics if some thread waits already; returns at once
\* if signalled.  (With TIMEOUT_NONE and no signal it changes nothing.)
wakeup_wait(t, w) ==
    /\ Calls(t)
    /\ \/ /\ waiter[w] # NULL
          /\ panic(t)
          /\ UNCHANGED signalled
       \/ /\ waiter[w] = NULL
          /\ signalled[w]
          /\ signalled' = [signalled EXCEPT ![w] = FALSE]
          /\ UNCHANGED <<state, block, pc>>
    /\ UNCHANGED <<priority, current, frozen, mutexVars, queueVars, waiter, arg, held, hung>>

\* Variant: the signal is not looked at.
wakeup_wait_block_blind(t, w, timed) ==
    /\ Calls(t)
    /\ waiter[w] = NULL
    /\ Block(t, "WAKEUP", w, timed, "wakeup_yield")
    /\ waiter' = [waiter EXCEPT ![w] = t]
    /\ UNCHANGED <<priority, current, frozen, mutexVars, queueVars, signalled, held, hung>>

wakeup_wait_block(t, w, timed) ==
    /\ Calls(t)
    /\ waiter[w] = NULL
    /\ ~signalled[w]
    /\ Block(t, "WAKEUP", w, timed, "wakeup_yield")
    /\ waiter' = [waiter EXCEPT ![w] = t]
    /\ UNCHANGED <<priority, current, frozen, mutexVars, queueVars, signalled, held, hung>>

\* After the yield() of wakeup_wait, outside any critical section: waiter is
\* cleared, signalled is read, signalled is cleared, each a step of its own.
wakeup_wait_return(t) ==
    /\ Runs(t)
    /\ \/ /\ pc[t] = "wakeup_back"
          /\ waiter' = [waiter EXCEPT ![arg[t]] = NULL]
          /\ pc' = [pc EXCEPT ![t] = "wakeup_test"]
          /\ UNCHANGED signalled
       \/ /\ pc[t] = "wakeup_test"
          /\ pc' = [pc EXCEPT ![t] = IF signalled[arg[t]] THEN "wakeup_take" ELSE "app"]
          /\ UNCHANGED wakeupVars
       \/ /\ pc[t] = "wakeup_take"
          /\ signalled' = [signalled EXCEPT ![arg[t]] = FALSE]
          /\ pc' = [pc EXCEPT ![t] = "app"]
          /\ UNCHANGED waiter
    /\ UNCHANGED <<threadVars, current, frozen, mutexVars, queueVars, arg, held, hung>>

\* wakeup_signal(w), from a thread or from an interrupt handler.  If it finds a
\* waiter while the CPU idles (only a handler can), it switches to it at once.
SignalState_flag(w) == state    \* variant: only the flag is set

SignalState(w) == IF waiter[w] = NULL THEN state ELSE [state EXCEPT ![waiter[w]] = "READY"]
SignalBlock(w) == IF waiter[w] = NULL THEN block ELSE [block EXCEPT ![waiter[w]] = NotBlocked]

wakeup_signal(w) ==
    /\ ~hung
    /\ current = idle => waiter[w] = NULL
    /\ signalled' = [signalled EXCEPT ![w] = TRUE]
    /\ state' = SignalState(w)
    /\ block' = SignalBlock(w)
    /\ UNCHANGED <<priority, current, frozen, mutexVars, queueVars, waiter, callVars, hung>>

wakeup_signal_idle(w) ==
    /\ ~hung
    /\ current = idle
    /\ waiter[w] # NULL
    /\ scheduler_switch(SignalState(w), SignalBlock(w),
                        [signalled EXCEPT ![w] = TRUE], waiter[w], NULL, frozen)
    /\ UNCHANGED <<priority, mutexVars, waiter, callVars>>

\* sleep(usecs); usecs = -1 is TIMEOUT_BLOCK and never ends.
sleep(t, timed) ==
    /\ Calls(t)
    /\ Block(t, "SLEEP", NULL, timed, "yield")
    /\ UNCHANGED <<priority, current, frozen, mutexVars, queueVars, wakeupVars, held, hung>>

thread_set_priority(t, x, p) ==
    /\ Calls(t)
    /\ priority' = [priority EXCEPT ![x] = p]
    /\ UNCHANGED <<state, block, current, frozen, mutexVars, queueVars, wakeupVars,
                   callVars, hung>>

\* The timer interrupt.  It is armed by every switch of a scheduler that is not
\* frozen; when frozen nothing arms it.
tick ==
    /\ ~hung
    /\ ~frozen
    /\ scheduler_switch(state, block, signalled, NULL, NULL, frozen)
    /\ UNCHANGED <<priority, mutexVars, waiter, callVars>>

Step(t) ==
    \/ yield(t)
    \/ \E m \in Mutexes : \/ mutex_lock(t, m)
                          \/ \E timed \in BOOLEAN : mutex_lock_block(t, m, timed)
                          \/ mutex_unlock(t, m)
                          \/ mutex_unlock_last(t, m)
                          \/ mutex_unlock_abort(t, m)
    \/ mutex_lock_return(t)
    \/ \E w \in Wakeups : \/ wakeup_wait(t, w)
                          \/ \E timed \in BOOLEAN : wakeup_wait_block(t, w, timed)
    \/ wakeup_wait_return(t)
    \/ \E timed \in BOOLEAN : sleep(t, timed)
    \/ \E x \in Threads, p \in Prios : thread_set_priority(t, x, p)

Interrupt ==
    \/ tick
    \/ \E w \in Wakeups : wakeup_signal(w) \/ wakeup_signal_idle(w)

Init ==
    /\ state = [t \in AllThreads |-> IF t = idle THEN "RUNNING" ELSE "READY"]
    /\ block = [t \in Threads |-> NotBlocked]
    /\ priority \in [Threads -> Prios]
    /\ owned = [t \in Threads |-> <<>>]
    /\ current = idle
    /\ frozen = FALSE
    /\ owner = [m \in Mutexes |-> NULL]
    /\ count = [m \in Mutexes |-> 0]
    /\ waiters = [m \in Mutexes |-> {}]
    /\ ahead = [t \in Threads |-> {}]
    /\ waiter = [w \in Wakeups |-> NULL]
    /\ signalled = [w \in Wakeups |-> FALSE]
    /\ pc = [t \in Threads |-> "app"]
    /\ arg = [t \in Threads |-> NULL]
    /\ held = [t \in Threads |-> [m \in Mutexes |-> 0]]
    /\ hung = FALSE

Next == Interrupt \/ \E t \in Threads : Step(t)

Spec == Init /\ [][Next]_vars

\* Fairness.  The timer always runs.  A thread that gets the CPU again and again
\* gets on with the call it is in.  A ready thread that is passed over keeps its
\* cputime while the others' grow, so that its score becomes the best one.  A
\* timeout that is looked at again and again is over at some time.
InCall(t) ==
    \/ pc[t] # "app" /\ yield(t)
    \/ mutex_lock_return(t)
    \/ wakeup_wait_return(t)

Dispatch(t) == Next /\ current # t /\ current' = t

Expire(t) == tick /\ state[t] = "BLOCKED" /\ state'[t] # "BLOCKED"

FairSpec ==
    /\ Spec
    /\ WF_vars(tick)
    /\ \A t \in Threads : SF_vars(InCall(t)) /\ SF_vars(Dispatch(t)) /\ SF_vars(Expire(t))
-----------------------------------------------------------------------------
(* Properties.                                                             *)

ThreadsType ==
    /\ state \in [AllThreads -> States]
    /\ block \in [Threads -> BlockRecord]
    /\ priority \in [Threads -> Prios]
    /\ current \in AllThreads
    /\ frozen \in BOOLEAN
    /\ hung \in BOOLEAN

MutexesType ==
    /\ owned \in [Threads -> Seq(Mutexes)]
    /\ owner \in [Mutexes -> Threads \cup {NULL}]
    /\ count \in [Mutexes -> Nat]
    /\ waiters \in [Mutexes -> SUBSET Threads]
    /\ ahead \in [Threads -> SUBSET Threads]

WakeupsType ==
    /\ waiter \in [Wakeups -> Threads \cup {NULL}]
    /\ signalled \in [Wakeups -> BOOLEAN]

CallsType ==
    /\ pc \in [Threads -> PCs]
    /\ arg \in [Threads -> Mutexes \cup Wakeups \cup Threads \cup {NULL}]
    /\ held \in [Threads -> [Mutexes -> Int]]

\* Every field of the kernel's structures stays in its range: a recursion count
\* does not go below 0, a queue and an owner hold threads.
TypeOK == ThreadsType /\ MutexesType /\ WakeupsType /\ CallsType

\* Mutual exclusion with recursion: a thread that was told it holds a mutex owns
\* it, and the recursion count is the number of locks it still has to undo.
MutualExclusion ==
    \A t \in Threads, m \in Mutexes :
        held[t][m] > 0 => owner[m] = t /\ count[m] = held[t][m]

\* Why that is so, as an inductive invariant of Spec, in four parts.  Awaits: t is
\* inside the mutex_lock(m) that had to wait.
Awaits(t, m) == pc[t] \in {"mutex_yield", "mutex_back"} /\ arg[t] = m

\* A queued thread cannot run on until it is dequeued.
QueuedWaits ==
    \A m \in Mutexes : \A t \in waiters[m] :
        /\ Awaits(t, m)
        /\ state[t] \notin {"READY", "RUNNING"}
        /\ pc[t] = "mutex_back" => current # t

\* So a signal, which makes the waiter of a wakeup ready, never hits a queued one.
WaiterWaits ==
    \A w \in Wakeups : waiter[w] # NULL =>
        pc[waiter[w]] \in {"wakeup_yield", "wakeup_back"} /\ arg[waiter[w]] = w

\* The count is what the owner was told, once it has been told.
HeldIsCount ==
    \A t \in Threads, m \in Mutexes :
        held[t][m] = IF owner[m] = t /\ ~Awaits(t, m) THEN count[m] ELSE 0

\* A mutex whose owner has not been told yet was handed over by mutex_unlock.
HandedOver ==
    \A t \in Threads, m \in Mutexes :
        Awaits(t, m) /\ owner[m] = t => count[m] = 1 /\ state[t] # "BLOCKED"

MutexInvariant == TypeOK /\ QueuedWaits /\ WaiterWaits /\ HeldIsCount /\ HandedOver

\* A thread blocked on a mutex is in the queue of exactly that mutex, and a
\* queue holds nobody else: no waiter is forgotten, none is handed a mutex after
\* its timeout.
QueueIsBlockedThreads ==
    \A m \in Mutexes, t \in Threads :
        t \in waiters[m] <=> /\ state[t] = "BLOCKED"
                             /\ block[t].type = "MUTEX"
                             /\ block[t].by = m

\* A mutex queue is linear: of two waiters one is behind the other, nobody is
\* behind itself, and a thread in no queue has no link left.
QueueIsLinear ==
    /\ \A m \in Mutexes : \A x, y \in waiters[m] :
         /\ x # y => (x \in ahead[y] <=> y \notin ahead[x])
         /\ x \in ahead[y] => ahead[x] \subseteq ahead[y] \ {y}
    /\ \A t \in Threads : ahead[t] # {} =>
         \E m \in Mutexes : t \in waiters[m] /\ ahead[t] \subseteq waiters[m] \ {t}

\* owned_mutexes of a thread lists, once each, the mutexes that it owns: what
\* thread_terminate will release.
OwnedIsOwner ==
    \A t \in Threads, m \in Mutexes :
        Cardinality({i \in 1 .. Len(owned[t]) : owned[t][i] = m})
            = IF count[m] > 0 /\ owner[m] = t THEN 1 ELSE 0

\* A free mutex has no waiters, unless a data abort killed its last owner in
\* the middle of mutex_unlock.
NoWaiterOnFreeMutex ==
    \A m \in Mutexes :
        waiters[m] # {} /\ count[m] = 0 => state[owner[m]] = "DEFUNCT_ACK"

\* The owner pointer decides what mutex_lock returns after its yield: it equals
\* the thread only if the mutex was really handed over, never by being stale.
LockReturnIsHandOff ==
    \A t \in Threads, m \in Mutexes :
        Awaits(t, m) /\ owner[m] = t =>
            count[m] = 1 /\ held[t][m] = 0 /\ state[t] # "BLOCKED"

\* No lost wakeup: a thread is not left blocked on a wakeup that is signalled.
NoLostWakeup ==
    \A w \in Wakeups, t \in Threads :
        state[t] = "BLOCKED" /\ block[t].type = "WAKEUP" /\ block[t].by = w =>
            waiter[w] = t /\ ~signalled[w]

\* A wait with a timeout returns, even if nobody unlocks or signals.
TimedWaitReturns ==
    \A t \in Threads :
        pc[t] \in {"mutex_yield", "wakeup_yield"} /\ state[t] = "BLOCKED" /\ block[t].timed
            ~> pc[t] = "app" \/ hung

\* The thread that waits for a signalled wakeup returns from wakeup_wait.
SignalledWaiterReturns ==
    \A t \in Threads, w \in Wakeups :
        waiter[w] = t /\ signalled[w] ~> pc[t] = "app" \/ hung

\* The thread that was handed a mutex returns from mutex_lock.
HandedLockReturns ==
    \A t \in Threads :
        pc[t] = "mutex_yield" /\ owner[arg[t]] = t ~> pc[t] = "app" \/ hung

\* RecursiveMutex over the kernel's structures.  A mutex is free when its count
\* is 0, whatever its stale owner pointer says.
M == INSTANCE RecursiveMutex
        WITH holder <- [m \in Mutexes |-> IF count[m] = 0 THEN NULL ELSE owner[m]],
             depth <- count,
             waiting <- waiters,
             dead <- {t \in Threads : state[t] = "DEFUNCT_ACK"}

\* mutex_lock, mutex_unlock, the scheduler's timeouts and the panics together do
\* what RecursiveMutex promises: whoever unlocks last hands the mutex to a waiter.
ImplementsMutex == M!Spec

=============================================================================
