---------------------------- MODULE ThreadControl ----------------------------
(***************************************************************************)
(* What stops and restarts threads from outside: thread_suspend and        *)
(* thread_resume (emcore/thread.c), the USB monitor's FREEZE SCHEDULER and *)
(* SUSPEND THREAD commands and its worker's acknowledgement of defunct     *)
(* threads (emcore/usb/usbdebug.c), and panic(PANIC_KILLUSERTHREADS).      *)
(*                                                                         *)
(* The monitor's commands run in the USB interrupt, on top of whatever     *)
(* thread it interrupted.  Nobody suspends a thread that is defunct, and   *)
(* nobody resumes one that a panic suspended while it was in a mutex queue *)
(* (thread_resume would insert it a second time); both are assumptions on  *)
(* the person at the debugger.                                             *)
(***************************************************************************)
EXTENDS Threads

CONSTANT dbgthread      \* the monitor's worker thread

ASSUME ControlAssumption == dbgthread \in Threads \ UserThreads

VARIABLE resumed    \* history: the threads whose last suspension thread_resume has ended

controlVars == <<vars, resumed>>

\* A suspension, by whatever code, makes the last resume history.
Forget == resumed' = {x \in resumed : state'[x] = "SUSPENDED" => state[x] = "SUSPENDED"}

MayBeSuspended(x) == state[x] \in {"READY", "RUNNING", "BLOCKED"}

\* What thread_suspend leaves of a timeout: timeout -= elapsed.  It is unsigned
\* and not checked, so a wait that is one microsecond overdue is left with -1,
\* which is TIMEOUT_BLOCK.
Remaining(x) == IF state[x] = "BLOCKED" /\ block[x].timed THEN BOOLEAN
                                                          ELSE {block[x].timed}

SuspendQueue(x) == IF state[x] = "BLOCKED" /\ block[x].type = "MUTEX" THEN {x} ELSE {}

\* thread_suspend(x) of a thread that is not running: by a thread in its critical
\* section, or by the monitor.
thread_suspend(x) ==
    /\ ~hung
    /\ MayBeSuspended(x)
    /\ state[x] # "RUNNING"
    /\ state' = [state EXCEPT ![x] = "SUSPENDED"]
    /\ \E timed \in Remaining(x) : block' = [block EXCEPT ![x].timed = timed]
    /\ mutex_remove_from_queue(SuspendQueue(x))
    /\ hung' \in (IF NullWalk(SuspendQueue(x)) THEN BOOLEAN ELSE {FALSE})
    /\ UNCHANGED <<priority, current, frozen, mutexVars, wakeupVars, callVars>>

\* thread_suspend(NULL), or of itself: the yield follows the critical section.
thread_suspend_self(t) ==
    /\ Calls(t)
    /\ state[t] = "RUNNING"
    /\ state' = [state EXCEPT ![t] = "SUSPENDED"]
    /\ pc' = [pc EXCEPT ![t] = "yield"]
    /\ UNCHANGED <<block, priority, current, frozen, mutexVars, queueVars, wakeupVars,
                   arg, held, hung>>

\* The monitor suspends the very thread its interrupt has interrupted: yield()
\* in IRQ mode saves the handler's registers over the thread's.
thread_suspend_interrupted ==
    /\ ~hung
    /\ current # idle
    /\ state[current] = "RUNNING"
    /\ pc' = [pc EXCEPT ![current] = "lost"]
    /\ scheduler_switch([state EXCEPT ![current] = "SUSPENDED"], block, signalled,
                        NULL, current, frozen)
    /\ UNCHANGED <<priority, mutexVars, waiter, arg, held>>

\* Whatever a thread with a lost context does, it is not modelled any further.
lost_runs(t) ==
    /\ Runs(t)
    /\ pc[t] = "lost"
    /\ hung' = TRUE
    /\ UNCHANGED <<threadVars, current, frozen, mutexVars, queueVars, wakeupVars, callVars>>

\* Variant: a mutex waiter blocks again without being queued.
thread_resume_unqueued(x) ==
    /\ ~hung
    /\ state[x] = "SUSPENDED"
    /\ block[x].type = "MUTEX"
    /\ state' = [state EXCEPT ![x] = "BLOCKED"]
    /\ resumed' = resumed \cup {x}
    /\ UNCHANGED <<block, priority, current, frozen, mutexVars, queueVars, wakeupVars,
                   callVars, hung>>

\* thread_resume(x).  A thread suspended in a sleep is left SUSPENDED.
thread_resume(x) ==
    /\ ~hung
    /\ state[x] = "SUSPENDED"
    /\ \A m \in Mutexes : x \notin waiters[m]
    /\ \/ /\ block[x].type = "SLEEP"
          /\ UNCHANGED <<state, queueVars>>
       \/ /\ block[x].type = "MUTEX"
          /\ mutex_add_to_queue(block[x].by, x)
          /\ state' = [state EXCEPT ![x] = "BLOCKED"]
       \/ /\ block[x].type = "WAKEUP"
          /\ state' = [state EXCEPT ![x] = "BLOCKED"]
          /\ UNCHANGED queueVars
       \/ /\ block[x].type \in {"NONE", "STKOV", "PANIC"}
          /\ state' = [state EXCEPT ![x] = "READY"]
          /\ UNCHANGED queueVars
    /\ resumed' = resumed \cup {x}
    /\ UNCHANGED <<block, priority, current, frozen, mutexVars, wakeupVars, callVars, hung>>

\* FREEZE SCHEDULER: the flag, then a switch.
scheduler_freeze(value) ==
    /\ ~hung
    /\ scheduler_switch(state, block, signalled, NULL, NULL, value)
    /\ UNCHANGED <<priority, mutexVars, waiter, callVars>>

\* dbgthread's scan: it finds a defunct thread, reports it, acknowledges it.  The
\* report may block, so the two are separate steps.
dbgthread_find(t) ==
    /\ Calls(t)
    /\ t = dbgthread
    /\ \E x \in Threads :
        /\ state[x] = "DEFUNCT"
        /\ arg' = [arg EXCEPT ![t] = x]
    /\ pc' = [pc EXCEPT ![t] = "ack"]
    /\ UNCHANGED <<threadVars, current, frozen, mutexVars, queueVars, wakeupVars, held, hung>>

dbgthread_ack(t) ==
    /\ Runs(t)
    /\ pc[t] = "ack"
    /\ state' = [state EXCEPT ![arg[t]] = "DEFUNCT_ACK"]
    /\ pc' = [pc EXCEPT ![t] = "app"]
    /\ UNCHANGED <<block, priority, current, frozen, mutexVars, queueVars, wakeupVars,
                   arg, held, hung>>

\* panic(PANIC_KILLUSERTHREADS), which the FAT driver calls on a damaged volume.
panic_kill_user_threads(t) ==
    /\ Calls(t)
    /\ state' = [x \in AllThreads |-> IF x = t THEN "DEFUNCT_ACK"
                                      ELSE IF x \in UserThreads THEN "SUSPENDED"
                                      ELSE state[x]]
    /\ block' = [block EXCEPT ![t] = Blocked("PANIC", @.by, @.timed)]
    /\ pc' = [pc EXCEPT ![t] = "panic_yield"]
    /\ UNCHANGED <<priority, current, frozen, mutexVars, queueVars, wakeupVars, arg,
                   held, hung>>

Control ==
    \/ \E x \in Threads : thread_suspend(x)
    \/ thread_suspend_interrupted
    \/ \E value \in BOOLEAN : scheduler_freeze(value)
    \/ \E t \in Threads : \/ thread_suspend_self(t)
                          \/ lost_runs(t)
                          \/ dbgthread_find(t)
                          \/ dbgthread_ack(t)
                          \/ panic_kill_user_threads(t)

ControlInit == Init /\ resumed = {}

ControlNext ==
    \/ Next /\ Forget
    \/ Control /\ Forget
    \/ \E x \in Threads : thread_resume(x)

ControlSpec == ControlInit /\ [][ControlNext]_controlVars
-----------------------------------------------------------------------------
(* Properties.                                                             *)

\* A frozen scheduler runs no thread: only interrupt handlers, on top of
\* idle_thread, until the monitor thaws it.
FrozenRunsIdle == frozen => current = idle

\* The CPU runs one thread: no other one is marked RUNNING.
OneRunning == \A t \in AllThreads : state[t] = "RUNNING" => t = current

\* A thread that blocks on a mutex is in its queue, also after it was suspended
\* and resumed while it waited: otherwise no unlock would ever wake it.
BlockedIsQueued ==
    \A t \in Threads :
        state[t] = "BLOCKED" /\ block[t].type = "MUTEX" => t \in waiters[block[t].by]

\* THREAD_OK from thread_resume means that the thread is on its way again.  The
\* monitor's client promises it (libemcore.py: "Resumes the thread").
ResumeResumes == \A x \in resumed : state[x] # "SUSPENDED"

=============================================================================
