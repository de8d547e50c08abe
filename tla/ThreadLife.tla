------------------------------ MODULE ThreadLife ------------------------------
(***************************************************************************)
(* The beginning and the end of threads: thread_create, thread_terminate,  *)
(* thread_exit and thread_killlevel (emcore/thread.c).                     *)
(*                                                                         *)
(* thread_terminate has two critical sections.  The first takes the thread *)
(* out of the queue or the wakeup that it waits for and unlocks what it    *)
(* owns.  Then libraries, files and button hooks are taken from it, under  *)
(* mutexes that may make the caller wait.  The second unlinks the thread   *)
(* and frees its memory.  Anything may happen in between, to the victim    *)
(* too; and memory that was freed may become a thread again.               *)
(*                                                                         *)
(* Where the code leaves a reference to freed memory behind, or unlocks    *)
(* mutexes of other threads, the model ends: fate says which threads those *)
(* are.                                                                    *)
(***************************************************************************)
EXTENDS ThreadControl, SequencesExt

\* Memory for threads and mutexes is finite, and the monitor is there.
ASSUME LifeAssumption ==
    IsFiniteSet(Threads) /\ IsFiniteSet(Mutexes) /\ dbgwakeup \in Wakeups

VARIABLES listed,   \* the threads in the list that head_thread begins
          killing,  \* threads inside thread_killlevel
          fate,     \* history: how the last thread_terminate of a thread began
          stale,    \* history: threads inside a thread_terminate whose victim another has freed
          strayed   \* history: mutexes of a thread that lives on have been unlocked

lifeVars == <<controlVars, listed, killing, fate, stale, strayed>>
kernelVars == <<threadVars, current, frozen, mutexVars, queueVars, wakeupVars, callVars, hung>>

Fates == {"none", "clean", "queued", "waiting", "strayed", "resumed", "reused"}

-----------------------------------------------------------------------------
(* thread_terminate_internal.                                              *)

\* mutex_unlock_internal as a function of the fields: m is unlocked by its owner, and m
\* becomes the mutex that its owned_next is left with.
NextOwned(s) ==
    LET l == s.owned[s.owner[s.m]]
        rest == {i \in 2 .. Len(l) : l[i - 1] = s.m}
    IN  IF rest = {} THEN NULL ELSE l[CHOOSE i \in rest : TRUE]

FirstOf(l) == IF l = << >> THEN NULL ELSE l[1]

\* Variant: the mutex is not put in the new owner's list.
HandOver_unlisted(s, x, h) ==
    [s EXCEPT !.owned[s.owner[s.m]] = Unlink(@, s.m),
              !.count[s.m] = 1, !.owner[s.m] = h,
              !.state[h] = "READY", !.block[h] = NotBlocked,
              !.waiters[s.m] = @ \ {h},
              !.ahead = [y \in Threads |-> IF y = h THEN {} ELSE @[y] \ {h}],
              !.m = NextOwned(s)]

HandOver(s, x, h) ==
    [s EXCEPT !.owned = [y \in Threads |-> CASE y = h -> <<s.m>> \o Unlink(@[h], s.m)
                                             [] y = s.owner[s.m] /\ y # h -> Unlink(@[y], s.m)
                                             [] OTHER -> @[y]],
              !.count[s.m] = 1, !.owner[s.m] = h,
              !.state[h] = "READY", !.block[h] = NotBlocked,
              !.waiters[s.m] = @ \ {h},
              !.ahead = [y \in Threads |-> IF y = h THEN {} ELSE @[y] \ {h}],
              !.strayed = @ \/ FirstOf(s.owned[h]) # NextOwned(s),
              !.m = FirstOf(s.owned[h])]

UnlockOne(s, x) ==
    IF s.m = NULL THEN s
    ELSE IF s.waiters[s.m] = {}
    THEN [s EXCEPT !.owned[s.owner[s.m]] = Unlink(@, s.m), !.count[s.m] = 0, !.m = NextOwned(s)]
    ELSE HandOver(s, x, CHOOSE h \in s.waiters[s.m] : s.ahead[h] = {})

\* The loop over owned_mutexes.  After a mutex was handed over it goes on with the list of
\* the new owner.
UnlockAll(s, x) ==
    FoldLeft(LAMBDA r, i : UnlockOne(r, x), [s EXCEPT !.m = FirstOf(s.owned[x])],
             [i \in 1 .. Cardinality(Threads) + 2 * Cardinality(Mutexes) |-> i])

\* Variant: it keeps what it owns.
UnlockAll_none(s, x) == s

\* A thread that waits for a mutex should leave its queue, but the queue is looked up
\* through a pointer that was never set: it may also stay, or the CPU may fault.
Unqueued(x) ==
    IF state[x] = "BLOCKED" /\ block[x].type = "MUTEX" THEN {{}, {x}} ELSE {{}}

\* Variant: the thread stays the waiter.
Unwaited_not(x) == waiter

Unwaited(x) ==
    IF state[x] = "BLOCKED" /\ block[x].type = "WAKEUP"
    THEN [waiter EXCEPT ![block[x].by] = NULL] ELSE waiter

Fields(x, E) ==
    [owned |-> owned, owner |-> owner, count |-> count, block |-> block,
     state |-> IF state[x] = "RUNNING" THEN state ELSE [state EXCEPT ![x] = "SUSPENDED"],
     waiters |-> [m \in Mutexes |-> waiters[m] \ E],
     ahead |-> [y \in Threads |-> IF y \in E THEN {} ELSE ahead[y] \ E],
     strayed |-> FALSE, m |-> NULL]

\* The first critical section.
Begin(t, x) ==
    /\ \E E \in Unqueued(x) : \E s \in {UnlockAll(Fields(x, E), x)} :
         /\ state' = s.state /\ block' = s.block
         /\ owned' = s.owned /\ owner' = s.owner /\ count' = s.count
         /\ waiters' = s.waiters /\ ahead' = s.ahead
         /\ strayed' = s.strayed
         /\ fate' = [fate EXCEPT ![x] =
              CASE @ \notin {"none", "clean"} -> @
                [] s.strayed -> "strayed"
                [] \E m \in Mutexes : x \in waiters[m] -> "queued"
                [] state[x] # "BLOCKED" /\ (\E w \in Wakeups : waiter[w] = x) -> "waiting"
                [] OTHER -> "clean"]
    /\ waiter' = Unwaited(x)
    /\ held' = [held EXCEPT ![x] = [m \in Mutexes |-> 0]]
    /\ pc' = [pc EXCEPT ![t] = "free"] /\ arg' = [arg EXCEPT ![t] = x]
    /\ hung' \in IF Unqueued(x) = {{}} THEN {FALSE} ELSE BOOLEAN
    /\ UNCHANGED <<priority, current, frozen, signalled, listed, stale>>

thread_terminate(t, x) ==
    /\ Calls(t) /\ x \in listed
    /\ Begin(t, x)
    /\ UNCHANGED killing

\* thread_killlevel(USER_THREAD): the threads it finds, one after the other.
thread_killlevel(t) ==
    /\ Calls(t)
    /\ pc' = [pc EXCEPT ![t] = "kill"]
    /\ killing' = killing \cup {t}
    /\ UNCHANGED <<threadVars, current, frozen, mutexVars, queueVars, wakeupVars, arg, held, hung,
                   listed, fate, stale, strayed>>

killlevel_next(t) ==
    /\ Runs(t) /\ pc[t] = "kill"
    /\ LET victims == (listed \cap UserThreads) \ {t} IN
       \/ \E x \in victims : Begin(t, x) /\ UNCHANGED killing
       \/ /\ victims = {}
          /\ pc' = [pc EXCEPT ![t] = "app"]
          /\ killing' = killing \ {t}
          /\ UNCHANGED <<threadVars, current, frozen, mutexVars, queueVars, wakeupVars, arg, held,
                         hung, listed, fate, stale, strayed>>

\* What the second critical section does to the lists; the memory of x is free then.
Unlist(t, x) ==
    /\ listed' = listed \ {x}
    /\ fate' = [fate EXCEPT ![x] = IF t \in stale /\ x \in listed THEN "reused" ELSE @]
    /\ stale' = (stale \ {t, x}) \cup {y \in Threads \ {t, x} : pc[y] = "free" /\ arg[y] = x}

free_other(t, x) ==
    /\ x # t
    /\ Unlist(t, x)
    /\ state' = [state EXCEPT ![x] = "SUSPENDED"]
    /\ block' = [block EXCEPT ![x] = NotBlocked]
    /\ pc' = [pc EXCEPT ![t] = IF t \in killing THEN "kill" ELSE "app", ![x] = "app"]
    /\ held' = [held EXCEPT ![x] = [m \in Mutexes |-> 0]]
    /\ arg' = [arg EXCEPT ![t] = NULL, ![x] = NULL]
    /\ killing' = killing \ {x}
    /\ UNCHANGED <<priority, current, frozen, mutexVars, queueVars, wakeupVars, hung>>

\* leave_thread: a switch away from the freed thread.  Its stack may begin with a link of
\* the allocator then, which the scheduler takes for an overflow.
leave_thread(t) ==
    /\ Unlist(t, t)
    /\ pc' = [pc EXCEPT ![t] = "app"]
    /\ arg' = [arg EXCEPT ![t] = NULL]
    /\ killing' = killing \ {t}
    /\ \E ov \in BOOLEAN :
         LET st == [StackState(ov, state) EXCEPT ![t] = "SUSPENDED"]
             bl == [StackBlock(ov, block) EXCEPT ![t] = NotBlocked]
             sg == IF ov THEN [signalled EXCEPT ![dbgwakeup] = TRUE] ELSE signalled
         IN  \E E \in SUBSET Overdue(st, bl, frozen) :
             \E next \in Eligible(Expired(st, E), NULL, NULL, frozen) :
                 switch_to(st, bl, sg, frozen, FALSE, E, next)
    /\ UNCHANGED <<priority, mutexVars, waiter, held>>

terminate_end(t) ==
    /\ Runs(t) /\ pc[t] = "free"
    /\ \/ free_other(t, arg[t])
       \/ arg[t] = t /\ leave_thread(t)
    /\ UNCHANGED strayed

-----------------------------------------------------------------------------
\* thread_create, in memory that no thread has.
thread_create(t, x, run) ==
    /\ Calls(t) /\ x \notin listed
    /\ listed' = listed \cup {x}
    /\ state' = [state EXCEPT ![x] = IF run THEN "READY" ELSE "SUSPENDED"]
    /\ block' = [block EXCEPT ![x] = NotBlocked]
    /\ \E p \in Prios : priority' = [priority EXCEPT ![x] = p]
    /\ owned' = [owned EXCEPT ![x] = << >>]
    /\ ahead' = [ahead EXCEPT ![x] = {}]
    /\ pc' = [pc EXCEPT ![x] = "app"] /\ arg' = [arg EXCEPT ![x] = NULL]
    /\ held' = [held EXCEPT ![x] = [m \in Mutexes |-> 0]]
    /\ fate' = [fate EXCEPT ![x] = "none"]
    /\ UNCHANGED <<current, frozen, owner, count, waiters, wakeupVars, hung, killing, stale, strayed>>

\* x is in its own thread_terminate.
Leaving(x) == pc[x] = "free" /\ arg[x] = x

\* Suspending and resuming.  A thread that is resumed while it is being terminated runs on.
Suspend ==
    /\ \/ \E x \in listed : thread_suspend(x)
       \/ \E t \in Threads : thread_suspend_self(t)
    /\ Forget /\ UNCHANGED fate

Resume ==
    \E x \in listed : /\ thread_resume(x)
                      /\ fate' = [fate EXCEPT ![x] = IF @ = "none" \/ Leaving(x) THEN @ ELSE "resumed"]

\* A reference to memory that was freed.
Refers(x) ==
    \/ \E m \in Mutexes : x \in waiters[m] \/ (count[m] > 0 /\ owner[m] = x)
    \/ \E w \in Wakeups : waiter[w] = x

Sound == ~strayed /\ \A x \in Threads \ listed : ~Refers(x)

LifeInit ==
    /\ ControlInit
    /\ listed = Threads /\ killing = {} /\ stale = {} /\ strayed = FALSE
    /\ fate = [x \in Threads |-> "none"]

Life ==
    \E t \in Threads : \/ \E x \in Threads : \/ thread_terminate(t, x)
                                             \/ \E run \in BOOLEAN : thread_create(t, x, run)
                       \/ thread_killlevel(t) \/ killlevel_next(t) \/ terminate_end(t)

LifeNext ==
    /\ Sound
    /\ \/ Next /\ Forget /\ UNCHANGED fate /\ UNCHANGED <<listed, killing, stale, strayed>>
       \/ (Suspend \/ Resume) /\ UNCHANGED <<listed, killing, stale, strayed>>
       \/ Life /\ Forget

LifeSpec == LifeInit /\ [][LifeNext]_lifeVars

-----------------------------------------------------------------------------
(* Properties.                                                             *)

\* A thread whose termination has begun is in no queue, owns no mutex and is no wakeup's
\* waiter, and it does not run again, whatever the others do before and after its memory
\* is freed (thread_terminate_internal).  Excepted are those that fate tells: threads
\* that were blocked on a mutex, or inside wakeup_wait but no longer blocked.
KilledIsForgotten ==
    \A x \in Threads : fate[x] = "clean" =>
        /\ ~Refers(x)
        /\ Leaving(x) \/ (state[x] = "SUSPENDED" /\ current # x)

\* A thread whose termination has not begun keeps the mutexes it holds, its list of owned
\* mutexes is right, and it is queued where it is blocked, whoever else is suspended,
\* resumed, terminated or created (mutex_unlock_internal).
LivingUnharmed ==
    Sound => \A t \in listed : fate[t] = "none" =>
        /\ \A m \in Mutexes :
             /\ held[t][m] > 0 => owner[m] = t /\ count[m] = held[t][m]
             /\ m \in ToSet(owned[t]) <=> (count[m] > 0 /\ owner[m] = t)
        /\ state[t] = "BLOCKED" /\ block[t].type = "MUTEX" => t \in waiters[block[t].by]

=============================================================================
