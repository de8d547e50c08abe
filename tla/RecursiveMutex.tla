--------------------------- MODULE RecursiveMutex ---------------------------
(***************************************************************************)
(* What the kernel's mutexes promise (emcore/thread.h): a mutex has at     *)
(* most one holder, which may lock it again; when the last lock is undone  *)
(* while threads wait, one of the waiters holds the mutex at once, and     *)
(* nobody else can take it in between.  Only the death of its holder frees *)
(* a mutex that others wait for.                                           *)
(***************************************************************************)
EXTENDS Naturals

CONSTANTS Threads, Mutexes, NULL

VARIABLES holder,   \* the thread that holds a mutex, or NULL
          depth,    \* the locks it has to undo
          waiting,  \* the threads that wait for a mutex
          dead      \* the threads that were killed

mutexes == <<holder, depth, waiting, dead>>

Init ==
    /\ holder = [m \in Mutexes |-> NULL]
    /\ depth = [m \in Mutexes |-> 0]
    /\ waiting = [m \in Mutexes |-> {}]
    /\ dead = {}

Acquire(t, m) ==
    /\ holder[m] \in {NULL, t}
    /\ holder' = [holder EXCEPT ![m] = t]
    /\ depth' = [depth EXCEPT ![m] = @ + 1]
    /\ UNCHANGED <<waiting, dead>>

Wait(t, m) ==
    /\ holder[m] \notin {NULL, t}
    /\ \A n \in Mutexes : t \notin waiting[n]
    /\ waiting' = [waiting EXCEPT ![m] = @ \cup {t}]
    /\ UNCHANGED <<holder, depth, dead>>

\* The timeouts of the threads in E end.
GiveUp(E) ==
    /\ waiting' = [m \in Mutexes |-> waiting[m] \ E]
    /\ UNCHANGED <<holder, depth, dead>>

Undo(t, m) ==
    /\ holder[m] = t
    /\ depth[m] > 1
    /\ depth' = [depth EXCEPT ![m] = @ - 1]
    /\ UNCHANGED <<holder, waiting, dead>>

Release(t, m) ==
    /\ holder[m] = t
    /\ depth[m] = 1
    /\ UNCHANGED dead
    /\ IF waiting[m] = {}
       THEN /\ holder' = [holder EXCEPT ![m] = NULL]
            /\ depth' = [depth EXCEPT ![m] = 0]
            /\ UNCHANGED waiting
       ELSE \E h \in waiting[m] :
            /\ holder' = [holder EXCEPT ![m] = h]
            /\ waiting' = [waiting EXCEPT ![m] = @ \ {h}]
            /\ UNCHANGED depth

\* A thread that is killed keeps what it holds.
Die(t) ==
    /\ dead' = dead \cup {t}
    /\ UNCHANGED <<holder, depth, waiting>>

\* A thread that a data abort kills inside the unlock leaves the waiters where
\* they are; the switch that follows may end some of their timeouts.
Abandon(t, m, E) ==
    /\ holder[m] = t
    /\ depth[m] = 1
    /\ holder' = [holder EXCEPT ![m] = NULL]
    /\ depth' = [depth EXCEPT ![m] = 0]
    /\ waiting' = [n \in Mutexes |-> waiting[n] \ E]
    /\ dead' = dead \cup {t}

Next ==
    \/ \E E \in SUBSET Threads : GiveUp(E)
    \/ \E t \in Threads : Die(t)
    \/ \E t \in Threads, m \in Mutexes :
        \/ Acquire(t, m)
        \/ Wait(t, m)
        \/ Undo(t, m)
        \/ Release(t, m)
        \/ \E E \in SUBSET Threads : Abandon(t, m, E)

Spec == Init /\ [][Next]_mutexes
=============================================================================
