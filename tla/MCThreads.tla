------------------------------ MODULE MCThreads ------------------------------
(***************************************************************************)
(* Threads for TLC: three threads share one mutex; the others are used     *)
(* when one of the threads has died, early and with priority 0, and two    *)
(* are left.                                                               *)
(***************************************************************************)
EXTENDS Threads, TLC

CONSTANT shared     \* the mutex that three threads use

Living == {t \in Threads : pc[t] # "dead"}
InScope ==
    /\ Living = Threads => \A m \in Mutexes \ {shared} : count[m] = 0
    /\ \A t \in Threads \ Living : priority[t] = 0 /\ arg[t] = NULL

Symmetry == Permutations(Threads)
=============================================================================
