---------------------------- MODULE MCThreadLife ----------------------------
(***************************************************************************)
(* ThreadLife for TLC.  Of what Threads checks already there are no sleeps,*)
(* no timeouts and no panics here, and the threads are created, terminated,*)
(* suspended and resumed LifeSteps times at most.                          *)
(***************************************************************************)
EXTENDS ThreadLife

CONSTANT LifeSteps
VARIABLE lifeSteps

InScope ==
    /\ killing' \subseteq {dbgthread}
    /\ \A t \in Threads :
        /\ pc'[t] # "panic_yield"
        /\ ~block'[t].timed /\ block'[t].type # "SLEEP"
        /\ block'[t].type = "WAKEUP" => owned'[t] = << >>
        /\ t \notin UserThreads => owned'[t] = << >> /\ block'[t] = NotBlocked

\* The steps that begin something; a termination that has begun may always end.
Counted ==
    \/ \E t \in listed' : t \notin listed
    \/ \E t \in listed \cap listed' :
         \/ state'[t] = "SUSPENDED" /\ state[t] # "SUSPENDED"
         \/ state[t] = "SUSPENDED" /\ state'[t] # "SUSPENDED"
         \/ pc'[t] = "free" /\ pc[t] # "free"

Tick == lifeSteps' = IF Counted THEN lifeSteps + 1 ELSE lifeSteps

MCLifeInit == LifeInit /\ lifeSteps = 0
MCLifeNext == LifeNext /\ InScope /\ Tick /\ lifeSteps' <= LifeSteps
MCLifeSpec == MCLifeInit /\ [][MCLifeNext]_<<lifeVars, lifeSteps>>

Symmetry == Permutations(UserThreads) \cup Permutations(Mutexes)
=============================================================================
