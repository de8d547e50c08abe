-------------------------------- MODULE MCFtl --------------------------------
(***************************************************************************)
(* Workloads for Ftl on blocks of four pages: single pages, pages in and   *)
(* out of sequence, whole blocks, and ranges over a block's end.           *)
(***************************************************************************)
EXTENDS Ftl

AllWrites == {<<0, 1>>, <<3, 1>>, <<1, 2>>, <<0, 4>>, <<2, 4>>,
              <<4, 3>>, <<5, 1>>, <<8, 4>>, <<9, 1>>}
FewWrites == {<<0, 1>>, <<1, 2>>, <<0, 4>>, <<9, 1>>}

Calls == [writes |-> AllWrites, maxWrites |-> 4, maxCuts |-> 0,
          tearing |-> FALSE, repairCuts |-> FALSE]
Cuts == [writes |-> FewWrites, maxWrites |-> 3, maxCuts |-> 2,
         tearing |-> TRUE, repairCuts |-> TRUE]
OneCut == [writes |-> AllWrites, maxWrites |-> 2, maxCuts |-> 1,
           tearing |-> FALSE, repairCuts |-> FALSE]
Reboots == [writes |-> FewWrites, maxWrites |-> 2, maxCuts |-> 2,
            tearing |-> FALSE, repairCuts |-> FALSE]

CallsAndCuts == {Calls, Cuts}
OnlyOneCut == {OneCut}
OnlyReboots == {Reboots}
=============================================================================
