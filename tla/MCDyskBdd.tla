----------------------------- MODULE MCDyskBdd ------------------------------
(***************************************************************************)
(* TLC instance of DyskBdd with two objects.  In a behaviour either both   *)
(* processes race, with each other and with a failing dysk, and the clock  *)
(* stands still; or one process does, and the clock passes throttles and   *)
(* deadlines.                                                              *)
(***************************************************************************)
EXTENDS DyskBdd, TLC

VARIABLE crew  \* the processes that call

CrewInit ==
  /\ BddInit
  /\ crew \in {Callers} \cup {{p} : p \in Callers}

CrewNext ==
  /\ \/ BddWorker
     \/ \E p \in crew : Caller(p)
     \/ Requests
     \/ Cardinality(crew) = 1 /\ Clock
  /\ UNCHANGED crew

CrewSpec == CrewInit /\ [][CrewNext]_<<vars, crew>>

Symmetric ==
  Permutations(Objects) \cup Permutations(Callers) \cup Permutations(States)
=============================================================================
