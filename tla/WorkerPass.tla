----------------------------- MODULE WorkerPass -----------------------------
(***************************************************************************)
(* The worker with one history variable: the tasks a pass still owes a     *)
(* visit.  The delete path counts passes to know that every task of a dead *)
(* dysk was cancelled (__del_dysk_async, dysk_bdd.c:189), which is only    *)
(* worth anything if a pass visits every task that was on the list when it *)
(* began.                                                                  *)
(***************************************************************************)
EXTENDS Worker

VARIABLE due  \* states of the tasks the current pass has yet to visit

passVars == <<workerVars, due>>

InitPass == Init /\ due = {}

\* The pass begins owing every task, and pays when execute() acts on one.
Owe == CASE wpc = "pass"  -> due' = UsedStates
         [] wpc = "visit" -> due' = due \ {Current.state}
         [] OTHER         -> due' = due

NextPass ==
  \/ WorkerStep /\ Owe
  \/ (Stop \/ Environment) /\ due' = due

SpecPass == InitPass /\ [][NextPass]_passVars

\* A pass visits every task that was on the list when it began, whatever is
\* removed under the walk and appended behind it (work_thread_fn 160-163).
PassVisitsAll == wpc \in {"pass", "stopped"} => due = {}
=============================================================================
