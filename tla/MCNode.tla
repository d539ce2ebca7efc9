------------------------------- MODULE MCNode -------------------------------
(***************************************************************************)
(* TLC instance of ModuleLife and of NodeClient, which EXTENDS it.  A      *)
(* behaviour is the one of a node whose module is loaded, fails to load,   *)
(* goes and comes again, with every process that calls it; or of a node    *)
(* with a loaded module and the commands of the Go client.                 *)
(***************************************************************************)
EXTENDS NodeClient

VARIABLE clients  \* whether the processes are commands of the Go client

LoadingInit ==
  /\ clients = FALSE
  /\ LifeInit
  /\ lease = 0 /\ issued = 0 /\ others = {}
  /\ cmd = [p \in Callers |-> NoCommand]
  /\ def = [d \in Dysks |-> NoDef]

ClientInit == clients = TRUE /\ NodeInit

InstanceNext ==
  \/ ~clients /\ LifeNext /\ UNCHANGED <<clients, clientVars>>
  \/ clients /\ NodeNext /\ UNCHANGED clients

InstanceSpec ==
  /\ LoadingInit \/ ClientInit
  /\ [][InstanceNext]_<<clients, nodeVars>>
  /\ LifeFairness
  /\ \A d \in Dysks : WF_nodeVars(StaleIo(d))
=============================================================================
