--------------------------- MODULE MCDyskBddLive ----------------------------
(***************************************************************************)
(* DyskBdd with one process, and the worker's thread scheduled.  The races *)
(* of two processes are MCDyskBdd's: all that is left is the race of the   *)
(* process with the failure of a dysk.                                     *)
(*                                                                         *)
(* Two history variables: whether a dysk ever failed, and the dysks that   *)
(* failed between add_disk() and list_add().                               *)
(***************************************************************************)
EXTENDS DyskBdd

VARIABLES someFailed, early

liveVars == <<vars, someFailed, early>>

Adding(d) == \E p \in Callers : ioctl[p].pc = "add" /\ ioctl[p].d = d

LiveInit == BddInit /\ someFailed = FALSE /\ early = {}

LiveWorker ==
  /\ BddWorker
  /\ LET fails == wpc = "exec" /\ wpc' = "catastrophe" IN
     /\ someFailed' = (someFailed \/ fails)
     /\ early' = IF fails /\ Adding(Current.d) THEN early \cup {Current.d} ELSE early

\* The memory of an object that is allocated anew is another dysk.
LiveEnvironment ==
  /\ (\E p \in Callers : Caller(p)) \/ Requests \/ Clock
  /\ early' = {d \in early : obj'[d].alloc => obj[d].alloc}
  /\ UNCHANGED someFailed

FairBddSpec ==
  LiveInit /\ [][LiveWorker \/ LiveEnvironment]_liveVars /\ WF_liveVars(LiveWorker)

-----------------------------------------------------------------------------
\* The worker is stuck: in blk_cleanup_queue(), which waits for a request that
\* only the worker could end, or queueing a delete task, when its own tasks
\* hold the last memory.
Stuck ==
  \/ \E s \in States : dels[s].draining /\ obj[dels[s].d].out > 0
  \/ ioctl[Kthread].pc = "queue" /\ Len(queue) = MaxTasks

\* A deletion is finished: once its delete task is on the list the dysk is
\* freed, unless the worker gets stuck, the kernel is in trouble, or the head
\* is marked and the task cancelled (__del_dysk_async 187-200, execute 82, 112).
DeletedIsFreed ==
  \A d \in Objects :
    (DeleteTasks(d) # {})
      ~> (~obj[d].alloc \/ Stuck \/ oops # "none" \/ status[HeadDysk] # "OK")

\* Once a dysk is marked, every task it has is dropped, the head's delete
\* tasks included (execute 82-89): a dead dysk's task, which
\* blk_cleanup_queue() would then wait for, does not stay on the list.
MarkedTasksDrain ==
  \A s \in States :
    (\E i \in 1..Len(queue) : queue[i].state = s /\ status[queue[i].d] # "OK")
      ~> (Stuck \/ oops # "none" \/ s \notin UsedStates)

\* One process alone never uses or unlinks a dysk that is gone, however it
\* mounts, unmounts and looks; it takes the failure of a dysk, which deletes
\* under the process's feet (dysk_mount 509, dysk_get, dysk_catastrophe 842).
MisuseNeedsFailure == oops # "none" => someFailed

\* A failed dysk that can still be found is about to be deleted by the thread
\* that failed it -- which deletes by name, and finds it -- except one that
\* failed before its mount listed it: nobody deletes that one, until somebody
\* unmounts it (dysk_catastrophe 842-858, dysk_add 272-280).
FailedIsBeingDeleted ==
  \A d \in Objects \ early :
    (oops = "none" /\ Listed(d) /\ status[d] = "CATASTROPHE")
      => \/ ioctl[Kthread].pc = "find" /\ ioctl[Kthread].name = obj[d].name
         \/ ioctl[Kthread].pc \in {"mark", "unlink"} /\ ioctl[Kthread].d = d
=============================================================================
