------------------------------ MODULE DyskBdd -------------------------------
(***************************************************************************)
(* The life cycle of dysks (module/dysk_bdd.c) on top of the worker: any   *)
(* number of processes mount, unmount and look at dysks through the        *)
(* endpoint, which takes no lock, while the worker's thread deletes a dysk *)
(* that failed and runs the second half of every deletion.                 *)
(*                                                                         *)
(* A request is only what the deletion sees of it: outstanding in the      *)
(* block layer, carried by a send or by a receive task whose outcome is    *)
(* free.  AzTransfer says what happens inside.                             *)
(*                                                                         *)
(* A step that would use freed memory or unlink an element that is not     *)
(* linked sets `oops', and nothing happens after it.                       *)
(***************************************************************************)
EXTENDS Worker, Integers, FiniteSets

CONSTANTS
  HeadDysk,   \* dysks.head, the dummy dysk the delete tasks belong to
  Callers,    \* processes inside an ioctl
  Kthread,    \* the worker's thread, inside dysk_catastrophe()
  Names,      \* device names
  None,
  MAX_DYSKS,
  SLOT_BITS,  \* bits in dysks.dysks_slots: 512, half of MAX_DYSKS
  MaxRequests \* bound: requests of one dysk the block layer waits for

Objects == Dysks \ {HeadDysk}       \* memory a dysk can live in
Threads == Callers \cup {Kthread}

ASSUME BddParametersAssumption ==
  /\ HeadDysk \in Dysks
  /\ Kthread \notin Callers
  /\ None \notin Names \cup Dysks
  /\ MAX_DYSKS \in Nat \ {0}
  /\ SLOT_BITS \in Nat
  /\ MaxRequests \in Nat
  /\ Fns = {"send", "recv", "del"}

VARIABLES
  list,    \* dysks.head.list, the newest dysk first
  busy,    \* the bits set in dysks.dysks_slots
  scount,  \* dysks.count
  obj,     \* what is known of each object: see Object
  peeked,  \* dysks whose io_request() found a request and saw the status OK
  ioctl,   \* where each thread is: see Thread
  dels,    \* what the state of a delete task holds: see DelState
  oops     \* what went wrong, once something did

bddVars == <<list, busy, scount, obj, peeked, ioctl, dels>>
vars    == <<workerVars, bddVars, oops>>

\* hooked: it has a slot and a queue; out: requests of the dysk the block layer waits for.
Object ==
  [alloc : BOOLEAN, name : Names \cup {None}, slot : Int, hooked : BOOLEAN,
   out : 0..MaxRequests]

Thread ==
  [pc : {"idle", "hook", "add", "reply", "find", "mark", "unlink", "queue", "done", "get"},
   name : Names \cup {None}, d : Dysks \cup {None}]

\* A __dyskdelstate; draining: inside blk_cleanup_queue().
DelState == [counter : 0..3, d : Dysks \cup {None}, draining : BOOLEAN]

Blank  == [alloc |-> FALSE, name |-> None, slot |-> -1, hooked |-> FALSE,
           out |-> 0]
Idle   == [pc |-> "idle", name |-> None, d |-> None]
NoDel  == [counter |-> 0, d |-> None, draining |-> FALSE]

Listed(d) == \E i \in 1..Len(list) : list[i] = d

\* dysk_exist: the first on the list with the name.
dysk_exist(n) ==
  LET at == {i \in 1..Len(list) : obj[list[i]].name = n} IN
  IF at = {} THEN None ELSE list[CHOOSE i \in at : \A j \in at : i <= j]

Goes(p, pc)   == ioctl' = [ioctl EXCEPT ![p].pc = pc]
Leaves(p)     == ioctl' = [ioctl EXCEPT ![p] = Idle]
Quiet         == oops = "none" /\ UNCHANGED oops
Breaks(why)   == /\ oops = "none" /\ oops' = why
                 /\ UNCHANGED <<workerVars, list, busy, scount, obj, peeked, ioctl, dels>>

-----------------------------------------------------------------------------
(***************************************************************************)
(* dysk_mount and dysk_add.                                                *)
(***************************************************************************)
\* The object is allocated, zeroed and named; no dysk has the name yet.
MountStart(p, d, n) ==
  /\ Quiet
  /\ ioctl[p].pc = "idle"
  /\ ~obj[d].alloc
  /\ dysk_exist(n) = None
  /\ IF status[d] = "OK" THEN UNCHANGED workerVars ELSE Renew(d)
  /\ obj' = [obj EXCEPT ![d] = [Blank EXCEPT !.alloc = TRUE, !.name = n]]
  /\ ioctl' = [ioctl EXCEPT ![p] = [pc |-> "hook", name |-> n, d |-> d]]
  /\ UNCHANGED <<list, busy, scount, peeked, dels>>

\* find_set_dysk_slots: the first clear bit, MAX_DYSKS when all are set.
FreeSlots == (0..(MAX_DYSKS - 1)) \ busy
FirstFree == IF FreeSlots = {} THEN MAX_DYSKS
             ELSE CHOOSE s \in FreeSlots : \A t \in FreeSlots : s <= t

SlotFullIgnored == FALSE

SlotFull == scount = MAX_DYSKS

\* The bit is set in the array, or past it, where dysks.head.status follows.
TakeSlot ==
  /\ busy' = busy \cup {FirstFree}
  /\ scount' = scount + 1
  /\ IF FirstFree < SLOT_BITS THEN UNCHANGED workerVars ELSE MarkDeleting(HeadDysk)

\* io_hook: a slot, a queue and a disk, which takes requests at once.
MountHook(p) ==
  /\ Quiet
  /\ ioctl[p].pc = "hook"
  /\ ~SlotFull
  /\ TakeSlot
  /\ obj' = [obj EXCEPT ![ioctl[p].d].slot = FirstFree, ![ioctl[p].d].hooked = TRUE]
  /\ Goes(p, "add")
  /\ UNCHANGED <<list, peeked, dels>>

\* az_init_for_dysk fails, or io_hook does: at the maximum, or without memory
\* for the queue or the disk, which leaves the slot taken.  The mount frees
\* the object.
MountFails(p) ==
  /\ Quiet
  /\ ioctl[p].pc = "hook"
  /\ \/ UNCHANGED <<workerVars, busy, scount>>
     \/ ~SlotFull /\ TakeSlot
  /\ obj' = [obj EXCEPT ![ioctl[p].d] = Blank]
  /\ Leaves(p)
  /\ UNCHANGED <<list, peeked, dels>>

\* list_add, after add_disk() returned.
MountAdd(p) ==
  /\ Quiet
  /\ ioctl[p].pc = "add"
  /\ list' = <<ioctl[p].d>> \o list
  /\ Goes(p, "reply")
  /\ UNCHANGED <<workerVars, busy, scount, obj, peeked, dels>>

\* dysk_def_to_buffer(d->def), of a dysk that anybody may have deleted; the
\* same for dysk_get.
Reply(p) ==
  /\ ioctl[p].pc \in {"reply", "get"}
  /\ IF obj[ioctl[p].d].alloc
       THEN Quiet /\ Leaves(p) /\ UNCHANGED <<workerVars, list, busy, scount, obj, peeked, dels>>
       ELSE Breaks("freed")

-----------------------------------------------------------------------------
(***************************************************************************)
(* dysk_unmount, dysk_get and dysk_del.  The thread of the worker enters   *)
(* dysk_del from dysk_catastrophe() with the name of its dysk.             *)
(***************************************************************************)
Unmount(p, n) ==
  /\ Quiet
  /\ ioctl[p].pc = "idle"
  /\ ioctl' = [ioctl EXCEPT ![p] = [pc |-> "find", name |-> n, d |-> None]]
  /\ UNCHANGED <<workerVars, list, busy, scount, obj, peeked, dels>>

DyskGet(p, n) ==
  /\ Quiet
  /\ ioctl[p].pc = "idle"
  /\ dysk_exist(n) # None
  /\ ioctl' = [ioctl EXCEPT ![p] = [pc |-> "get", name |-> n, d |-> dysk_exist(n)]]
  /\ UNCHANGED <<workerVars, list, busy, scount, obj, peeked, dels>>

DelGivesUpWithoutMemory(p) ==
  /\ Quiet
  /\ ioctl[p].pc = "find"
  /\ IF p = Kthread THEN Goes(p, "done") ELSE Leaves(p)
  /\ UNCHANGED <<workerVars, list, busy, scount, obj, peeked, dels>>

\* Nobody has the name, or a caller has no memory for the state (the worker
\* tries again).
DelGivesUp(p) ==
  /\ Quiet
  /\ ioctl[p].pc = "find"
  /\ dysk_exist(ioctl[p].name) = None \/ p # Kthread
  /\ IF p = Kthread THEN Goes(p, "done") ELSE Leaves(p)
  /\ UNCHANGED <<workerVars, list, busy, scount, obj, peeked, dels>>

DelFind(p) ==
  /\ Quiet
  /\ ioctl[p].pc = "find"
  /\ dysk_exist(ioctl[p].name) # None
  /\ ioctl' = [ioctl EXCEPT ![p].pc = "mark", ![p].d = dysk_exist(ioctl[p].name)]
  /\ UNCHANGED <<workerVars, list, busy, scount, obj, peeked, dels>>

DelMarkWithoutUnlink(p) ==
  /\ ioctl[p].pc = "mark"
  /\ IF obj[ioctl[p].d].alloc
       THEN /\ Quiet
            /\ MarkDeleting(ioctl[p].d)
            /\ Goes(p, "queue")
            /\ UNCHANGED <<list, busy, scount, obj, peeked, dels>>
       ELSE Breaks("deleted twice")

\* d->status = DYSK_DELETING, del_gendisk().
DelMark(p) ==
  /\ ioctl[p].pc = "mark"
  /\ IF obj[ioctl[p].d].alloc
       THEN /\ Quiet
            /\ MarkDeleting(ioctl[p].d)
            /\ Goes(p, "unlink")
            /\ UNCHANGED <<list, busy, scount, obj, peeked, dels>>
       ELSE Breaks("deleted twice")

DelUnlink(p) ==
  /\ ioctl[p].pc = "unlink"
  /\ IF Listed(ioctl[p].d)
       THEN /\ Quiet
            /\ \E i \in 1..Len(list) : list[i] = ioctl[p].d /\ list' = RemoveAt(list, i)
            /\ Goes(p, "queue")
            /\ UNCHANGED <<workerVars, busy, scount, obj, peeked, dels>>
       ELSE Breaks("deleted twice")

DelQueueInFront(p, s) ==
  /\ Quiet
  /\ ioctl[p].pc = "queue"
  /\ Len(queue) < MaxTasks
  /\ s \notin UsedStates
  /\ queue' = <<NewTask("del", s, HeadDysk, "no_throttle")>> \o queue
  /\ dels' = [dels EXCEPT ![s] = [NoDel EXCEPT !.d = ioctl[p].d]]
  /\ IF p = Kthread THEN Goes(p, "done") ELSE Leaves(p)
  /\ UNCHANGED <<walk, status, throttle_until, jiffies, list, busy, scount, obj, peeked>>

DelQueueOnce(p, s) ==
  /\ Quiet
  /\ ioctl[p].pc = "queue"
  /\ IF Len(queue) = MaxTasks
       THEN UNCHANGED <<workerVars, dels>>
       ELSE /\ queue_w_task("del", s, HeadDysk, "no_throttle")
            /\ dels' = [dels EXCEPT ![s] = [NoDel EXCEPT !.d = ioctl[p].d]]
  /\ IF p = Kthread THEN Goes(p, "done") ELSE Leaves(p)
  /\ UNCHANGED <<list, busy, scount, obj, peeked>>

\* queue_w_task with the head as the dysk, until there is memory for it.
DelQueue(p, s) ==
  /\ Quiet
  /\ ioctl[p].pc = "queue"
  /\ queue_w_task("del", s, HeadDysk, "no_throttle")
  /\ dels' = [dels EXCEPT ![s] = [NoDel EXCEPT !.d = ioctl[p].d]]
  /\ IF p = Kthread THEN Goes(p, "done") ELSE Leaves(p)
  /\ UNCHANGED <<list, busy, scount, obj, peeked>>

-----------------------------------------------------------------------------
(***************************************************************************)
(* __del_dysk_async, the second half of a deletion.                        *)
(***************************************************************************)
Deleting == wpc = "exec" /\ Current.fn = "del"
Runs     == dels[Current.state].counter + 1

DelAgainForever ==
  /\ Quiet
  /\ Deleting
  /\ Runs <= 2
  /\ ExecRetry("retry_later")
  /\ UNCHANGED <<list, busy, scount, obj, peeked, ioctl, dels>>

\* "2 passes": the task asks for another run.
DelAgain ==
  /\ Quiet
  /\ Deleting
  /\ Runs <= 2
  /\ dels' = [dels EXCEPT ![Current.state].counter = Runs]
  /\ ExecRetry("retry_later")
  /\ UNCHANGED <<list, busy, scount, obj, peeked, ioctl>>

DelTeardownKeepingCount ==
  LET d == dels[Current.state].d IN
  /\ Quiet
  /\ Deleting
  /\ Runs > 2 /\ ~dels[Current.state].draining
  /\ obj' = [obj EXCEPT ![d].hooked = FALSE]
  /\ busy' = busy \ {obj[d].slot}
  /\ dels' = [dels EXCEPT ![Current.state] = [@ EXCEPT !.counter = Runs, !.draining = TRUE]]
  /\ UNCHANGED <<workerVars, list, scount, peeked, ioctl>>

\* az_teardown_for_dysk, and the slot is given back.
DelTeardown ==
  LET d == dels[Current.state].d IN
  /\ Quiet
  /\ Deleting
  /\ Runs > 2 /\ ~dels[Current.state].draining
  /\ obj' = [obj EXCEPT ![d].hooked = FALSE]
  /\ busy' = busy \ {obj[d].slot}
  /\ scount' = scount - 1
  /\ dels' = [dels EXCEPT ![Current.state] = [@ EXCEPT !.counter = Runs, !.draining = TRUE]]
  /\ UNCHANGED <<workerVars, list, peeked, ioctl>>

FreeNow(d) ==
  /\ obj' = [obj EXCEPT ![d] = Blank]
  /\ dels' = [dels EXCEPT ![Current.state] = NoDel]
  /\ ExecDone(<<>>)

DelFreeUndrained ==
  /\ Quiet
  /\ Deleting
  /\ dels[Current.state].draining
  /\ FreeNow(dels[Current.state].d)
  /\ UNCHANGED <<list, busy, scount, peeked, ioctl>>

\* blk_cleanup_queue() returns when the block layer waits for no request of
\* the dysk any more; only then is it freed.
DelFree ==
  /\ Quiet
  /\ Deleting
  /\ dels[Current.state].draining
  /\ obj[dels[Current.state].d].out = 0
  /\ FreeNow(dels[Current.state].d)
  /\ UNCHANGED <<list, busy, scount, peeked, ioctl>>

-----------------------------------------------------------------------------
(***************************************************************************)
(* Requests, as far as a deletion sees them.                               *)
(***************************************************************************)
Ends(d) == obj' = [obj EXCEPT ![d].out = @ - 1]

\* io_request() peeks at a request and sees the status OK.
Submit(d) ==
  /\ Quiet
  /\ obj[d].hooked
  /\ obj[d].out < MaxRequests
  /\ status[d] = "OK"
  /\ d \notin peeked
  /\ peeked' = peeked \cup {d}
  /\ obj' = [obj EXCEPT ![d].out = @ + 1]
  /\ UNCHANGED <<workerVars, list, busy, scount, ioctl, dels>>

\* az_do_request(): the task is queued, whatever became of the dysk.
Enqueue(d, s) ==
  /\ Quiet
  /\ d \in peeked
  /\ queue_w_task("send", s, d, "normal")
  /\ peeked' = peeked \ {d}
  /\ UNCHANGED <<list, busy, scount, obj, ioctl, dels>>

Transferring == wpc = "exec" /\ Current.fn \in {"send", "recv"}

\* A call of a task function: try again, carry on by a new task, or end.
TransferRetry ==
  /\ Quiet
  /\ Transferring
  /\ \E r \in Retries : ExecRetry(r)
  /\ UNCHANGED bddVars

TransferGoesOn ==
  /\ Quiet
  /\ Transferring
  /\ \E s \in (States \ UsedStates) \cup {Current.state} :
       \/ Current.fn = "send" /\ ExecDone(<<ChildTask("recv", s, "no_throttle")>>)
       \/ ExecDone(<<ChildTask("send", s, "normal")>>)
       \/ Current.fn = "recv" /\ ExecThrottle(<<ChildTask("send", s, "normal")>>)
  /\ UNCHANGED bddVars

TransferEnds ==
  /\ Quiet
  /\ Transferring
  /\ Current.fn = "recv"
  /\ ExecDone(<<>>)
  /\ Ends(Current.d)
  /\ UNCHANGED <<list, busy, scount, peeked, ioctl, dels>>

\* The dysk fails: dysk_catastrophe() marks it and deletes by its name.
TransferFails ==
  /\ Quiet
  /\ Transferring
  /\ ExecCatastrophe
  /\ ioctl' = [ioctl EXCEPT ![Kthread] = [pc |-> "find", name |-> obj[Current.d].name, d |-> None]]
  /\ UNCHANGED <<list, busy, scount, obj, peeked, dels>>

\* The clean-up of a receive task ends its request, that of a send task does
\* not; a delete task has the default one, which frees the task's state only.
CleanUp ==
  /\ IF Current.fn = "recv" THEN Ends(Current.d) ELSE UNCHANGED obj
  /\ dels' = [dels EXCEPT ![Current.state] = NoDel]

CatastropheOver ==
  /\ Quiet
  /\ ioctl[Kthread].pc = "done"
  /\ CatastropheReturn
  /\ Leaves(Kthread)
  /\ CleanUp
  /\ UNCHANGED <<list, busy, scount, peeked>>

Dropped ==
  /\ Quiet
  /\ Cancel \/ Expire
  /\ CleanUp
  /\ UNCHANGED <<list, busy, scount, peeked, ioctl>>

WorkerMoves ==
  Quiet /\ (BeginPass \/ Yield \/ SkipThrottled \/ StartExec \/ Stay) /\ UNCHANGED bddVars

-----------------------------------------------------------------------------
BddInit ==
  /\ Init
  /\ list = <<>>
  /\ busy = {}
  /\ scount = -1
  /\ obj = [d \in Objects |-> Blank]
  /\ peeked = {}
  /\ ioctl = [p \in Threads |-> Idle]
  /\ dels = [s \in States |-> NoDel]
  /\ oops = "none"

DelPath(p) ==
  \/ DelGivesUp(p) \/ DelFind(p) \/ DelMark(p) \/ DelUnlink(p)
  \/ \E s \in States : DelQueue(p, s)

BddWorker ==
  \/ WorkerMoves \/ Dropped \/ CatastropheOver
  \/ DelAgain \/ DelTeardown \/ DelFree
  \/ TransferRetry \/ TransferGoesOn \/ TransferEnds \/ TransferFails
  \/ DelPath(Kthread)

Caller(p) ==
  \/ \E d \in Objects, n \in Names : MountStart(p, d, n)
  \/ MountHook(p) \/ MountFails(p) \/ MountAdd(p) \/ Reply(p)
  \/ \E n \in Names : Unmount(p, n) \/ DyskGet(p, n)
  \/ DelPath(p)

Requests == \E d \in Objects : Submit(d) \/ \E s \in States : Enqueue(d, s)

Clock == Quiet /\ Tick /\ UNCHANGED bddVars

BddNext == BddWorker \/ (\E p \in Callers : Caller(p)) \/ Requests \/ Clock

BddSpec == BddInit /\ [][BddNext]_vars

-----------------------------------------------------------------------------
(***************************************************************************)
(* Properties                                                              *)
(***************************************************************************)
\* The types, with what keeps a task's object usable: the place of every
\* thread and the state of every delete task.
BddTypeOK ==
  /\ TypeOK
  /\ list \in Seq(Objects)
  /\ busy \subseteq 0..MAX_DYSKS
  /\ scount \in -1..MAX_DYSKS
  /\ obj \in [Objects -> Object]
  /\ peeked \subseteq Objects
  /\ ioctl \in [Threads -> Thread]
  /\ dels \in [States -> DelState]
  /\ oops \in {"none", "freed", "deleted twice"}

DeleteTasks(d) == {i \in 1..Len(queue) : queue[i].fn = "del" /\ dels[queue[i].state].d = d}

\* A dysk that can be found by its name is a whole one: allocated, hooked,
\* once on the list and not yet given to a delete task, whoever raced to
\* mount, unmount or fail it (dysk_add 278-280, dysk_del 226-244).
ListedAreLive ==
  \A i \in 1..Len(list) :
    /\ obj[list[i]].alloc /\ obj[list[i]].hooked
    /\ DeleteTasks(list[i]) = {}
    /\ \A j \in 1..Len(list) : list[i] = list[j] => i = j

\* No two dysks share a slot, and the count follows the slots through
\* failed mounts and deletions (find_set_dysk_slots, free_dysk_slot).
SlotsAccounted ==
  /\ scount = Cardinality(busy) - 1
  /\ \A d \in Objects : obj[d].hooked => obj[d].slot \in busy
  /\ \A d, e \in Objects :
       (d # e /\ obj[d].hooked /\ obj[e].hooked) => obj[d].slot # obj[e].slot

\* No task outlives its dysk's memory, and a dysk is freed by one delete task
\* only: not because the delete task waits for two passes, it does not, but
\* because blk_cleanup_queue() waits for the request every task carries
\* (io_unhook 985, __del_dysk_async 199).
TasksOnLiveDysks ==
  /\ \A d \in Objects : QueuedBy(d) # {} => obj[d].alloc
  /\ \A d \in Objects : DeleteTasks(d) # {} => obj[d].alloc
  /\ \A d \in Objects : Cardinality(DeleteTasks(d)) <= 1

Mounting(d) == \E p \in Callers : ioctl[p].d = d /\ ioctl[p].pc \in {"hook", "add"}
InDeletion(d) ==
  \/ DeleteTasks(d) # {}
  \/ \E p \in Threads : ioctl[p].d = d /\ ioctl[p].pc = "queue"

\* Every dysk is in somebody's hands: on the list, being mounted, or in a
\* deletion that will free it, whatever failed on the way -- as long as the
\* head is healthy.  A slot past the array marks the head (find_set_dysk_slots
\* 140): then the worker cancels the delete tasks, and their dysks, slots and
\* disks are nobody's (dysk_del 240-245, execute 82).
NothingLeaks ==
  \A d \in Objects :
    obj[d].alloc => Listed(d) \/ Mounting(d) \/ InDeletion(d) \/ status[HeadDysk] # "OK"

\* The life cycle takes only steps the worker allows (module Worker).
ImplementsWorker == Spec

(***************************************************************************)
(* What the documentation says and the code does not do.                   *)
(***************************************************************************)
\* module/ioctl_cmds.md:24 "unique per all dysks and existing disks": no two
\* dysks on the list have one name.
NamesUnique ==
  \A i, j \in 1..Len(list) : obj[list[i]].name = obj[list[j]].name => i = j
=============================================================================
