------------------------------- MODULE Worker -------------------------------
(***************************************************************************)
(* The dysk worker (module/dysk_worker.c): one kernel thread that loops    *)
(* over a linked list of tasks for every dysk of the node.  The thread     *)
(* walks the list with a cached `next' pointer while other processors      *)
(* append to its tail; what it does with a task depends on the status and  *)
(* the throttling of the task's dysk, on the value the task's function     *)
(* returned and on the clock.                                              *)
(*                                                                         *)
(* Here a task's function may return anything.  AzTransfer and DyskBdd     *)
(* extend this module and say what the functions of the transfer library   *)
(* and of the delete path do; every step they take is a step of Next.      *)
(***************************************************************************)
EXTENDS Naturals, Sequences, SequencesExt

CONSTANTS
  Dysks,            \* dysk objects a task can belong to
  Fns,              \* task functions (w_task.exec_fn)
  States,           \* task states (w_task.state), each owned by one task
  Timeout,          \* W_TASK_TIMEOUT, in ticks
  ThrottleDefault,  \* DYSK_THROTTLE_DEFAULT, in ticks
  MaxJiffies,       \* bound: the clock stops here
  MaxTasks          \* bound: length of the task list

ASSUME ParametersAssumption ==
  /\ Timeout \in Nat \ {0}
  /\ ThrottleDefault \in Nat \ {0}
  /\ MaxJiffies \in Nat
  /\ MaxTasks \in Nat

VARIABLES
  queue,          \* dw->head->list
  pos,            \* the element the walk is at, 0 at the list head
  more,           \* the cached `next' of list_for_each_entry_safe is an element
  wpc,            \* where the worker thread is
  execCount,      \* execute(): times the current task ran in this visit
  status,         \* dysk->status
  throttle_until, \* dysk->throttle_until, 0 when not throttled
  jiffies

walk       == <<pos, more, wpc, execCount>>
workerVars == <<queue, walk, status, throttle_until, jiffies>>

max_retry_now_count == 3

Modes    == {"normal", "no_throttle"}
Statuses == {"OK", "DELETING", "CATASTROPHE"}

\* The task results that keep the task (task_result).
Retries == {"retry_now", "retry_later"}

Task == [fn : Fns, state : States, d : Dysks, mode : Modes, expires_on : Nat]

\* The places the thread can be in: between two passes, about to look at a
\* task, in the retry loop, past it, inside dysk_catastrophe(), gone.
Places == {"pass", "visit", "exec", "expiry", "catastrophe", "stopped"}

Current    == queue[pos]
QueuedBy(d) == {i \in 1..Len(queue) : queue[i].d = d}
UsedStates == {queue[i].state : i \in 1..Len(queue)}

time_after(a, b) == a > b

(***************************************************************************)
(* queue_w_task: a child inherits the deadline of its parent, a task with  *)
(* no parent gets a fresh one.                                             *)
(***************************************************************************)
NewTask(f, s, d, m) ==
  [fn |-> f, state |-> s, d |-> d, mode |-> m, expires_on |-> jiffies + Timeout]

FreshDeadlineChild(f, s, m) == NewTask(f, s, Current.d, m)

ChildTask(f, s, m) ==
  [fn |-> f, state |-> s, d |-> Current.d, mode |-> m,
   expires_on |-> Current.expires_on]

-----------------------------------------------------------------------------
(***************************************************************************)
(* The walk.  `next' was cached when the walk reached the current task, so *)
(* a task appended while the last one is looked at waits for the next      *)
(* pass.  GoTo(p) moves to the cached `next', which is at index p of       *)
(* queue'.                                                                 *)
(***************************************************************************)
GoToSkippingOne(p) ==
  /\ pos' = IF more /\ p < Len(queue') THEN p + 1 ELSE 0
  /\ more' = (pos' # 0 /\ pos' < Len(queue'))
  /\ wpc' = IF pos' # 0 THEN "visit" ELSE "pass"
  /\ execCount' = 0

GoToStaleNext(p) ==
  /\ pos' = IF more THEN p ELSE 0
  /\ more' = more
  /\ wpc' = IF more THEN "visit" ELSE "pass"
  /\ execCount' = 0

GoTo(p) ==
  /\ pos' = IF more THEN p ELSE 0
  /\ more' = (more /\ p < Len(queue'))
  /\ wpc' = IF more THEN "visit" ELSE "pass"
  /\ execCount' = 0

\* execute() returned and left the task on the list.
Keep == queue' = queue /\ GoTo(pos + 1)

\* The label dequeue_task, when the task left the list as q; its clean_fn
\* runs in the same step.
Dequeue(q) == queue' = RemoveAt(q, pos) /\ GoTo(pos)

\* list_for_each_entry_safe reaches its first element.
BeginPass ==
  /\ wpc = "pass"
  /\ queue # <<>>
  /\ pos' = 1
  /\ more' = (Len(queue) > 1)
  /\ wpc' = "visit"
  /\ UNCHANGED <<queue, execCount, status, throttle_until, jiffies>>

\* No work: the thread yields and looks again.
Yield ==
  /\ wpc = "pass"
  /\ queue = <<>>
  /\ UNCHANGED workerVars

\* kthread_should_stop() is true at the top of the loop (dysk_worker_teardown).
Stop ==
  /\ wpc = "pass"
  /\ wpc' = "stopped"
  /\ UNCHANGED <<queue, pos, more, execCount, status, throttle_until, jiffies>>

-----------------------------------------------------------------------------
(***************************************************************************)
(* execute(): the checks before the loop.                                  *)
(***************************************************************************)
ThrottleOver(d) == throttle_until[d] # 0 /\ time_after(jiffies, throttle_until[d])
Throttled(d)    == throttle_until[d] # 0 /\ ~time_after(jiffies, throttle_until[d])

CancelReturning ==
  /\ wpc = "visit"
  /\ status[Current.d] # "OK"
  /\ Keep
  /\ UNCHANGED <<status, throttle_until, jiffies>>

\* The dysk is being deleted or failed: the task is dropped, not run.
Cancel ==
  /\ wpc = "visit"
  /\ status[Current.d] # "OK"
  /\ Dequeue(queue)
  /\ UNCHANGED <<status, throttle_until, jiffies>>

\* The dysk is throttled: the task stays, its deadline is not looked at.
SkipThrottled ==
  /\ wpc = "visit"
  /\ status[Current.d] = "OK"
  /\ Throttled(Current.d)
  /\ Current.mode # "no_throttle"
  /\ Keep
  /\ UNCHANGED <<status, throttle_until, jiffies>>

StartExecIgnoringMode ==
  /\ wpc = "visit"
  /\ status[Current.d] = "OK"
  /\ wpc' = "exec"
  /\ UNCHANGED <<queue, pos, more, execCount, status, throttle_until, jiffies>>

StartExec ==
  /\ wpc = "visit"
  /\ status[Current.d] = "OK"
  /\ Current.mode = "no_throttle" \/ ~Throttled(Current.d)
  /\ wpc' = "exec"
  /\ throttle_until' =
       IF ThrottleOver(Current.d) THEN [throttle_until EXCEPT ![Current.d] = 0]
                                  ELSE throttle_until
  /\ UNCHANGED <<queue, pos, more, execCount, status, jiffies>>

-----------------------------------------------------------------------------
(***************************************************************************)
(* execute(): the retry loop.  One step runs exec_fn once, with what it    *)
(* did to the list, and acts on the value it returned.  kids is what it    *)
(* queued: nothing, or one task.                                           *)
(***************************************************************************)
ExecRetryOneMore(r) ==
  /\ wpc = "exec"
  /\ r \in Retries
  /\ execCount' = execCount + 1
  /\ wpc' = IF execCount' <= max_retry_now_count THEN "exec" ELSE "expiry"
  /\ UNCHANGED <<queue, pos, more, status, throttle_until, jiffies>>

\* Both retries run the loop again: the `break' of retry_later only leaves
\* the switch, so r makes no difference.
ExecRetry(r) ==
  /\ wpc = "exec"
  /\ r \in Retries
  /\ execCount' = execCount + 1
  /\ wpc' = IF execCount' < max_retry_now_count THEN "exec" ELSE "expiry"
  /\ UNCHANGED <<queue, pos, more, status, throttle_until, jiffies>>

ExecDone(kids) ==
  /\ wpc = "exec"
  /\ Dequeue(queue \o kids)
  /\ UNCHANGED <<status, throttle_until, jiffies>>

ExecThrottle(kids) ==
  /\ wpc = "exec"
  /\ throttle_until' =
       IF throttle_until[Current.d] = 0
         THEN [throttle_until EXCEPT ![Current.d] = jiffies + ThrottleDefault]
         ELSE throttle_until
  /\ Dequeue(queue \o kids)
  /\ UNCHANGED <<status, jiffies>>

\* The function returned catastrophe: dysk_catastrophe() marks the dysk and
\* deletes it, and the task is dropped once it returns.
ExecCatastrophe ==
  /\ wpc = "exec"
  /\ status' = [status EXCEPT ![Current.d] = "CATASTROPHE"]
  /\ wpc' = "catastrophe"
  /\ UNCHANGED <<queue, pos, more, execCount, throttle_until, jiffies>>

CatastropheReturn ==
  /\ wpc = "catastrophe"
  /\ Dequeue(queue)
  /\ UNCHANGED <<status, throttle_until, jiffies>>

\* Past the loop: time the task out, or leave it for the next pass.
Expire ==
  /\ wpc = "expiry"
  /\ time_after(jiffies, Current.expires_on)
  /\ Dequeue(queue)
  /\ UNCHANGED <<status, throttle_until, jiffies>>

Stay ==
  /\ wpc = "expiry"
  /\ ~time_after(jiffies, Current.expires_on)
  /\ Keep
  /\ UNCHANGED <<status, throttle_until, jiffies>>

-----------------------------------------------------------------------------
(***************************************************************************)
(* What the rest of the module does to the worker's state, at any time and *)
(* from any processor.                                                     *)
(***************************************************************************)
\* queue_w_task(NULL, ...): list_add_tail under the worker's lock.
queue_w_task(f, s, d, m) ==
  /\ Len(queue) < MaxTasks
  /\ s \notin UsedStates
  /\ queue' = Append(queue, NewTask(f, s, d, m))
  /\ UNCHANGED <<walk, status, throttle_until, jiffies>>

\* dysk_del() marks a dysk, whatever its status was.
MarkDeleting(d) ==
  /\ status' = [status EXCEPT ![d] = "DELETING"]
  /\ UNCHANGED <<queue, walk, throttle_until, jiffies>>

\* The object of a deleted dysk, with no task left, is used by a new mount.
Renew(d) ==
  /\ status[d] # "OK"
  /\ QueuedBy(d) = {}
  /\ status' = [status EXCEPT ![d] = "OK"]
  /\ throttle_until' = [throttle_until EXCEPT ![d] = 0]
  /\ UNCHANGED <<queue, walk, jiffies>>

Tick ==
  /\ jiffies < MaxJiffies
  /\ jiffies' = jiffies + 1
  /\ UNCHANGED <<queue, walk, status, throttle_until>>

-----------------------------------------------------------------------------
\* dysk_worker_init, with every dysk healthy.
Init ==
  /\ queue = <<>>
  /\ pos = 0
  /\ more = FALSE
  /\ wpc = "pass"
  /\ execCount = 0
  /\ status = [d \in Dysks |-> "OK"]
  /\ throttle_until = [d \in Dysks |-> 0]
  /\ jiffies = 1

\* A function may queue its own state again, never one another task owns.
KidsOf(t) ==
  {<<>>} \cup
  {<<ChildTask(f, s, m)>> :
     f \in Fns, s \in (States \ UsedStates) \cup {t.state}, m \in Modes}

ExecStep ==
  \/ \E r \in Retries : ExecRetry(r)
  \/ /\ wpc = "exec"
     /\ \E kids \in KidsOf(Current) : ExecDone(kids) \/ ExecThrottle(kids)
  \/ ExecCatastrophe

WorkerStep ==
  \/ BeginPass \/ Yield
  \/ Cancel \/ SkipThrottled \/ StartExec
  \/ ExecStep
  \/ CatastropheReturn
  \/ Expire \/ Stay

Environment ==
  \/ \E f \in Fns, s \in States, d \in Dysks, m \in Modes : queue_w_task(f, s, d, m)
  \/ \E d \in Dysks : MarkDeleting(d) \/ Renew(d)
  \/ Tick

Next == WorkerStep \/ Stop \/ Environment

Spec == Init /\ [][Next]_workerVars

-----------------------------------------------------------------------------
(***************************************************************************)
(* Properties                                                              *)
(***************************************************************************)
\* The type of every variable, with the worker's cursor: outside a pass it
\* is at the list head, inside one it is at an element, and the cached
\* `next' is an element only when one follows (work_thread_fn 160-163).
TypeOK ==
  /\ queue \in Seq(Task)
  /\ pos \in Nat
  /\ more \in BOOLEAN
  /\ wpc \in Places
  /\ execCount \in 0..max_retry_now_count
  /\ status \in [Dysks -> Statuses]
  /\ throttle_until \in [Dysks -> Nat]
  /\ jiffies \in Nat

\* The walk never leaves the list while other processors append to it and
\* tasks are removed under it (list_for_each_entry_safe + list_del, 140-163).
CursorOnTask ==
  /\ (wpc \in {"pass", "stopped"}) <=> (pos = 0)
  /\ pos <= Len(queue)
  /\ more => pos < Len(queue)

Deadlines(q) == {q[i].expires_on : i \in 1..Len(q)}

\* Retries and the tasks a task queues never buy time: what the worker does
\* with a task leaves on the list only deadlines that were there before, so
\* the chain a request starts dies with the request's own deadline
\* (queue_w_task 58).
RetriesKeepDeadline ==
  [][Len(queue') <= Len(queue) => Deadlines(queue') \subseteq Deadlines(queue)]_workerVars

\* While a healthy dysk is throttled, its normal tasks are neither run nor
\* dropped, whatever their deadline says (execute 92-99): each is still on
\* the list after every step of every thread.
ThrottledTasksWait ==
  [][\A i \in 1..Len(queue) :
       LET t == queue[i] IN
       (t.mode = "normal" /\ status[t.d] = "OK" /\ Throttled(t.d))
         => \E j \in 1..Len(queue') : queue'[j] = t]_workerVars
=============================================================================
