---------------------------- MODULE WorkerProofs ----------------------------
(***************************************************************************)
(* Proofs about Worker, for any dysks, tasks and bounds.                   *)
(***************************************************************************)
EXTENDS Worker, TLAPS, SequenceTheorems

(***************************************************************************)
(* What list_del at index i leaves.                                        *)
(***************************************************************************)
\* Removing one element keeps the others in order: those before it at their
\* index, those behind it one lower (list_del, dysk_worker.c:143).
LEMMA RemoveAtProperties ==
  ASSUME NEW S, NEW s \in Seq(S), NEW i \in 1..Len(s)
  PROVE  /\ RemoveAt(s, i) \in Seq(S)
         /\ Len(RemoveAt(s, i)) = Len(s) - 1
         /\ \A j \in 1..(Len(s) - 1) :
              RemoveAt(s, i)[j] = IF j < i THEN s[j] ELSE s[j + 1]
<1> DEFINE a == SubSeq(s, 1, i - 1)
           b == SubSeq(s, i + 1, Len(s))
<1>1. Len(s) \in Nat /\ i \in Nat /\ i >= 1 /\ i <= Len(s)
  BY LenProperties
<1>2. /\ a \in Seq(S)
      /\ Len(a) = i - 1
      /\ \A j \in 1..(i - 1) : a[j] = s[j]
  BY <1>1, SubSeqProperties
<1>3. /\ b \in Seq(S)
      /\ Len(b) = Len(s) - i
      /\ \A j \in 1..(Len(s) - i) : b[j] = s[i + j]
  <2>1. CASE i = Len(s)
    BY <1>1, <2>1, SubSeqProperties
  <2>2. CASE i < Len(s)
    BY <1>1, <2>2, SubSeqProperties
  <2> QED BY <1>1, <2>1, <2>2
<1>4. RemoveAt(s, i) = a \o b
  BY DEF RemoveAt
<1> HIDE DEF a, b
<1>5. /\ a \o b \in Seq(S)
      /\ Len(a \o b) = Len(s) - 1
      /\ \A j \in 1..(Len(s) - 1) : (a \o b)[j] = IF j <= i - 1 THEN a[j] ELSE b[j - (i - 1)]
  <2>1. /\ a \o b \in Seq(S)
        /\ Len(a \o b) = Len(a) + Len(b)
        /\ \A j \in 1..(Len(a) + Len(b)) :
             (a \o b)[j] = IF j <= Len(a) THEN a[j] ELSE b[j - Len(a)]
    BY <1>2, <1>3, ConcatProperties
  <2>2. Len(a) + Len(b) = Len(s) - 1
    BY <1>1, <1>2, <1>3
  <2>3. Len(a) = i - 1
    BY <1>2
  <2> QED BY ONLY <2>1, <2>2, <2>3
<1>6. ASSUME NEW j \in 1..(Len(s) - 1)
      PROVE  (a \o b)[j] = IF j < i THEN s[j] ELSE s[j + 1]
  <2>1. CASE j < i
    BY <1>1, <1>2, <1>5, <2>1
  <2>2. CASE ~(j < i)
    <3>1. j - (i - 1) \in 1..(Len(s) - i)
      BY <1>1, <2>2
    <3>2. (a \o b)[j] = b[j - (i - 1)]
      BY <1>1, <1>5, <2>2
    <3>3. b[j - (i - 1)] = s[j + 1]
      BY <1>1, <1>3, <3>1
    <3> QED BY <2>2, <3>2, <3>3
  <2> QED BY <2>1, <2>2
<1> QED BY <1>4, <1>5, <1>6

(***************************************************************************)
(* The inductive invariant.  TypeOK bounds execCount, which needs the      *)
(* retry loop to be entered with a run left; Current has a meaning only    *)
(* where CursorOnTask puts the walk on a task.                             *)
(***************************************************************************)
RetriesLeft == wpc \in {"pass", "visit", "exec"} => execCount < max_retry_now_count

IInv == TypeOK /\ CursorOnTask /\ RetriesLeft

\* The part of IInv the walk is responsible for.
ListInv ==
  /\ queue \in Seq(Task)
  /\ pos \in Nat
  /\ more \in BOOLEAN
  /\ wpc \in Places
  /\ execCount \in 0..max_retry_now_count
  /\ CursorOnTask
  /\ RetriesLeft

FieldsInv ==
  /\ status \in [Dysks -> Statuses]
  /\ throttle_until \in [Dysks -> Nat]
  /\ jiffies \in Nat

\* The invariant is the two parts.
LEMMA IInvParts == IInv <=> ListInv /\ FieldsInv
  BY DEF IInv, ListInv, FieldsInv, TypeOK

\* Inside a pass the walk is on a task of the list (work_thread_fn 162).
LEMMA CurrentIsTask ==
  ASSUME ListInv, wpc \notin {"pass", "stopped"}
  PROVE  /\ pos \in 1..Len(queue)
         /\ Len(queue) \in Nat
         /\ Current \in Task
<1>1. Len(queue) \in Nat
  BY LenProperties DEF ListInv
<1>2. pos \in 1..Len(queue)
  BY <1>1 DEF ListInv, CursorOnTask
<1>3. Current \in Task
  BY <1>2, ElementOfSeq DEF ListInv, Current
<1> QED BY <1>1, <1>2, <1>3

\* Going to index p of the list is safe when the cached `next' is there
\* (work_thread_fn 162).
LEMMA GoToStep ==
  ASSUME ListInv, queue' \in Seq(Task), NEW p \in Nat, p # 0,
         more => p <= Len(queue'), GoTo(p)
  PROVE  ListInv'
<1>1. Len(queue') \in Nat
  BY LenProperties
<1>2. /\ pos' \in Nat
      /\ pos' <= Len(queue')
      /\ wpc' \in {"visit", "pass"}
      /\ (wpc' \in {"pass", "stopped"}) <=> (pos' = 0)
  <2>1. CASE more
    BY <1>1, <2>1 DEF GoTo
  <2>2. CASE ~more
    BY <1>1, <2>2 DEF GoTo
  <2> QED BY <2>1, <2>2
<1>3. more' \in BOOLEAN
  BY DEF GoTo
<1>4. more' => pos' < Len(queue')
  BY DEF GoTo
<1>5. execCount' = 0
  BY DEF GoTo
<1>6. CursorOnTask'
  BY <1>2, <1>4 DEF CursorOnTask
<1>7. RetriesLeft'
  BY <1>2, <1>5 DEF RetriesLeft, max_retry_now_count
<1>8. execCount' \in 0..max_retry_now_count /\ wpc' \in Places
  BY <1>2, <1>5 DEF max_retry_now_count, Places
<1> QED BY <1>2, <1>3, <1>5, <1>6, <1>7, <1>8 DEF ListInv

\* Leaving the task on the list keeps the walk on the list
\* (execute 98-99, 139).
LEMMA KeepStep ==
  ASSUME ListInv, wpc \notin {"pass", "stopped"}, Keep
  PROVE  ListInv'
<1>1. pos \in 1..Len(queue) /\ Len(queue) \in Nat
  BY CurrentIsTask
<1>2. queue' = queue /\ queue \in Seq(Task) /\ GoTo(pos + 1)
  BY DEF Keep, ListInv
<1>3. more => pos < Len(queue)
  BY DEF ListInv, CursorOnTask
<1> QED BY <1>1, <1>2, <1>3, GoToStep

\* Removing the current task, after its function appended kids, keeps the
\* walk on the list: the cached `next' has moved to the index it left
\* (execute 140-150).
LEMMA DequeueStep ==
  ASSUME ListInv, wpc \notin {"pass", "stopped"},
         NEW kids \in Seq(Task), Dequeue(queue \o kids)
  PROVE  ListInv'
<1> DEFINE q == queue \o kids
<1>1. pos \in 1..Len(queue) /\ Len(queue) \in Nat
  BY CurrentIsTask
<1>2. q \in Seq(Task) /\ Len(q) = Len(queue) + Len(kids) /\ Len(kids) \in Nat
  BY ConcatProperties, LenProperties DEF ListInv
<1>3. queue' = RemoveAt(q, pos) /\ GoTo(pos)
  BY DEF Dequeue
<1> HIDE DEF q
<1>4. pos \in 1..Len(q)
  BY <1>1, <1>2
<1>5. queue' \in Seq(Task) /\ Len(queue') = Len(queue) + Len(kids) - 1
  <2>1. /\ RemoveAt(q, pos) \in Seq(Task)
        /\ Len(RemoveAt(q, pos)) = Len(q) - 1
    BY <1>2, <1>4, RemoveAtProperties
  <2> QED BY <1>2, <1>3, <2>1
<1>6. more => pos < Len(queue)
  BY DEF ListInv, CursorOnTask
<1>7. more => pos <= Len(queue')
  BY <1>1, <1>2, <1>5, <1>6
<1> QED BY <1>1, <1>3, <1>5, <1>7, GoToStep

\* A child is a task, and the children of a task are a list of tasks
\* (queue_w_task 52-58).
LEMMA KidsAreTasks ==
  ASSUME ListInv, wpc = "exec", NEW kids \in KidsOf(Current)
  PROVE  kids \in Seq(Task)
<1>1. Current \in Task
  BY CurrentIsTask
<1>2. CASE kids = <<>>
  BY <1>2
<1>3. CASE \E f \in Fns, s \in (States \ UsedStates) \cup {Current.state}, m \in Modes :
             kids = <<ChildTask(f, s, m)>>
  <2>1. PICK f \in Fns, s \in (States \ UsedStates) \cup {Current.state}, m \in Modes :
               kids = <<ChildTask(f, s, m)>>
    BY <1>3
  <2>2. s \in States /\ Current.d \in Dysks /\ Current.expires_on \in Nat
    BY <1>1 DEF Task
  <2>3. ChildTask(f, s, m) \in Task
    BY <2>2 DEF ChildTask, Task
  <2> QED BY <2>1, <2>3
<1> QED BY <1>2, <1>3 DEF KidsOf

-----------------------------------------------------------------------------
\* A step of the walk that changes no field of a dysk keeps the invariant
\* when it keeps the list part of it.
LEMMA FieldsUnchanged ==
  ASSUME FieldsInv, UNCHANGED <<status, throttle_until, jiffies>>
  PROVE  FieldsInv'
  BY DEF FieldsInv

\* Every step of every thread keeps the invariant.
LEMMA StepKeepsIInv ==
  ASSUME IInv, Next
  PROVE  IInv'
<1>1. ListInv /\ FieldsInv
  BY IInvParts
<1>2. /\ Timeout \in Nat
      /\ ThrottleDefault \in Nat
  BY ParametersAssumption
<1>3. SUFFICES ListInv' /\ FieldsInv'
  BY DEF IInv, ListInv, FieldsInv, TypeOK
<1>4. CASE BeginPass
  <2>1. Len(queue) \in Nat /\ Len(queue) > 0
    BY <1>1, <1>4, LenProperties, EmptySeq DEF BeginPass, ListInv
  <2>2. CursorOnTask'
    <3>1. queue' = queue /\ pos' = 1 /\ wpc' = "visit"
      BY <1>4 DEF BeginPass
    <3>2. more' => 1 < Len(queue)
      <4>1. more' = (Len(queue) > 1)
        BY <1>4 DEF BeginPass
      <4>2. CASE Len(queue) > 1
        BY <2>1, <4>2
      <4>3. CASE ~(Len(queue) > 1)
        BY <4>1, <4>3
      <4> QED BY <4>2, <4>3
    <3> QED BY <2>1, <3>1, <3>2 DEF CursorOnTask
  <2>3. more' \in BOOLEAN /\ pos' \in Nat /\ wpc' \in Places
    BY <1>4 DEF BeginPass, Places
  <2>4. ListInv'
    BY <1>1, <1>4, <2>2, <2>3 DEF BeginPass, ListInv, RetriesLeft
  <2> QED BY <1>1, <1>4, <2>4, FieldsUnchanged DEF BeginPass
<1>5. CASE Yield
  BY <1>1, <1>5 DEF Yield, workerVars, walk, ListInv, FieldsInv, CursorOnTask, RetriesLeft
<1>6. CASE Stop
  <2>1. ListInv'
    BY <1>1, <1>6 DEF Stop, ListInv, CursorOnTask, RetriesLeft, Places
  <2> QED BY <1>1, <1>6, <2>1, FieldsUnchanged DEF Stop
<1>7. ASSUME wpc \notin {"pass", "stopped"}, Dequeue(queue)
      PROVE  ListInv'
  <2>1. queue \o <<>> = queue /\ <<>> \in Seq(Task)
    BY <1>1, ConcatEmptySeq DEF ListInv
  <2> QED BY <1>1, <1>7, <2>1, DequeueStep
<1>8. CASE Cancel
  BY <1>1, <1>7, <1>8, FieldsUnchanged DEF Cancel
<1>9. CASE SkipThrottled
  BY <1>1, <1>9, KeepStep, FieldsUnchanged DEF SkipThrottled
<1>10. CASE StartExec
  <2>1. Current.d \in Dysks
    BY <1>1, <1>10, CurrentIsTask DEF StartExec, Task
  <2>2. ListInv'
    BY <1>1, <1>10 DEF StartExec, ListInv, CursorOnTask, RetriesLeft, Places
  <2>3. FieldsInv'
    BY <1>1, <1>10, <2>1 DEF StartExec, FieldsInv
  <2> QED BY <2>2, <2>3
<1>11. ASSUME NEW r \in Retries, ExecRetry(r)
       PROVE  ListInv' /\ FieldsInv'
  <2>1. ListInv'
    BY <1>1, <1>11
    DEF ExecRetry, ListInv, CursorOnTask, RetriesLeft, Places, max_retry_now_count
  <2> QED BY <1>1, <1>11, <2>1, FieldsUnchanged DEF ExecRetry
<1>12. ASSUME wpc = "exec", NEW kids \in KidsOf(Current), ExecDone(kids)
       PROVE  ListInv' /\ FieldsInv'
  BY <1>1, <1>12, KidsAreTasks, DequeueStep, FieldsUnchanged DEF ExecDone
<1>13. ASSUME wpc = "exec", NEW kids \in KidsOf(Current), ExecThrottle(kids)
       PROVE  ListInv' /\ FieldsInv'
  <2>1. Current.d \in Dysks
    BY <1>1, <1>13, CurrentIsTask DEF Task
  <2>2. ListInv'
    BY <1>1, <1>13, KidsAreTasks, DequeueStep DEF ExecThrottle
  <2>3. jiffies + ThrottleDefault \in Nat
    BY <1>1, <1>2 DEF FieldsInv
  <2>4. FieldsInv'
    BY <1>1, <1>13, <2>1, <2>3 DEF ExecThrottle, FieldsInv
  <2> QED BY <2>2, <2>4
<1>14. CASE ExecCatastrophe
  <2>1. Current.d \in Dysks
    BY <1>1, <1>14, CurrentIsTask DEF ExecCatastrophe, Task
  <2>2. ListInv'
    BY <1>1, <1>14 DEF ExecCatastrophe, ListInv, CursorOnTask, RetriesLeft, Places
  <2>3. FieldsInv'
    BY <1>1, <1>14, <2>1 DEF ExecCatastrophe, FieldsInv, Statuses
  <2> QED BY <2>2, <2>3
<1>15. CASE CatastropheReturn
  BY <1>1, <1>7, <1>15, FieldsUnchanged DEF CatastropheReturn
<1>16. CASE Expire
  BY <1>1, <1>7, <1>16, FieldsUnchanged DEF Expire
<1>17. CASE Stay
  BY <1>1, <1>17, KeepStep, FieldsUnchanged DEF Stay
<1>18. ASSUME NEW f \in Fns, NEW s \in States, NEW d \in Dysks, NEW m \in Modes,
              queue_w_task(f, s, d, m)
       PROVE  ListInv' /\ FieldsInv'
  <2>1. NewTask(f, s, d, m) \in Task
    BY <1>1, <1>2 DEF NewTask, Task, FieldsInv
  <2>2. /\ queue' \in Seq(Task)
        /\ Len(queue') = Len(queue) + 1
        /\ Len(queue) \in Nat
    BY <1>1, <1>18, <2>1, AppendProperties, LenProperties DEF queue_w_task, ListInv
  <2>3. ListInv'
    BY <1>1, <1>18, <2>2 DEF queue_w_task, walk, ListInv, CursorOnTask, RetriesLeft
  <2> QED BY <1>1, <1>18, <2>3, FieldsUnchanged DEF queue_w_task
<1>19. ASSUME UNCHANGED <<queue, walk>>
       PROVE  ListInv'
  BY <1>1, <1>19 DEF walk, ListInv, CursorOnTask, RetriesLeft
<1>20. ASSUME NEW d \in Dysks, MarkDeleting(d)
       PROVE  ListInv' /\ FieldsInv'
  BY <1>1, <1>19, <1>20 DEF MarkDeleting, FieldsInv, Statuses
<1>21. ASSUME NEW d \in Dysks, Renew(d)
       PROVE  ListInv' /\ FieldsInv'
  BY <1>1, <1>19, <1>21 DEF Renew, FieldsInv, Statuses
<1>22. CASE Tick
  BY <1>1, <1>19, <1>22 DEF Tick, FieldsInv
<1> QED
  BY <1>4, <1>5, <1>6, <1>8, <1>9, <1>10, <1>11, <1>12, <1>13, <1>14, <1>15,
     <1>16, <1>17, <1>18, <1>20, <1>21, <1>22
  DEF Next, WorkerStep, ExecStep, Environment

\* The invariant holds when the worker starts (dysk_worker_init).
LEMMA InitIInv ==
  ASSUME Init
  PROVE  IInv
<1>1. queue \in Seq(Task) /\ Len(queue) = 0
  BY EmptySeq DEF Init
<1>2. TypeOK
  <2>1. status \in [Dysks -> Statuses] /\ throttle_until \in [Dysks -> Nat]
    BY DEF Init, Statuses
  <2>2. /\ pos \in Nat /\ wpc \in Places /\ execCount \in 0..max_retry_now_count
        /\ jiffies \in Nat
    BY DEF Init, Places, max_retry_now_count
  <2>3. more \in BOOLEAN
    BY DEF Init
  <2> QED BY <1>1, <2>1, <2>2, <2>3 DEF TypeOK
<1>3. CursorOnTask
  BY <1>1 DEF Init, CursorOnTask
<1>4. RetriesLeft
  BY DEF Init, RetriesLeft, max_retry_now_count
<1> QED BY <1>2, <1>3, <1>4 DEF IInv

\* Doing nothing keeps it.
LEMMA StutterKeepsIInv == IInv /\ UNCHANGED workerVars => IInv'
  BY DEF IInv, TypeOK, CursorOnTask, RetriesLeft, workerVars, walk

\* The inductive invariant holds in every reachable state.
THEOREM Invariance == Spec => []IInv
<1>1. IInv /\ [Next]_workerVars => IInv'
  BY StepKeepsIInv, StutterKeepsIInv
<1> QED BY InitIInv, <1>1, PTL DEF Spec

\* Every variable of the worker keeps its type, the retry counter included.
THEOREM TypeCorrect == Spec => []TypeOK
  BY Invariance, PTL DEF IInv

\* The walk over the list is always at the head or on one of its tasks, and
\* its cached `next' is never one that was removed (work_thread_fn 160-163
\* against list_add_tail 61 and list_del 143).
THEOREM CursorSafe == Spec => []CursorOnTask
  BY Invariance, PTL DEF IInv

-----------------------------------------------------------------------------
(***************************************************************************)
(* What a step leaves on the list, element by element.                     *)
(***************************************************************************)
\* After dequeue_task the list holds the other tasks, in order, then what
\* the function queued (execute 140-150).
LEMMA DequeueElements ==
  ASSUME ListInv, wpc \notin {"pass", "stopped"},
         NEW kids \in Seq(Task), Dequeue(queue \o kids)
  PROVE  /\ Len(queue') = Len(queue) + Len(kids) - 1
         /\ \A i \in 1..Len(queue) :
              /\ i < pos => queue'[i] = queue[i]
              /\ i > pos => queue'[i - 1] = queue[i]
         /\ \A j \in 1..Len(queue') :
              \/ \E i \in 1..Len(queue) : queue'[j] = queue[i]
              \/ \E i \in 1..Len(kids) : queue'[j] = kids[i]
<1> DEFINE q == queue \o kids
<1>1. pos \in 1..Len(queue) /\ Len(queue) \in Nat /\ Len(kids) \in Nat
  BY CurrentIsTask, LenProperties
<1>2. /\ q \in Seq(Task)
      /\ Len(q) = Len(queue) + Len(kids)
      /\ \A i \in 1..(Len(queue) + Len(kids)) :
           q[i] = IF i <= Len(queue) THEN queue[i] ELSE kids[i - Len(queue)]
  BY ConcatProperties DEF ListInv
<1>3. queue' = RemoveAt(q, pos)
  BY DEF Dequeue
<1> HIDE DEF q
<1>4. pos \in 1..Len(q)
  BY <1>1, <1>2
<1>5. /\ Len(queue') = Len(q) - 1
      /\ \A j \in 1..(Len(q) - 1) : queue'[j] = IF j < pos THEN q[j] ELSE q[j + 1]
  <2>1. /\ Len(RemoveAt(q, pos)) = Len(q) - 1
        /\ \A j \in 1..(Len(q) - 1) :
             RemoveAt(q, pos)[j] = IF j < pos THEN q[j] ELSE q[j + 1]
    BY <1>2, <1>4, RemoveAtProperties
  <2> QED BY <1>3, <2>1
<1>6. ASSUME NEW i \in 1..Len(queue)
      PROVE  /\ i < pos => queue'[i] = queue[i]
             /\ i > pos => queue'[i - 1] = queue[i]
  <2>1. q[i] = queue[i]
    BY <1>1, <1>2
  <2>2. CASE i < pos
    BY <1>1, <1>2, <1>5, <2>1, <2>2, SMTT(30)
  <2>3. CASE i > pos
    <3>1. i - 1 \in 1..(Len(q) - 1) /\ ~(i - 1 < pos) /\ (i - 1) + 1 = i
      BY <1>1, <1>2, <2>3
    <3>2. queue'[i - 1] = q[(i - 1) + 1]
      BY <1>5, <3>1
    <3> QED BY <1>1, <2>1, <2>3, <3>1, <3>2
  <2>4. CASE i = pos
    BY <1>1, <2>4
  <2> QED BY <1>1, <2>2, <2>3, <2>4
<1>7. ASSUME NEW j \in 1..Len(queue')
      PROVE  \/ \E i \in 1..Len(queue) : queue'[j] = queue[i]
             \/ \E i \in 1..Len(kids) : queue'[j] = kids[i]
  <2>1. PICK k \in 1..(Len(queue) + Len(kids)) : queue'[j] = q[k]
    <3>1. CASE j < pos
      <4>1. j \in 1..(Len(queue) + Len(kids))
        BY <1>1, <1>2, <1>5
      <4>2. queue'[j] = q[j]
        BY <1>1, <1>2, <1>5, <3>1
      <4> QED BY <4>1, <4>2
    <3>2. CASE ~(j < pos)
      <4>1. j + 1 \in 1..(Len(queue) + Len(kids))
        BY <1>1, <1>2, <1>5
      <4>2. queue'[j] = q[j + 1]
        BY <1>1, <1>2, <1>5, <3>2
      <4> QED BY <4>1, <4>2
    <3> QED BY <3>1, <3>2
  <2>2. CASE k <= Len(queue)
    BY <1>1, <1>2, <2>1, <2>2
  <2>3. CASE ~(k <= Len(queue))
    <3>1. k - Len(queue) \in 1..Len(kids)
      BY <1>1, <2>3
    <3> QED BY <1>2, <2>1, <2>3, <3>1
  <2> QED BY <2>2, <2>3
<1>8. Len(queue') = Len(queue) + Len(kids) - 1
  BY <1>2, <1>5
<1> QED BY ONLY <1>6, <1>7, <1>8

\* A step of the loop either leaves the list alone, or removes the current
\* task and appends its children, or is an append of somebody else.
LEMMA StepOnList ==
  ASSUME IInv, Next
  PROVE  \/ queue' = queue
         \/ /\ wpc \notin {"pass", "stopped"}
            /\ wpc = "visit" => status[Current.d] # "OK"
            /\ \/ Dequeue(queue \o <<>>)
               \/ wpc = "exec" /\ \E kids \in KidsOf(Current) : Dequeue(queue \o kids)
         \/ \E t \in Task : queue' = Append(queue, t)
<1>1. ListInv /\ FieldsInv /\ Timeout \in Nat
  BY IInvParts, ParametersAssumption
<1>2. queue \o <<>> = queue
  BY <1>1, ConcatEmptySeq DEF ListInv
<1>3. ASSUME NEW f \in Fns, NEW s \in States, NEW d \in Dysks, NEW m \in Modes,
             queue_w_task(f, s, d, m)
      PROVE  \E t \in Task : queue' = Append(queue, t)
  <2>1. NewTask(f, s, d, m) \in Task
    BY <1>1 DEF NewTask, Task, FieldsInv
  <2> QED BY <1>3, <2>1 DEF queue_w_task
<1>4. CASE WorkerStep
  <2>1. CASE BeginPass \/ Yield \/ StartExec \/ ExecCatastrophe
    BY <2>1 DEF BeginPass, Yield, StartExec, ExecCatastrophe, workerVars
  <2>2. CASE Cancel \/ CatastropheReturn \/ Expire
    BY <1>2, <2>2 DEF Cancel, CatastropheReturn, Expire
  <2>3. CASE SkipThrottled \/ Stay
    BY <2>3 DEF SkipThrottled, Stay, Keep
  <2>4. CASE \E r \in Retries : ExecRetry(r)
    BY <2>4 DEF ExecRetry
  <2>5. CASE wpc = "exec" /\ \E kids \in KidsOf(Current) : ExecDone(kids) \/ ExecThrottle(kids)
    BY <2>5 DEF ExecDone, ExecThrottle
  <2> QED BY <1>4, <2>1, <2>2, <2>3, <2>4, <2>5 DEF WorkerStep, ExecStep
<1>5. CASE Stop
  BY <1>5 DEF Stop
<1>6. CASE Environment
  BY <1>3, <1>6 DEF Environment, MarkDeleting, Renew, Tick
<1> QED BY <1>4, <1>5, <1>6 DEF Next

-----------------------------------------------------------------------------
(***************************************************************************)
(* A chain of retries dies with the deadline of the task that began it.    *)
(***************************************************************************)
\* A task and the tasks it queues share one deadline (queue_w_task 58).
LEMMA KidsKeepDeadline ==
  ASSUME ListInv, wpc = "exec", NEW kids \in KidsOf(Current), NEW k \in 1..Len(kids)
  PROVE  kids[k].expires_on = Current.expires_on
<1>1. CASE kids = <<>>
  BY <1>1
<1>2. CASE \E f \in Fns, s \in (States \ UsedStates) \cup {Current.state}, m \in Modes :
             kids = <<ChildTask(f, s, m)>>
  BY <1>2 DEF ChildTask
<1> QED BY <1>1, <1>2 DEF KidsOf

\* What the worker does with a task leaves on the list only deadlines that
\* were there (execute 140-150, queue_w_task 58).
LEMMA StepKeepsDeadlines ==
  ASSUME IInv, Next, Len(queue') <= Len(queue)
  PROVE  Deadlines(queue') \subseteq Deadlines(queue)
<1>1. ListInv
  BY IInvParts
<1>2. ASSUME wpc \notin {"pass", "stopped"}, NEW kids \in Seq(Task),
             Dequeue(queue \o kids),
             \A k \in 1..Len(kids) : kids[k].expires_on = Current.expires_on
      PROVE  Deadlines(queue') \subseteq Deadlines(queue)
  <2>1. SUFFICES ASSUME NEW j \in 1..Len(queue')
                 PROVE  \E i \in 1..Len(queue) : queue'[j].expires_on = queue[i].expires_on
    BY DEF Deadlines
  <2>2. CASE \E i \in 1..Len(queue) : queue'[j] = queue[i]
    BY <2>2
  <2>3. CASE \E k \in 1..Len(kids) : queue'[j] = kids[k]
    BY <1>1, <1>2, <2>3, CurrentIsTask DEF Current
  <2> QED BY <1>1, <1>2, <2>2, <2>3, DequeueElements
<1>3. CASE queue' = queue
  BY <1>3 DEF Deadlines
<1>4. CASE wpc \notin {"pass", "stopped"} /\ Dequeue(queue \o <<>>)
  <2>1. <<>> \in Seq(Task) /\ Len(<<>>) = 0
    BY EmptySeq
  <2>2. \A k \in 1..Len(<<>>) : <<>>[k].expires_on = Current.expires_on
    BY <2>1
  <2> HIDE DEF Deadlines
  <2> QED BY ONLY <1>2, <1>4, <2>1, <2>2
<1>5. CASE wpc = "exec" /\ \E kids \in KidsOf(Current) : Dequeue(queue \o kids)
  BY <1>1, <1>2, <1>5, KidsAreTasks, KidsKeepDeadline
<1>6. CASE \E t \in Task : queue' = Append(queue, t)
  <2>1. Len(queue') = Len(queue) + 1 /\ Len(queue) \in Nat
    BY <1>1, <1>6, AppendProperties, LenProperties DEF ListInv
  <2> QED BY <2>1
<1> QED BY <1>3, <1>4, <1>5, <1>6, StepOnList

\* Retries and children never extend a deadline: a request cannot be kept
\* alive past the timeout of the task that first carried it.
THEOREM DeadlinesKept == Spec => RetriesKeepDeadline
<1>1. IInv /\ [Next]_workerVars
        => [Len(queue') <= Len(queue) => Deadlines(queue') \subseteq Deadlines(queue)]_workerVars
  BY StepKeepsDeadlines
<1> QED BY <1>1, Invariance, PTL DEF Spec, RetriesKeepDeadline

-----------------------------------------------------------------------------
(***************************************************************************)
(* A throttled dysk loses no task.                                         *)
(***************************************************************************)
\* The task the worker works on is not one that must wait: while the retry
\* loop and what follows it run, the dysk of the task is marked, or not
\* throttled, or the task is of the kind throttling does not hold back.
RunsUnthrottled ==
  wpc \in {"exec", "expiry"} =>
    \/ Current.mode = "no_throttle"
    \/ ~Throttled(Current.d)

\* In dysk_catastrophe() the dysk of the task is marked.
FailingIsMarked == wpc = "catastrophe" => status[Current.d] # "OK"

ThrottleInv == IInv /\ RunsUnthrottled /\ FailingIsMarked

\* Appending to the list does not change the task the walk is on.
LEMMA AppendKeepsCurrent ==
  ASSUME ListInv, wpc \notin {"pass", "stopped"}, NEW t \in Task,
         queue' = Append(queue, t), pos' = pos
  PROVE  Current' = Current
<1>1. pos \in 1..Len(queue)
  BY CurrentIsTask
<1> QED BY <1>1, AppendProperties DEF ListInv, Current

\* Every step keeps the two facts: the throttling of a dysk only begins in a
\* step that ends the visit, and time only ends it.
LEMMA StepKeepsThrottleInv ==
  ASSUME ThrottleInv, Next
  PROVE  RunsUnthrottled' /\ FailingIsMarked'
<1>1. ListInv /\ FieldsInv /\ Timeout \in Nat
  BY IInvParts, ParametersAssumption DEF ThrottleInv
<1>2. ASSUME wpc' \in {"visit", "pass", "stopped"}
      PROVE  RunsUnthrottled' /\ FailingIsMarked'
  BY <1>2 DEF RunsUnthrottled, FailingIsMarked
<1>3. ASSUME GoTo(pos) \/ GoTo(pos + 1)
      PROVE  wpc' \in {"visit", "pass", "stopped"}
  BY <1>3 DEF GoTo
<1>4. CASE BeginPass \/ Stop \/ Cancel \/ SkipThrottled \/ CatastropheReturn \/ Expire \/ Stay
  BY <1>2, <1>3, <1>4
  DEF BeginPass, Stop, Cancel, SkipThrottled, CatastropheReturn, Expire, Stay, Keep, Dequeue
<1>5. CASE Yield
  BY <1>5 DEF ThrottleInv, Yield, workerVars, walk, RunsUnthrottled, FailingIsMarked,
              Current, Throttled, time_after
<1>6. CASE wpc = "exec" /\ \E kids \in KidsOf(Current) : ExecDone(kids) \/ ExecThrottle(kids)
  BY <1>2, <1>3, <1>6 DEF ExecDone, ExecThrottle, Dequeue
<1>7. CASE StartExec
  <2>1. Current.d \in Dysks /\ throttle_until[Current.d] \in Nat
    BY <1>1, <1>7, CurrentIsTask DEF StartExec, Task, FieldsInv
  <2>2. Current' = Current /\ jiffies' = jiffies
    BY <1>7 DEF StartExec, Current
  <2>3. Throttled(Current.d)' => Throttled(Current.d)
    BY <1>1, <1>7, <2>1, <2>2 DEF StartExec, Throttled, ThrottleOver, FieldsInv
  <2> QED BY <1>7, <2>2, <2>3 DEF StartExec, RunsUnthrottled, FailingIsMarked
<1>8. CASE \E r \in Retries : ExecRetry(r)
  BY <1>8 DEF ThrottleInv, ExecRetry, RunsUnthrottled, FailingIsMarked, Current, Throttled,
              time_after
<1>9. CASE ExecCatastrophe
  <2>1. Current.d \in Dysks
    BY <1>1, <1>9, CurrentIsTask DEF ExecCatastrophe, Task
  <2> QED BY <1>1, <1>9, <2>1
          DEF ExecCatastrophe, RunsUnthrottled, FailingIsMarked, Current, FieldsInv
<1>10. CASE wpc \in {"pass", "stopped", "visit"} /\ wpc' = wpc
  BY <1>2, <1>10
<1>11. ASSUME wpc \notin {"pass", "stopped", "visit"}, Environment
       PROVE  RunsUnthrottled' /\ FailingIsMarked'
  <2>1. Current \in Task /\ pos \in 1..Len(queue)
    BY <1>1, <1>11, CurrentIsTask
  <2>2. ASSUME NEW f \in Fns, NEW s \in States, NEW d \in Dysks, NEW m \in Modes,
               queue_w_task(f, s, d, m)
        PROVE  RunsUnthrottled' /\ FailingIsMarked'
    <3>1. NewTask(f, s, d, m) \in Task
      BY <1>1 DEF NewTask, Task, FieldsInv
    <3>2. Current' = Current
      BY <1>1, <1>11, <2>2, <3>1, AppendKeepsCurrent DEF queue_w_task, walk
    <3> QED BY <2>2, <3>2
            DEF queue_w_task, walk, ThrottleInv, RunsUnthrottled, FailingIsMarked,
                Throttled, time_after
  <2>3. ASSUME NEW d \in Dysks, MarkDeleting(d)
        PROVE  RunsUnthrottled' /\ FailingIsMarked'
    BY <1>1, <2>1, <2>3
    DEF MarkDeleting, walk, ThrottleInv, RunsUnthrottled, FailingIsMarked, Current,
        Throttled, time_after, FieldsInv, Task
  <2>4. ASSUME NEW d \in Dysks, Renew(d)
        PROVE  RunsUnthrottled' /\ FailingIsMarked'
    <3>1. Current.d # d
      BY <2>1, <2>4 DEF Renew, QueuedBy, Current
    <3> QED BY <1>1, <2>1, <2>4, <3>1
            DEF Renew, walk, ThrottleInv, RunsUnthrottled, FailingIsMarked, Current,
                Throttled, time_after, FieldsInv, Task
  <2>5. CASE Tick
    <3>1. throttle_until[Current.d] \in Nat /\ jiffies \in Nat
      BY <1>1, <2>1 DEF FieldsInv, Task
    <3> QED BY <2>5, <3>1
            DEF Tick, walk, ThrottleInv, RunsUnthrottled, FailingIsMarked, Current,
                Throttled, time_after
  <2> QED BY <1>11, <2>2, <2>3, <2>4, <2>5 DEF Environment
<1>12. CASE Environment
  <2>1. wpc' = wpc
    BY <1>12 DEF Environment, queue_w_task, MarkDeleting, Renew, Tick, walk
  <2> QED BY <1>10, <1>11, <1>12, <2>1
<1> QED
  BY <1>4, <1>5, <1>6, <1>7, <1>8, <1>9, <1>12 DEF Next, WorkerStep, ExecStep

\* A step takes off the list only a task that may go: it ran, or its dysk is
\* marked.
LEMMA StepKeepsThrottled ==
  ASSUME ThrottleInv, Next, NEW i \in 1..Len(queue),
         queue[i].mode = "normal", status[queue[i].d] = "OK", Throttled(queue[i].d)
  PROVE  \E j \in 1..Len(queue') : queue'[j] = queue[i]
<1>1. ListInv /\ IInv
  BY IInvParts DEF ThrottleInv
<1>2. ASSUME wpc \notin {"pass", "stopped"}, NEW kids \in Seq(Task),
             Dequeue(queue \o kids), i # pos
      PROVE  \E j \in 1..Len(queue') : queue'[j] = queue[i]
  <2>1. pos \in 1..Len(queue) /\ Len(queue) \in Nat /\ Len(kids) \in Nat
    BY <1>1, <1>2, CurrentIsTask, LenProperties
  <2>2. /\ Len(queue') = Len(queue) + Len(kids) - 1
        /\ i < pos => queue'[i] = queue[i]
        /\ i > pos => queue'[i - 1] = queue[i]
    BY <1>1, <1>2, DequeueElements
  <2>3. CASE i < pos
    <3>1. i \in 1..Len(queue')
      BY <2>1, <2>2, <2>3
    <3> QED BY <2>2, <2>3, <3>1
  <2>4. CASE i > pos
    <3>1. i - 1 \in 1..Len(queue')
      BY <2>1, <2>2, <2>4
    <3> QED BY <2>2, <2>4, <3>1
  <2> QED BY <1>2, <2>1, <2>3, <2>4
<1>3. CASE queue' = queue
  BY <1>3
<1>4. CASE \E t \in Task : queue' = Append(queue, t)
  BY <1>1, <1>4, AppendProperties, LenProperties DEF ListInv
<1>5. ASSUME wpc \notin {"pass", "stopped"}, wpc = "visit" => status[Current.d] # "OK"
      PROVE  i # pos
  BY <1>5 DEF ThrottleInv, RunsUnthrottled, FailingIsMarked, Current, IInv, TypeOK, Places
<1>6. CASE /\ wpc \notin {"pass", "stopped"}
           /\ wpc = "visit" => status[Current.d] # "OK"
           /\ Dequeue(queue \o <<>>)
  <2>1. <<>> \in Seq(Task)
    BY EmptySeq
  <2>2. i # pos
    BY <1>5, <1>6
  <2> QED BY ONLY <1>2, <1>6, <2>1, <2>2
<1>7. CASE wpc = "exec" /\ \E kids \in KidsOf(Current) : Dequeue(queue \o kids)
  BY <1>1, <1>2, <1>5, <1>7, KidsAreTasks
<1> QED BY <1>1, <1>3, <1>4, <1>6, <1>7, StepOnList

\* What is run is not throttled, and what failed is marked (execute 82-99, 128).
LEMMA ThrottleInvariance == Spec => []ThrottleInv
<1>1. Init => ThrottleInv
  BY InitIInv DEF ThrottleInv, RunsUnthrottled, FailingIsMarked, Init
<1>2. ThrottleInv /\ [Next]_workerVars => ThrottleInv'
  <2>1. CASE Next
    BY <2>1, StepKeepsIInv, StepKeepsThrottleInv DEF ThrottleInv
  <2>2. CASE UNCHANGED workerVars
    BY <2>2, StutterKeepsIInv
    DEF ThrottleInv, RunsUnthrottled, FailingIsMarked, Current, Throttled, time_after,
        workerVars, walk
  <2> QED BY <2>1, <2>2
<1> QED BY <1>1, <1>2, PTL DEF Spec

\* While a healthy dysk is throttled its normal tasks stay on the list: they
\* are neither run, nor dropped, nor timed out (execute 92-99).
THEOREM ThrottledWait == Spec => ThrottledTasksWait
<1> DEFINE Wait ==
      \A i \in 1..Len(queue) :
        LET t == queue[i] IN
        (t.mode = "normal" /\ status[t.d] = "OK" /\ Throttled(t.d))
          => \E j \in 1..Len(queue') : queue'[j] = t
<1>1. ThrottleInv /\ [Next]_workerVars => [Wait]_workerVars
  BY StepKeepsThrottled
<1> QED BY <1>1, ThrottleInvariance, PTL DEF Spec, ThrottledTasksWait
=============================================================================
