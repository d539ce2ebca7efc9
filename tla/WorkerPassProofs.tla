-------------------------- MODULE WorkerPassProofs --------------------------
(***************************************************************************)
(* Proofs about WorkerPass, for any dysks, tasks and bounds: a pass visits *)
(* every task that was on the list when it began.                          *)
(***************************************************************************)
EXTENDS WorkerPass, WorkerProofs

\* What the pass still owes a visit is between the walk and the last task it
\* will see: with no cached `next', what was appended since is not owed.
FirstDue == IF wpc = "visit" THEN pos ELSE pos + 1
LastDue  == IF more THEN Len(queue) ELSE pos

DueInv ==
  IF wpc \in {"pass", "stopped"}
    THEN due = {}
    ELSE \A s \in due : \E i \in FirstDue..LastDue : queue[i].state = s

\* The tasks from index first to index last hold the states in D.
Holds(D, q, first, last) == \A s \in D : \E i \in first..last : q[i].state = s

\* Moving on loses nothing that is owed: at the end of the pass nothing is,
\* otherwise it is still between the walk and the last task it will see.
LEMMA MoveOnKeepsDue ==
  ASSUME ListInv, wpc \notin {"pass", "stopped"}, NEW kids \in Seq(Task),
         Keep \/ Dequeue(queue \o kids),
         NEW D, Holds(D, queue, pos + 1, LastDue)
  PROVE  IF wpc' = "pass" THEN D = {}
                          ELSE wpc' = "visit" /\ Holds(D, queue', FirstDue', LastDue')
<1>1. /\ pos \in 1..Len(queue) /\ Len(queue) \in Nat /\ Len(kids) \in Nat
      /\ more \in BOOLEAN
  BY CurrentIsTask, LenProperties DEF ListInv
<1>2. CASE ~more
  <2>1. wpc' = "pass"
    BY <1>2 DEF Keep, Dequeue, GoTo
  <2>2. D = {}
    BY <1>1, <1>2 DEF Holds, LastDue
  <2> QED BY <2>1, <2>2
<1>3. CASE more
  <2>1. wpc' = "visit"
    BY <1>3 DEF Keep, Dequeue, GoTo
  <2>2. SUFFICES ASSUME NEW s \in D
                 PROVE  \E i \in FirstDue'..LastDue' : queue'[i].state = s
    BY <2>1 DEF Holds
  <2>3. PICK i \in (pos + 1)..Len(queue) : queue[i].state = s
    BY <1>3 DEF Holds, LastDue
  <2>4. i \in 1..Len(queue) /\ i > pos /\ i \in Nat
    BY <1>1, <2>3
  <2>5. CASE Keep
    <3>1. queue' = queue /\ pos' = pos + 1 /\ (~more' => ~(pos + 1 < Len(queue)))
      BY <1>3, <2>5 DEF Keep, GoTo
    <3>2. FirstDue' = pos + 1 /\ LastDue' = IF more' THEN Len(queue) ELSE pos + 1
      BY <2>1, <3>1 DEF FirstDue, LastDue
    <3>3. i \in FirstDue'..LastDue'
      BY <1>1, <2>3, <3>1, <3>2
    <3> QED BY <2>3, <3>1, <3>3
  <2>6. CASE Dequeue(queue \o kids)
    <3>1. Len(queue') = Len(queue) + Len(kids) - 1 /\ queue'[i - 1] = queue[i]
      BY <2>4, <2>6, DequeueElements
    <3>2. pos' = pos /\ (~more' => ~(pos < Len(queue')))
      BY <1>3, <2>6 DEF Dequeue, GoTo
    <3>3. FirstDue' = pos /\ LastDue' = IF more' THEN Len(queue') ELSE pos
      BY <2>1, <3>2 DEF FirstDue, LastDue
    <3>4. i - 1 \in FirstDue'..LastDue'
      BY <1>1, <2>4, <3>1, <3>2, <3>3
    <3> QED BY <2>3, <3>1, <3>4
  <2> QED BY <2>5, <2>6
<1> QED BY <1>1, <1>2, <1>3

\* Looking at a task pays what is owed for it.
LEMMA VisitPays ==
  ASSUME ListInv, DueInv, wpc = "visit"
  PROVE  Holds(due \ {Current.state}, queue, pos + 1, LastDue)
<1>1. pos \in 1..Len(queue) /\ Len(queue) \in Nat
  BY CurrentIsTask
<1>2. SUFFICES ASSUME NEW s \in due, s # Current.state
               PROVE  \E i \in (pos + 1)..LastDue : queue[i].state = s
  BY DEF Holds
<1>3. PICK i \in pos..LastDue : queue[i].state = s
  BY DEF DueInv, FirstDue
<1>4. i # pos
  BY <1>2, <1>3 DEF Current
<1>5. LastDue \in Nat
  BY <1>1 DEF LastDue
<1> QED BY <1>1, <1>3, <1>4, <1>5

\* Every step keeps what is owed ahead of the walk.
LEMMA StepKeepsDueInv ==
  ASSUME IInv, DueInv, NextPass
  PROVE  DueInv'
<1>1. ListInv /\ FieldsInv /\ Timeout \in Nat
  BY IInvParts, ParametersAssumption
<1>2. queue \o <<>> = queue /\ <<>> \in Seq(Task)
  BY <1>1, ConcatEmptySeq, EmptySeq DEF ListInv
<1>3. ASSUME wpc = "visit", Owe, NEW kids \in Seq(Task), Keep \/ Dequeue(queue \o kids)
      PROVE  DueInv'
  <2>1. due' = due \ {Current.state}
    BY <1>3 DEF Owe
  <2>2. IF wpc' = "pass" THEN due' = {}
                         ELSE wpc' = "visit" /\ Holds(due', queue', FirstDue', LastDue')
    BY <1>1, <1>3, <2>1, VisitPays, MoveOnKeepsDue
  <2> QED BY <2>2 DEF DueInv, Holds
<1>4. ASSUME wpc \in {"exec", "expiry", "catastrophe"}, Owe, NEW kids \in Seq(Task),
             Keep \/ Dequeue(queue \o kids)
      PROVE  DueInv'
  <2>1. due' = due
    BY <1>4 DEF Owe
  <2>2. Holds(due, queue, pos + 1, LastDue)
    BY <1>4 DEF DueInv, Holds, FirstDue
  <2>3. IF wpc' = "pass" THEN due' = {}
                         ELSE wpc' = "visit" /\ Holds(due', queue', FirstDue', LastDue')
    BY <1>1, <1>4, <2>1, <2>2, MoveOnKeepsDue
  <2> QED BY <2>3 DEF DueInv, Holds
<1>5. CASE BeginPass /\ Owe
  <2>1. /\ queue' = queue /\ pos' = 1 /\ wpc' = "visit" /\ due' = UsedStates
        /\ ~more' => ~(Len(queue) > 1)
    BY <1>5 DEF BeginPass, Owe
  <2>2. FirstDue' = 1 /\ LastDue' = IF more' THEN Len(queue) ELSE 1
    BY <2>1 DEF FirstDue, LastDue
  <2>3. Len(queue) \in Nat
    BY <1>1, LenProperties DEF ListInv
  <2>4. 1..Len(queue) \subseteq FirstDue'..LastDue'
    BY <2>1, <2>2, <2>3
  <2> QED BY <2>1, <2>4 DEF DueInv, UsedStates
<1>6. CASE Yield /\ Owe
  <2>1. wpc' = "pass" /\ due' = UsedStates /\ Len(queue) = 0
    BY <1>6, EmptySeq DEF Yield, Owe, workerVars, walk
  <2>2. UsedStates = {}
    BY <2>1 DEF UsedStates
  <2> QED BY <2>1, <2>2 DEF DueInv
<1>7. CASE StartExec /\ Owe
  <2>1. due' = due \ {Current.state} /\ queue' = queue /\ pos' = pos /\ more' = more
    BY <1>7 DEF StartExec, Owe
  <2>2. FirstDue' = pos + 1 /\ LastDue' = LastDue /\ wpc' = "exec"
    BY <1>7, <2>1 DEF StartExec, FirstDue, LastDue
  <2>3. Holds(due', queue', FirstDue', LastDue')
    BY <1>1, <1>7, <2>1, <2>2, VisitPays DEF StartExec
  <2> QED BY <2>2, <2>3 DEF DueInv, Holds
<1>8. CASE (ExecCatastrophe \/ \E r \in Retries : ExecRetry(r)) /\ Owe
  BY <1>8 DEF ExecCatastrophe, ExecRetry, Owe, DueInv, FirstDue, LastDue
<1>9. CASE (Cancel \/ SkipThrottled) /\ Owe
  BY <1>2, <1>3, <1>9 DEF Cancel, SkipThrottled
<1>10. CASE (CatastropheReturn \/ Expire \/ Stay) /\ Owe
  BY <1>2, <1>4, <1>10 DEF CatastropheReturn, Expire, Stay
<1>11. CASE /\ wpc = "exec"
            /\ \E kids \in KidsOf(Current) : ExecDone(kids) \/ ExecThrottle(kids)
            /\ Owe
  BY <1>1, <1>4, <1>11, KidsAreTasks DEF ExecDone, ExecThrottle
<1>12. CASE Stop /\ due' = due
  BY <1>12 DEF Stop, DueInv
<1>13. CASE Environment /\ due' = due
  <2>1. ASSUME NEW f \in Fns, NEW s \in States, NEW d \in Dysks, NEW m \in Modes,
               queue_w_task(f, s, d, m)
        PROVE  DueInv'
    <3>1. NewTask(f, s, d, m) \in Task
      BY <1>1 DEF NewTask, Task, FieldsInv
    <3>2. /\ Len(queue') = Len(queue) + 1
          /\ Len(queue) \in Nat
          /\ \A i \in 1..Len(queue) : queue'[i] = queue[i]
      BY <1>1, <2>1, <3>1, AppendProperties, LenProperties DEF queue_w_task, ListInv
    <3>3. wpc' = wpc /\ pos' = pos /\ more' = more /\ due' = due
      BY <1>13, <2>1 DEF queue_w_task, walk
    <3>4. CASE wpc \in {"pass", "stopped"}
      BY <3>3, <3>4 DEF DueInv
    <3>5. CASE wpc \notin {"pass", "stopped"}
      <4>1. pos \in 1..Len(queue) /\ more \in BOOLEAN
        BY <1>1, <3>5, CurrentIsTask DEF ListInv
      <4>2. SUFFICES ASSUME NEW e \in due
                     PROVE  \E i \in FirstDue'..LastDue' : queue'[i].state = e
        BY <3>3, <3>5 DEF DueInv
      <4>3. PICK i \in FirstDue..LastDue : queue[i].state = e
        BY <3>5 DEF DueInv
      <4>4. FirstDue' = FirstDue /\ FirstDue \in Nat /\ FirstDue >= 1
        BY <3>3, <4>1 DEF FirstDue
      <4>5. LastDue <= LastDue' /\ LastDue \in Nat /\ LastDue' \in Nat /\ LastDue <= Len(queue)
        BY <3>2, <3>3, <4>1 DEF LastDue
      <4>6. i \in 1..Len(queue) /\ i \in FirstDue'..LastDue'
        BY <3>2, <4>3, <4>4, <4>5
      <4> QED BY <3>2, <4>3, <4>6
    <3> QED BY <3>4, <3>5
  <2>2. ASSUME UNCHANGED <<queue, walk>>
        PROVE  DueInv'
    BY <1>13, <2>2 DEF walk, DueInv, FirstDue, LastDue
  <2> QED BY <1>13, <2>1, <2>2 DEF Environment, MarkDeleting, Renew, Tick
<1> QED
  BY <1>5, <1>6, <1>7, <1>8, <1>9, <1>10, <1>11, <1>12, <1>13
  DEF NextPass, WorkerStep, ExecStep

\* A pass visits every task that was on the list when it began, for any
\* interleaving of removals under the walk and appends behind it
\* (work_thread_fn 160-163).
THEOREM PassVisits == SpecPass => []PassVisitsAll
<1>1. InitPass => IInv /\ DueInv
  BY InitIInv DEF InitPass, Init, DueInv
<1>2. IInv /\ DueInv /\ [NextPass]_passVars => IInv' /\ DueInv'
  <2>1. CASE NextPass
    BY <2>1, StepKeepsIInv, StepKeepsDueInv DEF NextPass, Next
  <2>2. CASE UNCHANGED passVars
    <3>1. UNCHANGED workerVars /\ due' = due
      BY <2>2 DEF passVars
    <3> QED BY <3>1, StutterKeepsIInv DEF workerVars, walk, DueInv, FirstDue, LastDue
  <2> QED BY <2>1, <2>2
<1>3. DueInv => PassVisitsAll
  BY DEF DueInv, PassVisitsAll
<1> QED BY <1>1, <1>2, <1>3, PTL DEF SpecPass
=============================================================================
