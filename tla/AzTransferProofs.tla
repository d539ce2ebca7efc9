-------------------------- MODULE AzTransferProofs --------------------------
(***************************************************************************)
(* Proofs about AzTransfer, for any requests, dysks, sockets and bounds:   *)
(* its steps are steps of the worker, a request has one task and is ended  *)
(* once, a connection has one user.                                        *)
(***************************************************************************)
EXTENDS AzTransfer, WorkerProofs, FiniteSetTheorems

SockStates == {"none", "open", "closed", "unconnected"}
Message == [req : Reqs, whole : BOOLEAN, code : {"none", "ok", "throttle", "fatal"}]

(***************************************************************************)
(* The tasks of requests.                                                  *)
(***************************************************************************)
\* A task is of the kind its state is of, and belongs to its request's dysk.
TaskOk(t) ==
  /\ t.d = DyskOf[t.state[2]]
  /\ t.fn = IF t.state[1] = "req" THEN "send" ELSE "recv"

TasksInv ==
  /\ \A i \in 1..Len(queue) : TaskOk(queue[i])
  /\ \A i, j \in 1..Len(queue) : queue[i].state[2] = queue[j].state[2] => i = j

\* The requests that are being sent, and those whose response is waited for.
Senders   == {r \in Reqs : \E i \in 1..Len(queue) : queue[i].state = ReqObject(r)}
Receivers == {r \in Reqs : \E i \in 1..Len(queue) : queue[i].state = ResObject(r)}

\* The state of a task is the one or the other object of its request.
LEMMA StateIsObject ==
  ASSUME NEW t \in Task, TaskOk(t)
  PROVE  /\ t.state[2] \in Reqs
         /\ t.d = DyskOf[t.state[2]] /\ t.d \in Dysks
         /\ \/ t.state = ReqObject(t.state[2]) /\ t.fn = "send"
            \/ t.state = ResObject(t.state[2]) /\ t.fn = "recv"
<1>1. t.state \in {"req", "res"} \X Reqs
  BY AzParametersAssumption DEF Task, Objects
<1> QED BY <1>1 DEF TaskOk, ReqObject, ResObject, Task

\* Objects of different kinds or requests are different.
LEMMA ObjectsDiffer ==
  ASSUME NEW r, NEW q
  PROVE  /\ ReqObject(r) # ResObject(q)
         /\ ReqObject(r) = ReqObject(q) => r = q
         /\ ResObject(r) = ResObject(q) => r = q
         /\ ReqObject(r)[2] = r /\ ResObject(r)[2] = r
         /\ ReqObject(r)[1] = "req" /\ ResObject(r)[1] = "res"
  BY DEF ReqObject, ResObject

\* The worker is in a task of one request, of the one kind or the other.
LEMMA MineIsRequest ==
  ASSUME ListInv, TasksInv, wpc \notin {"pass", "stopped"}
  PROVE  /\ pos \in 1..Len(queue)
         /\ Current \in Task
         /\ Mine \in Reqs
         /\ Current.d = DyskOf[Mine] /\ Current.d \in Dysks
         /\ \/ /\ Current.state = ReqObject(Mine) /\ Current.fn = "send"
               /\ Mine \in Senders /\ Mine \notin Receivers
            \/ /\ Current.state = ResObject(Mine) /\ Current.fn = "recv"
               /\ Mine \in Receivers /\ Mine \notin Senders
<1>1. pos \in 1..Len(queue) /\ Current \in Task
  BY CurrentIsTask
<1>2. TaskOk(Current)
  BY <1>1 DEF TasksInv, Current
<1>3. /\ Mine \in Reqs
      /\ Current.d = DyskOf[Mine] /\ Current.d \in Dysks
      /\ \/ Current.state = ReqObject(Mine) /\ Current.fn = "send"
         \/ Current.state = ResObject(Mine) /\ Current.fn = "recv"
  BY <1>1, <1>2, StateIsObject DEF Mine
<1>4. ASSUME NEW i \in 1..Len(queue), queue[i].state[2] = Mine
      PROVE  queue[i].state = Current.state
  BY <1>1, <1>4 DEF TasksInv, Mine, Current
<1>5. Mine \in Senders <=> Current.state = ReqObject(Mine)
  BY <1>1, <1>3, <1>4, ObjectsDiffer DEF Senders, Current
<1>6. Mine \in Receivers <=> Current.state = ResObject(Mine)
  BY <1>1, <1>3, <1>4, ObjectsDiffer DEF Receivers, Current
<1> QED BY <1>1, <1>3, <1>5, <1>6, ObjectsDiffer

-----------------------------------------------------------------------------
(***************************************************************************)
(* What the steps of the worker and of io_request() do to the tasks.       *)
(***************************************************************************)
\* Where the tasks are once the current one left the list.
LEMMA DequeueIndexes ==
  ASSUME ListInv, wpc \notin {"pass", "stopped"}, NEW kids \in Seq(Task),
         Dequeue(queue \o kids)
  PROVE  LET q == queue \o kids IN
         /\ Len(queue) \in Nat /\ Len(kids) \in Nat /\ pos \in 1..Len(queue)
         /\ \A i \in 1..(Len(queue) + Len(kids)) :
              q[i] = IF i <= Len(queue) THEN queue[i] ELSE kids[i - Len(queue)]
         /\ Len(queue') = Len(queue) + Len(kids) - 1
         /\ \A j \in 1..Len(queue') : queue'[j] = IF j < pos THEN q[j] ELSE q[j + 1]
<1> DEFINE q == queue \o kids
<1>1. Len(queue) \in Nat /\ Len(kids) \in Nat /\ pos \in 1..Len(queue)
  BY CurrentIsTask, LenProperties
<1>2. /\ q \in Seq(Task)
      /\ Len(q) = Len(queue) + Len(kids)
      /\ \A i \in 1..(Len(queue) + Len(kids)) :
           q[i] = IF i <= Len(queue) THEN queue[i] ELSE kids[i - Len(queue)]
  BY ConcatProperties DEF ListInv
<1>3. queue' = RemoveAt(q, pos)
  BY DEF Dequeue
<1> HIDE DEF q
<1>4. pos \in 1..Len(q)
  BY <1>1, <1>2
<1>5. /\ Len(queue') = Len(q) - 1
      /\ \A j \in 1..(Len(q) - 1) : queue'[j] = IF j < pos THEN q[j] ELSE q[j + 1]
  <2>1. /\ Len(RemoveAt(q, pos)) = Len(q) - 1
        /\ \A j \in 1..(Len(q) - 1) :
             RemoveAt(q, pos)[j] = IF j < pos THEN q[j] ELSE q[j + 1]
    BY <1>2, <1>4, RemoveAtProperties
  <2> QED BY <1>3, <2>1
<1>6. Len(queue') = Len(queue) + Len(kids) - 1
  BY <1>2, <1>5
<1>7. \A j \in 1..Len(queue') : queue'[j] = IF j < pos THEN q[j] ELSE q[j + 1]
  BY <1>5
<1> USE DEF q
<1> QED BY ONLY <1>1, <1>2, <1>6, <1>7

\* Carrying a request on by at most one task keeps one task to a request, and
\* changes what is known of this one only (execute 140-150).
LEMMA DequeueTasks ==
  ASSUME ListInv, TasksInv, wpc \notin {"pass", "stopped"},
         NEW kids \in Seq(Task), Len(kids) \in {0, 1},
         \A k \in 1..Len(kids) : TaskOk(kids[k]) /\ kids[k].state[2] = Mine,
         Dequeue(queue \o kids)
  PROVE  /\ TasksInv'
         /\ Senders' = (Senders \ {Mine}) \cup
                         {r \in {Mine} : \E k \in 1..Len(kids) : kids[k].state = ReqObject(r)}
         /\ Receivers' = (Receivers \ {Mine}) \cup
                           {r \in {Mine} : \E k \in 1..Len(kids) : kids[k].state = ResObject(r)}
<1> DEFINE q == queue \o kids
           At(j) == IF j < pos THEN j ELSE j + 1
<1>1. /\ Len(queue) \in Nat /\ Len(kids) \in Nat /\ pos \in 1..Len(queue)
      /\ \A i \in 1..(Len(queue) + Len(kids)) :
           q[i] = IF i <= Len(queue) THEN queue[i] ELSE kids[i - Len(queue)]
      /\ Len(queue') = Len(queue) + Len(kids) - 1
      /\ \A j \in 1..Len(queue') : queue'[j] = q[At(j)]
  BY DequeueIndexes
<1>2. \A j \in 1..Len(queue') : At(j) \in 1..(Len(queue) + Len(kids)) /\ At(j) # pos
  BY <1>1
<1>3. \A i \in 1..(Len(queue) + Len(kids)) : i # pos => \E j \in 1..Len(queue') : At(j) = i
  <2>1. SUFFICES ASSUME NEW i \in 1..(Len(queue) + Len(kids)), i # pos
                 PROVE  \E j \in 1..Len(queue') : At(j) = i
    OBVIOUS
  <2>2. CASE i < pos
    BY <1>1, <2>2
  <2>3. CASE i > pos
    <3>1. i - 1 \in 1..Len(queue') /\ At(i - 1) = i
      BY <1>1, <2>3
    <3> QED BY <3>1
  <2> QED BY <1>1, <2>1, <2>2, <2>3
<1>4. \A i, j \in 1..Len(queue') : At(i) = At(j) => i = j
  BY <1>1
<1> HIDE DEF q, At
<1>5. \A i \in 1..Len(queue) : i # pos => queue[i].state[2] # Mine
  BY <1>1 DEF TasksInv, Mine, Current
<1>6. ASSUME NEW i \in 1..(Len(queue) + Len(kids)), i # pos
      PROVE  /\ TaskOk(q[i])
             /\ i <= Len(queue) => q[i] = queue[i] /\ q[i].state[2] # Mine
             /\ ~(i <= Len(queue)) => /\ i = Len(queue) + 1 /\ Len(kids) = 1
                                     /\ q[i] = kids[1] /\ q[i].state[2] = Mine
  <2>1. CASE i <= Len(queue)
    BY <1>1, <1>5, <1>6, <2>1 DEF TasksInv
  <2>2. CASE ~(i <= Len(queue))
    <3>1. i - Len(queue) = 1 /\ Len(kids) = 1
      BY <1>1, <2>2
    <3> QED BY <1>1, <2>2, <3>1
  <2> QED BY <2>1, <2>2
<1>7. TasksInv'
  <2>1. ASSUME NEW i \in 1..Len(queue')
        PROVE  TaskOk(queue'[i])
    BY <1>1, <1>2, <1>6
  <2>2. ASSUME NEW i \in 1..Len(queue'), NEW j \in 1..Len(queue'),
               queue'[i].state[2] = queue'[j].state[2]
        PROVE  i = j
    <3>1. q[At(i)].state[2] = q[At(j)].state[2]
      BY <1>1, <2>2
    <3>2. /\ At(i) \in 1..(Len(queue) + Len(kids)) /\ At(i) # pos
          /\ At(j) \in 1..(Len(queue) + Len(kids)) /\ At(j) # pos
      BY <1>2
    <3>3. CASE At(i) <= Len(queue) /\ At(j) <= Len(queue)
      <4>1. At(i) \in 1..Len(queue) /\ At(j) \in 1..Len(queue)
        BY <1>1, <3>2, <3>3
      <4>2. queue[At(i)].state[2] = queue[At(j)].state[2]
        BY <1>6, <3>1, <3>2, <3>3
      <4>3. At(i) = At(j)
        BY <4>1, <4>2 DEF TasksInv
      <4> QED BY <1>4, <4>3
    <3>4. CASE ~(At(i) <= Len(queue) /\ At(j) <= Len(queue))
      <4>1. At(i) = At(j)
        BY <1>6, <3>1, <3>2, <3>4
      <4> QED BY <1>4, <4>1
    <3> QED BY <3>3, <3>4
  <2> QED BY <2>1, <2>2 DEF TasksInv, TaskOk
<1>8. ASSUME NEW s
      PROVE  (\E j \in 1..Len(queue') : queue'[j].state = s)
               <=> \/ \E i \in 1..Len(queue) : i # pos /\ queue[i].state = s
                   \/ \E k \in 1..Len(kids) : kids[k].state = s
  <2>1. ASSUME NEW i \in 1..Len(queue), i # pos, queue[i].state = s
        PROVE  \E j \in 1..Len(queue') : queue'[j].state = s
    <3>1. i \in 1..(Len(queue) + Len(kids)) /\ q[i] = queue[i]
      BY <1>1
    <3> QED BY <1>1, <1>3, <2>1, <3>1
  <2>2. ASSUME NEW k \in 1..Len(kids), kids[k].state = s
        PROVE  \E j \in 1..Len(queue') : queue'[j].state = s
    <3>1. k = 1 /\ Len(kids) = 1
      OBVIOUS
    <3>2. /\ Len(queue) + 1 \in 1..(Len(queue) + Len(kids)) /\ Len(queue) + 1 # pos
          /\ q[Len(queue) + 1] = kids[1]
      BY <1>1, <3>1
    <3> QED BY <1>1, <1>3, <2>2, <3>1, <3>2
  <2>3. ASSUME NEW j \in 1..Len(queue'), queue'[j].state = s
        PROVE  \/ \E i \in 1..Len(queue) : i # pos /\ queue[i].state = s
               \/ \E k \in 1..Len(kids) : kids[k].state = s
    <3>1. At(j) \in 1..(Len(queue) + Len(kids)) /\ At(j) # pos /\ q[At(j)].state = s
      BY <1>1, <1>2, <2>3
    <3>2. CASE At(j) <= Len(queue)
      BY <1>1, <1>6, <3>1, <3>2
    <3>3. CASE ~(At(j) <= Len(queue))
      BY <1>1, <1>6, <3>1, <3>3
    <3> QED BY <3>2, <3>3
  <2> QED BY <2>1, <2>2, <2>3
<1>9. Mine \in Reqs
  BY MineIsRequest
<1>10. \A i \in 1..Len(queue) : i # pos =>
         queue[i].state # ReqObject(Mine) /\ queue[i].state # ResObject(Mine)
  BY <1>5, ObjectsDiffer
<1>11. \A r \in Reqs \ {Mine} :
         /\ queue[pos].state # ReqObject(r) /\ queue[pos].state # ResObject(r)
         /\ \A k \in 1..Len(kids) : kids[k].state # ReqObject(r) /\ kids[k].state # ResObject(r)
  BY ObjectsDiffer DEF Mine, Current
<1>12. Senders' = (Senders \ {Mine}) \cup
                   {r \in {Mine} : \E k \in 1..Len(kids) : kids[k].state = ReqObject(r)}
  BY <1>8, <1>9, <1>10, <1>11, SMTT(30) DEF Senders
<1>13. Receivers' = (Receivers \ {Mine}) \cup
                     {r \in {Mine} : \E k \in 1..Len(kids) : kids[k].state = ResObject(r)}
  BY <1>8, <1>9, <1>10, <1>11, ZenonT(40) DEF Receivers
<1> QED BY <1>7, <1>12, <1>13

\* A request that had no task gets one (az_do_request).
LEMMA AppendTasks ==
  ASSUME ListInv, TasksInv, NEW t \in Task, TaskOk(t), NEW r \in Reqs,
         t.state = ReqObject(r), r \notin Senders, r \notin Receivers,
         queue' = Append(queue, t)
  PROVE  /\ TasksInv'
         /\ Senders' = Senders \cup {r} /\ Receivers' = Receivers
<1>1. /\ Len(queue) \in Nat
      /\ Len(queue') = Len(queue) + 1
      /\ \A i \in 1..Len(queue) : queue'[i] = queue[i]
      /\ queue'[Len(queue) + 1] = t
  BY AppendProperties, LenProperties DEF ListInv
<1>2. t.state[2] = r
  BY ObjectsDiffer
<1>3. ASSUME NEW i \in 1..Len(queue)
      PROVE  queue[i].state[2] # r
  <2>1. queue[i] \in Task /\ TaskOk(queue[i])
    BY ElementOfSeq DEF ListInv, TasksInv
  <2> QED BY <2>1, StateIsObject DEF Senders, Receivers
<1>4. TasksInv'
  <2>1. ASSUME NEW i \in 1..Len(queue')
        PROVE  TaskOk(queue'[i])
    BY <1>1 DEF TasksInv
  <2>2. ASSUME NEW i \in 1..Len(queue'), NEW j \in 1..Len(queue'),
               queue'[i].state[2] = queue'[j].state[2]
        PROVE  i = j
    BY <1>1, <1>2, <1>3, <2>2 DEF TasksInv
  <2> QED BY <2>1, <2>2 DEF TasksInv, TaskOk
<1>5. ASSUME NEW s
      PROVE  (\E j \in 1..Len(queue') : queue'[j].state = s)
               <=> (\E i \in 1..Len(queue) : queue[i].state = s) \/ t.state = s
  <2>1. \A i \in 1..Len(queue) : i \in 1..Len(queue')
    BY <1>1
  <2>2. Len(queue) + 1 \in 1..Len(queue')
    BY <1>1
  <2>3. \A j \in 1..Len(queue') : j \in 1..Len(queue) \/ j = Len(queue) + 1
    BY <1>1
  <2> QED BY <1>1, <2>1, <2>2, <2>3
<1> QED BY <1>4, <1>5, ObjectsDiffer DEF Senders, Receivers

\* The kinds of task a request can be carried on by, as children of the
\* current one.
SendKid == ChildTask("send", ReqObject(Mine), "normal")
RecvKid == ChildTask("recv", ResObject(Mine), "no_throttle")

\* They are tasks the worker expects of the current one (KidsOf), of its
\* request and its dysk.
LEMMA KidsOfMine ==
  ASSUME ListInv, TasksInv, wpc = "exec"
  PROVE  /\ SendKid \in Task /\ TaskOk(SendKid) /\ SendKid.state = ReqObject(Mine)
         /\ <<SendKid>> \in KidsOf(Current)
         /\ Current.fn = "send" =>
              /\ RecvKid \in Task /\ TaskOk(RecvKid) /\ RecvKid.state = ResObject(Mine)
              /\ <<RecvKid>> \in KidsOf(Current)
<1>1. /\ Current \in Task /\ Mine \in Reqs /\ Current.d = DyskOf[Mine]
      /\ Current.fn = "send" => Current.state = ReqObject(Mine) /\ Mine \notin Receivers
      /\ Current.fn # "send" => Mine \notin Senders
  BY MineIsRequest
<1>2. ReqObject(Mine) \in States /\ ResObject(Mine) \in States
  BY <1>1, AzParametersAssumption DEF ReqObject, ResObject, Objects
<1>3. /\ Mine \notin Receivers => ResObject(Mine) \notin UsedStates
      /\ Mine \notin Senders => ReqObject(Mine) \notin UsedStates
  BY <1>1 DEF Senders, Receivers, UsedStates
<1>4. "send" \in Fns /\ "recv" \in Fns /\ "normal" \in Modes /\ "no_throttle" \in Modes
  BY AzParametersAssumption DEF Modes
<1>5. Current.d \in Dysks /\ Current.expires_on \in Nat
  BY <1>1 DEF Task
<1>6. /\ SendKid \in Task /\ TaskOk(SendKid) /\ SendKid.state = ReqObject(Mine)
      /\ RecvKid \in Task /\ TaskOk(RecvKid) /\ RecvKid.state = ResObject(Mine)
  BY <1>1, <1>2, <1>4, <1>5, ObjectsDiffer DEF SendKid, RecvKid, ChildTask, Task, TaskOk
<1>7. <<SendKid>> \in KidsOf(Current)
  <2>1. ReqObject(Mine) \in (States \ UsedStates) \cup {Current.state}
    BY <1>1, <1>2, <1>3
  <2> QED BY <1>4, <2>1 DEF KidsOf, SendKid
<1>8. ASSUME Current.fn = "send"
      PROVE  <<RecvKid>> \in KidsOf(Current)
  <2>1. ResObject(Mine) \in (States \ UsedStates) \cup {Current.state}
    BY <1>1, <1>2, <1>3, <1>8
  <2> QED BY <1>4, <2>1 DEF KidsOf, RecvKid
<1> QED BY <1>6, <1>7, <1>8

\* The task leaves the list and nothing carries its request on.
LEMMA TaskEnds ==
  ASSUME ListInv, TasksInv, wpc \notin {"pass", "stopped"}, Dequeue(queue)
  PROVE  TasksInv' /\ Senders' = Senders \ {Mine} /\ Receivers' = Receivers \ {Mine}
<1>1. queue \o <<>> = queue /\ <<>> \in Seq(Task) /\ Len(<<>>) = 0
  BY ConcatEmptySeq, EmptySeq DEF ListInv
<1>2. Dequeue(queue \o <<>>)
  BY <1>1
<1>3. \A k \in 1..Len(<<>>) : TaskOk(<<>>[k]) /\ <<>>[k].state[2] = Mine
  BY <1>1
<1>4. /\ TasksInv'
      /\ Senders' = (Senders \ {Mine}) \cup
                      {r \in {Mine} : \E k \in 1..Len(<<>>) : <<>>[k].state = ReqObject(r)}
      /\ Receivers' = (Receivers \ {Mine}) \cup
                        {r \in {Mine} : \E k \in 1..Len(<<>>) : <<>>[k].state = ResObject(r)}
  BY ONLY ListInv, TasksInv, wpc \notin {"pass", "stopped"}, <1>1, <1>2, <1>3, DequeueTasks
<1> HIDE DEF Senders, Receivers, Mine
<1> QED BY <1>1, <1>4

\* The task leaves the list and a send task carries its request on.
LEMMA TaskSends ==
  ASSUME ListInv, TasksInv, wpc = "exec", Dequeue(queue \o <<SendKid>>)
  PROVE  /\ TasksInv'
         /\ Senders' = Senders \cup {Mine} /\ Receivers' = Receivers \ {Mine}
<1> DEFINE kids == <<SendKid>>
<1>1. SendKid \in Task /\ TaskOk(SendKid) /\ SendKid.state = ReqObject(Mine)
  BY KidsOfMine
<1>2. kids \in Seq(Task) /\ Len(kids) = 1 /\ kids[1] = SendKid
  BY <1>1
<1>3. Dequeue(queue \o kids)
  OBVIOUS
<1> HIDE DEF kids
<1>4. \A k \in 1..Len(kids) : TaskOk(kids[k]) /\ kids[k].state[2] = Mine
  BY <1>1, <1>2, ObjectsDiffer
<1>5. /\ TasksInv'
      /\ Senders' = (Senders \ {Mine}) \cup
                      {r \in {Mine} : \E k \in 1..Len(kids) : kids[k].state = ReqObject(r)}
      /\ Receivers' = (Receivers \ {Mine}) \cup
                        {r \in {Mine} : \E k \in 1..Len(kids) : kids[k].state = ResObject(r)}
  BY <1>2, <1>3, <1>4, DequeueTasks
<1>6. /\ \E k \in 1..Len(kids) : kids[k].state = ReqObject(Mine)
      /\ ~\E k \in 1..Len(kids) : kids[k].state = ResObject(Mine)
  BY <1>1, <1>2, ObjectsDiffer
<1> QED BY <1>5, <1>6

\* The task leaves the list and a receive task carries its request on.
LEMMA TaskReceives ==
  ASSUME ListInv, TasksInv, wpc = "exec", Current.fn = "send", Dequeue(queue \o <<RecvKid>>)
  PROVE  /\ TasksInv'
         /\ Senders' = Senders \ {Mine} /\ Receivers' = Receivers \cup {Mine}
<1> DEFINE kids == <<RecvKid>>
<1>1. RecvKid \in Task /\ TaskOk(RecvKid) /\ RecvKid.state = ResObject(Mine)
  BY KidsOfMine
<1>2. kids \in Seq(Task) /\ Len(kids) = 1 /\ kids[1] = RecvKid
  BY <1>1
<1>3. Dequeue(queue \o kids)
  OBVIOUS
<1> HIDE DEF kids
<1>4. \A k \in 1..Len(kids) : TaskOk(kids[k]) /\ kids[k].state[2] = Mine
  BY <1>1, <1>2, ObjectsDiffer
<1>5. /\ TasksInv'
      /\ Senders' = (Senders \ {Mine}) \cup
                      {r \in {Mine} : \E k \in 1..Len(kids) : kids[k].state = ReqObject(r)}
      /\ Receivers' = (Receivers \ {Mine}) \cup
                        {r \in {Mine} : \E k \in 1..Len(kids) : kids[k].state = ResObject(r)}
  BY <1>2, <1>3, <1>4, DequeueTasks
<1>6. /\ \E k \in 1..Len(kids) : kids[k].state = ResObject(Mine)
      /\ ~\E k \in 1..Len(kids) : kids[k].state = ReqObject(Mine)
  BY <1>1, <1>2, ObjectsDiffer
<1> QED BY <1>5, <1>6

\* The list is left alone.
LEMMA TasksStay ==
  ASSUME TasksInv, queue' = queue
  PROVE  TasksInv' /\ Senders' = Senders /\ Receivers' = Receivers
  BY DEF TasksInv, TaskOk, Senders, Receivers

-----------------------------------------------------------------------------
(***************************************************************************)
(* The inductive invariant of the requests.  What a request is owed to be  *)
(* (BioInv) rests on which task it has, and that on what the state of the  *)
(* task says (StatesInv).                                                  *)
(***************************************************************************)
ReqTypes ==
  /\ reqst \in [Reqs -> SendState]
  /\ resst \in [Reqs -> RecvState]
  /\ bio \in [Reqs -> {"new", "peeked", "queued", "started", "rejecting", "ended"}]
  /\ ends \in [Reqs -> 0..2]
  /\ result \in [Reqs -> {"none", "OK", "ENODEV", "EROFS"}]
  /\ got \in [Reqs -> Reqs \cup {None}]

PoolTypes ==
  /\ fifo \in [Dysks -> Seq(Conns)]
  /\ count \in [Dysks -> 0..(UIntModulus - 1)]
  /\ sock \in [Conns -> SockStates]
  /\ wire \in [Conns -> Seq(Message)]

\* A state is blank while no task has it, a send task that is to be queued
\* again has no connection, and one that has sent all, like a receive task
\* that waits, has one.
StatesInv ==
  \A r \in Reqs :
    /\ r \notin Senders => reqst[r] = BlankSend
    /\ r \notin Receivers => resst[r] = BlankRecv
    /\ reqst[r].try_new_request => reqst[r].c = None
    /\ reqst[r].body_sent => reqst[r].header_sent /\ reqst[r].c # None
    /\ r \in Receivers /\ ~resst[r].try_new_request => resst[r].c # None

\* A request with a task is queued or started; it is ended once, and has no
\* result and no answer before.
BioInv ==
  \A r \in Reqs :
    /\ r \in Senders \cup Receivers => bio[r] \in {"queued", "started"}
    /\ ends[r] = IF bio[r] = "ended" THEN 1 ELSE 0
    /\ got[r] # None \/ result[r] # "none" => bio[r] = "ended"

RequestsInv == ReqTypes /\ StatesInv /\ BioInv

AzInv == IInv /\ PoolTypes /\ TasksInv /\ RequestsInv

\* A request that loses its task is ended, or the task could not stay.
LosesNone ==
  \A r \in (Senders \cup Receivers) \ (Senders' \cup Receivers') :
    bio'[r] = "ended" \/ (r = Mine /\ (Cancel \/ Expire \/ CatastropheReturn))

\* A request is ended only while nobody holds the lock of its queue, and how
\* it was ended stays.
EndsUnlocked ==
  \A r \in Reqs :
    /\ bio'[r] = "ended" => bio[r] = "ended" \/ ~LockHeld(DyskOf[r])
    /\ bio[r] = "ended" => result'[r] = result[r] /\ got'[r] = got[r]

\* What a step of the library must show besides PoolTypes: that the worker
\* allows it, and what it does to tasks and requests.
StepOk == [Next]_workerVars /\ TasksInv' /\ RequestsInv' /\ LosesNone /\ EndsUnlocked

\* The types are those of the model, the width of the counter included.
LEMMA TypesAreAzTypes ==
  ASSUME AzInv
  PROVE  AzTypeOK
  BY DEF AzInv, RequestsInv, ReqTypes, PoolTypes, AzTypeOK, SockStates, Message, IInv

\* Blank states are states.
LEMMA BlanksAreStates ==
  BlankSend \in SendState /\ BlankRecv \in RecvState
  BY DEF BlankSend, BlankRecv, SendState, RecvState

\* The states of one request's tasks change.
LEMMA StatesKept ==
  ASSUME RequestsInv, NEW m \in Reqs, NEW x \in SendState, NEW y \in RecvState,
         reqst' = [reqst EXCEPT ![m] = x], resst' = [resst EXCEPT ![m] = y],
         Senders' \ {m} = Senders \ {m}, Receivers' \ {m} = Receivers \ {m},
         m \notin Senders' => x = BlankSend,
         m \notin Receivers' => y = BlankRecv,
         x.try_new_request => x.c = None,
         x.body_sent => x.header_sent /\ x.c # None,
         m \in Receivers' /\ ~y.try_new_request => y.c # None
  PROVE  StatesInv' /\ reqst' \in [Reqs -> SendState] /\ resst' \in [Reqs -> RecvState]
<1>1. /\ reqst'[m] = x /\ \A r \in Reqs : r # m => reqst'[r] = reqst[r]
      /\ resst'[m] = y /\ \A r \in Reqs : r # m => resst'[r] = resst[r]
      /\ reqst' \in [Reqs -> SendState] /\ resst' \in [Reqs -> RecvState]
  BY DEF RequestsInv, ReqTypes
<1>2. \A r \in Reqs : r # m => (r \in Senders' <=> r \in Senders)
                             /\ (r \in Receivers' <=> r \in Receivers)
  OBVIOUS
<1>3. ASSUME NEW r \in Reqs
      PROVE  /\ r \notin Senders' => reqst'[r] = BlankSend
             /\ r \notin Receivers' => resst'[r] = BlankRecv
             /\ reqst'[r].try_new_request => reqst'[r].c = None
             /\ reqst'[r].body_sent => reqst'[r].header_sent /\ reqst'[r].c # None
             /\ r \in Receivers' /\ ~resst'[r].try_new_request => resst'[r].c # None
  <2>1. CASE r = m
    BY <1>1, <2>1
  <2>2. CASE r # m
    BY <1>1, <1>2, <2>2 DEF RequestsInv, StatesInv
  <2> QED BY <2>1, <2>2
<1>4. StatesInv'
  BY <1>3 DEF StatesInv, BlankSend, BlankRecv
<1> QED BY <1>1, <1>4

\* No request is ended and none gets a new task.
LEMMA BioSame ==
  ASSUME RequestsInv, UNCHANGED reqVars,
         Senders' \cup Receivers' \subseteq Senders \cup Receivers
  PROVE  /\ BioInv' /\ bio' = bio /\ ends' = ends /\ result' = result /\ got' = got
         /\ EndsUnlocked
  BY DEF RequestsInv, BioInv, reqVars, EndsUnlocked

\* A request that has no task any more is ended (io_end_request).
LEMMA BioEnds ==
  ASSUME RequestsInv, NEW m \in Reqs, NEW e \in {"OK", "ENODEV", "EROFS"},
         io_end_request(m, e), bio[m] # "ended",
         \/ got' = got
         \/ \E v \in Reqs : got' = [got EXCEPT ![m] = v],
         Senders' \cup Receivers' \subseteq (Senders \cup Receivers) \ {m}
  PROVE  /\ BioInv'
         /\ bio' \in [Reqs -> {"new", "peeked", "queued", "started", "rejecting", "ended"}]
         /\ ends' \in [Reqs -> 0..2]
         /\ result' \in [Reqs -> {"none", "OK", "ENODEV", "EROFS"}]
         /\ got' \in [Reqs -> Reqs \cup {None}]
         /\ EndsUnlocked
         /\ bio'[m] = "ended"
<1>1. ReqTypes /\ BioInv
  BY DEF RequestsInv
<1>2. /\ bio'[m] = "ended" /\ \A r \in Reqs : r # m => bio'[r] = bio[r]
      /\ ends'[m] = ends[m] + 1 /\ \A r \in Reqs : r # m => ends'[r] = ends[r]
      /\ \A r \in Reqs : r # m => result'[r] = result[r]
      /\ \A r \in Reqs : r # m => got'[r] = got[r]
  BY <1>1 DEF ReqTypes, io_end_request
<1>3. ends[m] = 0
  BY <1>1 DEF BioInv
<1>4. BioInv'
  <2>1. ASSUME NEW r \in Reqs
        PROVE  /\ r \in Senders' \cup Receivers' => bio'[r] \in {"queued", "started"}
               /\ ends'[r] = IF bio'[r] = "ended" THEN 1 ELSE 0
               /\ got'[r] # None \/ result'[r] # "none" => bio'[r] = "ended"
    <3>1. CASE r = m
      BY <1>2, <1>3, <3>1
    <3>2. CASE r # m
      BY <1>1, <1>2, <3>2 DEF BioInv
    <3> QED BY <3>1, <3>2
  <2> QED BY <2>1 DEF BioInv
<1>5. /\ bio' \in [Reqs -> {"new", "peeked", "queued", "started", "rejecting", "ended"}]
      /\ ends' \in [Reqs -> 0..2]
      /\ result' \in [Reqs -> {"none", "OK", "ENODEV", "EROFS"}]
  BY <1>1, <1>3 DEF ReqTypes, io_end_request
<1>6. got' \in [Reqs -> Reqs \cup {None}]
  BY <1>1 DEF ReqTypes
<1>7. EndsUnlocked
  BY <1>2 DEF EndsUnlocked, io_end_request
<1> QED BY <1>2, <1>4, <1>5, <1>6, <1>7

-----------------------------------------------------------------------------
(***************************************************************************)
(* The steps of the send task.                                             *)
(***************************************************************************)
\* Where the worker runs a task, with what is known of its request.
LEMMA MineFacts ==
  ASSUME AzInv, wpc \notin {"pass", "stopped"}
  PROVE  /\ ListInv /\ Mine \in Reqs /\ Current.d = DyskOf[Mine] /\ Current.d \in Dysks
         /\ bio[Mine] \in {"queued", "started"}
         /\ reqst[Mine] \in SendState /\ resst[Mine] \in RecvState
         /\ \/ /\ Current.fn = "send" /\ resst[Mine] = BlankRecv
               /\ Mine \in Senders /\ Mine \notin Receivers
            \/ /\ Current.fn = "recv" /\ reqst[Mine] = BlankSend
               /\ Mine \in Receivers /\ Mine \notin Senders
<1>1. ListInv /\ TasksInv /\ RequestsInv
  BY IInvParts DEF AzInv
<1>2. /\ Mine \in Reqs /\ Current.d = DyskOf[Mine] /\ Current.d \in Dysks
      /\ \/ Current.fn = "send" /\ Mine \in Senders /\ Mine \notin Receivers
         \/ Current.fn = "recv" /\ Mine \in Receivers /\ Mine \notin Senders
  BY <1>1, MineIsRequest
<1> QED BY <1>1, <1>2 DEF RequestsInv, ReqTypes, StatesInv, BioInv

\* The call is to be made again, with a state x that was left in order.
LEMMA SendRetryOk ==
  ASSUME AzInv, Sending, NEW res \in Retries, ExecRetry(res), NEW x \in SendState,
         reqst' = [reqst EXCEPT ![Mine] = x], UNCHANGED <<resst, reqVars>>,
         x.try_new_request => x.c = None,
         x.body_sent => x.header_sent /\ x.c # None
  PROVE  StepOk
<1>1. RequestsInv /\ TasksInv /\ wpc = "exec"
  BY DEF AzInv, Sending
<1>2. /\ Mine \in Reqs /\ Mine \in Senders /\ Mine \notin Receivers
      /\ resst[Mine] = BlankRecv
  BY <1>1, MineFacts DEF Sending
<1>3. TasksInv' /\ Senders' = Senders /\ Receivers' = Receivers
  BY <1>1, TasksStay DEF ExecRetry
<1>4. resst' = [resst EXCEPT ![Mine] = BlankRecv]
  BY <1>1, <1>2 DEF RequestsInv, ReqTypes
<1>5. StatesInv' /\ reqst' \in [Reqs -> SendState] /\ resst' \in [Reqs -> RecvState]
  BY <1>1, <1>2, <1>3, <1>4, StatesKept, BlanksAreStates
<1>6. BioInv' /\ bio' = bio /\ ends' = ends /\ result' = result /\ got' = got /\ EndsUnlocked
  BY <1>1, <1>3, BioSame
<1>7. Next
  BY DEF Next, WorkerStep, ExecStep
<1> QED BY <1>1, <1>3, <1>5, <1>6, <1>7 DEF StepOk, LosesNone, RequestsInv, ReqTypes

\* The task is done and queued a task of the same request, with y as the
\* state of a receive task.
LEMMA SendDoneOk ==
  ASSUME AzInv, Sending, NEW y \in RecvState,
         reqst' = [reqst EXCEPT ![Mine] = BlankSend], resst' = [resst EXCEPT ![Mine] = y],
         UNCHANGED reqVars,
         \/ ExecDone(<<SendKid>>) /\ y = BlankRecv
         \/ ExecDone(<<RecvKid>>) /\ y.c # None
  PROVE  StepOk
<1>1. RequestsInv /\ TasksInv /\ ListInv /\ wpc = "exec" /\ Current.fn = "send"
  BY IInvParts DEF AzInv, Sending
<1>2. Mine \in Reqs /\ Mine \in Senders /\ Mine \notin Receivers
  BY <1>1, MineFacts
<1>3. /\ TasksInv'
      /\ \/ y = BlankRecv /\ Senders' = Senders \cup {Mine} /\ Receivers' = Receivers \ {Mine}
         \/ y.c # None /\ Senders' = Senders \ {Mine} /\ Receivers' = Receivers \cup {Mine}
  BY <1>1, TaskSends, TaskReceives DEF ExecDone
<1>4. Next
  BY <1>1, KidsOfMine DEF Next, WorkerStep, ExecStep
<1>5. StatesInv' /\ reqst' \in [Reqs -> SendState] /\ resst' \in [Reqs -> RecvState]
  BY <1>1, <1>2, <1>3, StatesKept, BlanksAreStates DEF BlankSend
<1>6. BioInv' /\ bio' = bio /\ ends' = ends /\ result' = result /\ got' = got /\ EndsUnlocked
  BY <1>1, <1>2, <1>3, BioSame
<1> QED BY <1>1, <1>3, <1>4, <1>5, <1>6 DEF StepOk, LosesNone, RequestsInv, ReqTypes

\* What a call that sends finds in its state, and that making a header keeps
\* the header a header.
LEMMA SendsBytesFacts ==
  ASSUME AzInv, SendsBytes
  PROVE  /\ Sending /\ Mine \in Reqs /\ Current.d = DyskOf[Mine] /\ Current.d \in Dysks
         /\ reqst[Mine] \in SendState /\ ~reqst[Mine].try_new_request /\ ~reqst[Mine].body_sent
         /\ resst[Mine] = BlankRecv /\ resst[Mine] \in RecvState
         /\ HeaderAfter(reqst[Mine].header) \in {"none", "made", "empty"}
<1>1. Sending /\ wpc = "exec" /\ Current.fn = "send"
  BY DEF SendsBytes, SendFresh, Sending
<1>2. /\ Mine \in Reqs /\ Current.d = DyskOf[Mine] /\ Current.d \in Dysks
      /\ reqst[Mine] \in SendState /\ resst[Mine] = BlankRecv /\ resst[Mine] \in RecvState
  BY <1>1, MineFacts
<1>3. ~reqst[Mine].try_new_request /\ ~reqst[Mine].body_sent
  BY <1>2 DEF SendsBytes, SendFresh, AzInv, RequestsInv, StatesInv
<1>4. HeaderAfter(reqst[Mine].header) \in {"none", "made", "empty"}
  BY <1>2 DEF HeaderAfter, SendState
<1> QED BY <1>1, <1>2, <1>3, <1>4

\* Another attempt is queued, or the state remembers that it is to be.
LEMMA QueueSendAgainOk ==
  ASSUME AzInv, Sending, NEW x \in SendState, x.c = None, ~x.body_sent,
         NEW mem \in BOOLEAN, QueueSendAgain(Mine, x, mem), UNCHANGED <<resst, reqVars>>
  PROVE  StepOk
<1>1. Mine \in Reqs /\ resst[Mine] = BlankRecv /\ resst \in [Reqs -> RecvState]
  BY MineFacts DEF Sending, AzInv, RequestsInv, ReqTypes
<1>2. CASE mem
  <2>1. /\ ExecDone(<<SendKid>>)
        /\ reqst' = [reqst EXCEPT ![Mine] = BlankSend]
        /\ resst' = [resst EXCEPT ![Mine] = BlankRecv]
    BY <1>1, <1>2 DEF QueueSendAgain, SendKid
  <2> QED BY <2>1, SendDoneOk, BlanksAreStates
<1>3. CASE ~mem
  <2> DEFINE z == [x EXCEPT !.try_new_request = TRUE]
  <2>1. z \in SendState /\ z.c = None /\ ~z.body_sent
    BY DEF SendState
  <2>2. ExecRetry("retry_now") /\ reqst' = [reqst EXCEPT ![Mine] = z] /\ "retry_now" \in Retries
    BY <1>3 DEF QueueSendAgain, Retries
  <2> HIDE DEF z
  <2> QED BY <2>1, <2>2, SendRetryOk
<1> QED BY <1>2, <1>3

\* The receive task is queued with the connection, or the state remembers
\* that everything is sent.
LEMMA QueueReceiveOk ==
  ASSUME AzInv, Sending, NEW x \in SendState, x.c # None, x.header_sent, ~x.try_new_request,
         NEW mem \in BOOLEAN, QueueReceive(Mine, x, mem), UNCHANGED reqVars
  PROVE  StepOk
<1>1. CASE mem
  <2> DEFINE y == [BlankRecv EXCEPT !.c = x.c]
  <2>1. y \in RecvState /\ y.c # None
    BY DEF BlankRecv, RecvState, SendState
  <2>2. /\ ExecDone(<<RecvKid>>)
        /\ reqst' = [reqst EXCEPT ![Mine] = BlankSend]
        /\ resst' = [resst EXCEPT ![Mine] = y]
    BY <1>1 DEF QueueReceive, RecvKid
  <2> HIDE DEF y
  <2> QED BY <2>1, <2>2, SendDoneOk
<1>2. CASE ~mem
  <2>1. /\ ExecRetry("retry_now") /\ reqst' = [reqst EXCEPT ![Mine] = x]
        /\ resst' = resst /\ "retry_now" \in Retries
    BY <1>2 DEF QueueReceive, Retries
  <2> QED BY <2>1, SendRetryOk
<1> QED BY <1>1, <1>2

\* Every call of the send function is a step of the worker and keeps what is
\* known of the requests (__send_az_req 833-1084).
LEMMA SendStepsOk ==
  ASSUME AzInv, NEW mem \in BOOLEAN,
         \/ SendNoMemory \/ SendNoConnection(mem)
         \/ \E c \in Conns :
              \/ SendConnectFails(c)
              \/ SendBlocked(c, "retry_now") \/ SendBlocked(c, "retry_later")
              \/ SendFails(c, mem) \/ SendAll(c, mem)
         \/ SendMessageSent(mem) \/ SendTryNew(mem)
  PROVE  StepOk
<1>1. "retry_now" \in Retries /\ "retry_later" \in Retries
  BY DEF Retries
<1>2. None \notin Conns
  BY AzParametersAssumption
<1>3. CASE SendNoMemory
  <2>1. /\ Sending /\ reqst[Mine] \in SendState
        /\ ~reqst[Mine].try_new_request /\ ~reqst[Mine].body_sent
    BY <1>3, SendsBytesFacts DEF SendNoMemory
  <2>2. PICK h \in {"none", "made", "empty"} : reqst' = [reqst EXCEPT ![Mine].header = h]
    BY <1>3 DEF SendNoMemory
  <2> DEFINE x == [reqst[Mine] EXCEPT !.header = h]
  <2>3. x \in SendState /\ ~x.try_new_request /\ ~x.body_sent
    BY <2>1 DEF SendState
  <2>4. /\ reqst' = [reqst EXCEPT ![Mine] = x]
        /\ ExecRetry("retry_now") /\ UNCHANGED <<resst, reqVars>>
    BY <1>3, <2>2 DEF SendNoMemory
  <2> HIDE DEF x
  <2> QED BY <1>1, <2>1, <2>3, <2>4, SendRetryOk
<1>4. CASE SendNoConnection(mem)
  <2> DEFINE x == [reqst[Mine] EXCEPT !.header = HeaderAfter(reqst[Mine].header)]
  <2>1. /\ Sending /\ reqst[Mine] \in SendState
        /\ ~reqst[Mine].try_new_request /\ ~reqst[Mine].body_sent
        /\ HeaderAfter(reqst[Mine].header) \in {"none", "made", "empty"}
    BY <1>4, SendsBytesFacts DEF SendNoConnection
  <2>2. x \in SendState /\ ~x.try_new_request /\ ~x.body_sent
    BY <2>1 DEF SendState
  <2>3. /\ reqst' = [reqst EXCEPT ![Mine] = x]
        /\ ExecRetry("retry_later") /\ UNCHANGED <<resst, reqVars>>
    BY <1>4 DEF SendNoConnection
  <2> HIDE DEF x
  <2> QED BY <1>1, <2>1, <2>2, <2>3, SendRetryOk
<1>5. ASSUME NEW c \in Conns, SendConnectFails(c)
      PROVE  StepOk
  <2> DEFINE x == [reqst[Mine] EXCEPT !.header = HeaderAfter(reqst[Mine].header), !.c = c]
  <2>1. /\ Sending /\ Mine \in Reqs /\ reqst[Mine] \in SendState
        /\ ~reqst[Mine].try_new_request /\ ~reqst[Mine].body_sent
        /\ HeaderAfter(reqst[Mine].header) \in {"none", "made", "empty"}
    BY <1>5, SendsBytesFacts DEF SendConnectFails
  <2>2. x \in SendState /\ ~x.try_new_request /\ ~x.body_sent
    BY <2>1 DEF SendState
  <2>3. /\ reqst' = [reqst EXCEPT ![Mine] = x]
        /\ ExecRetry("retry_later") /\ UNCHANGED <<resst, reqVars>>
    BY <1>5, <2>1 DEF SendConnectFails, AzInv, RequestsInv, ReqTypes
  <2> HIDE DEF x
  <2> QED BY <1>1, <2>1, <2>2, <2>3, SendRetryOk
<1>6. ASSUME NEW c \in Conns, NEW res \in Retries, SendBlocked(c, res)
      PROVE  StepOk
  <2>1. /\ Sending /\ Mine \in Reqs /\ reqst[Mine] \in SendState
        /\ ~reqst[Mine].try_new_request /\ ~reqst[Mine].body_sent
        /\ HeaderAfter(reqst[Mine].header) \in {"none", "made", "empty"}
    BY <1>6, SendsBytesFacts DEF SendBlocked
  <2>2. PICK hs \in {reqst[Mine].header_sent, Mine \in Writes} :
          reqst' = [reqst EXCEPT ![Mine] =
            [reqst[Mine] EXCEPT !.c = c, !.header = HeaderAfter(reqst[Mine].header),
                                !.header_sent = hs]]
    BY <1>6 DEF SendBlocked
  <2>3. hs \in BOOLEAN
    <3>1. reqst[Mine].header_sent \in BOOLEAN
      BY <2>1 DEF SendState
    <3>2. (Mine \in Writes) \in BOOLEAN
      OBVIOUS
    <3> QED BY ONLY <3>1, <3>2, Zenon
  <2> DEFINE x == [reqst[Mine] EXCEPT !.c = c, !.header = HeaderAfter(reqst[Mine].header),
                                      !.header_sent = hs]
  <2>4. x \in SendState /\ ~x.try_new_request /\ ~x.body_sent
    BY <2>1, <2>3 DEF SendState
  <2>5. /\ reqst' = [reqst EXCEPT ![Mine] = x]
        /\ ExecRetry(res) /\ UNCHANGED <<resst, reqVars>>
    BY <1>6, <2>2 DEF SendBlocked
  <2> HIDE DEF x
  <2> QED BY <2>1, <2>4, <2>5, SendRetryOk
<1>7. ASSUME NEW c \in Conns, SendFails(c, mem)
      PROVE  StepOk
  <2> DEFINE x == [reqst[Mine] EXCEPT !.c = None, !.header = HeaderAfter(reqst[Mine].header)]
  <2>1. /\ Sending /\ reqst[Mine] \in SendState /\ ~reqst[Mine].body_sent
        /\ HeaderAfter(reqst[Mine].header) \in {"none", "made", "empty"}
    BY <1>7, SendsBytesFacts DEF SendFails
  <2>2. x \in SendState /\ x.c = None /\ ~x.body_sent
    BY <2>1 DEF SendState
  <2>3. QueueSendAgain(Mine, x, mem) /\ UNCHANGED <<resst, reqVars>>
    BY <1>7 DEF SendFails
  <2> HIDE DEF x
  <2> QED BY <2>1, <2>2, <2>3, QueueSendAgainOk
<1>8. ASSUME NEW c \in Conns, SendAll(c, mem)
      PROVE  StepOk
  <2> DEFINE x == [reqst[Mine] EXCEPT !.c = c, !.header = HeaderAfter(reqst[Mine].header),
                                      !.header_sent = TRUE, !.body_sent = TRUE]
  <2>1. /\ Sending /\ reqst[Mine] \in SendState /\ ~reqst[Mine].try_new_request
        /\ HeaderAfter(reqst[Mine].header) \in {"none", "made", "empty"}
    BY <1>8, SendsBytesFacts DEF SendAll
  <2>2. x \in SendState /\ x.c = c /\ x.header_sent /\ ~x.try_new_request
    BY <2>1 DEF SendState
  <2>3. QueueReceive(Mine, x, mem) /\ UNCHANGED reqVars
    BY <1>8 DEF SendAll
  <2> HIDE DEF x
  <2> QED BY <1>2, <2>1, <2>2, <2>3, QueueReceiveOk
<1>9. CASE SendMessageSent(mem)
  <2>1. /\ Sending /\ ~reqst[Mine].try_new_request
        /\ reqst[Mine].header_sent /\ reqst[Mine].body_sent
    BY <1>9 DEF SendMessageSent, SendsBytes, SendFresh
  <2>2. Mine \in Reqs /\ reqst[Mine] \in SendState
    BY <2>1, MineFacts DEF Sending
  <2>3. reqst[Mine].c # None
    BY <2>1, <2>2 DEF AzInv, RequestsInv, StatesInv
  <2> QED BY <1>9, <2>1, <2>2, <2>3, QueueReceiveOk DEF SendMessageSent
<1>10. CASE SendTryNew(mem)
  <2>1. Sending /\ reqst[Mine].try_new_request
    BY <1>10 DEF SendTryNew
  <2>2. Mine \in Reqs /\ reqst[Mine] \in SendState
    BY <2>1, MineFacts DEF Sending
  <2>3. reqst[Mine].c = None /\ ~reqst[Mine].body_sent
    BY <2>1, <2>2 DEF AzInv, RequestsInv, StatesInv
  <2> QED BY <1>10, <2>1, <2>2, <2>3, QueueSendAgainOk DEF SendTryNew
<1> QED BY <1>1, <1>3, <1>4, <1>5, <1>6, <1>7, <1>8, <1>9, <1>10

-----------------------------------------------------------------------------
(***************************************************************************)
(* The steps of the receive task, and the clean-ups.                       *)
(***************************************************************************)
\* The clean-up of a receive task: its request is ended, unless it was to be
\* sent again (__clean_receive_az_response 535-587).
LEMMA CleanRecvOk ==
  ASSUME AzInv, wpc \notin {"pass", "stopped"}, Current.fn = "recv", Next, TasksInv',
         NEW x, CleanRecv(Mine, x), Receivers' = Receivers \ {Mine},
         \/ /\ Senders' = Senders \ {Mine}
            /\ x.try_new_request => Cancel \/ Expire \/ CatastropheReturn
         \/ x.try_new_request /\ Senders' = Senders \cup {Mine},
         \/ got' = got
         \/ ~x.try_new_request /\ \E v \in Reqs : got' = [got EXCEPT ![Mine] = v]
  PROVE  StepOk
<1>1. RequestsInv /\ ReqTypes
  BY DEF AzInv, RequestsInv
<1>2. Mine \in Reqs /\ Mine \in Receivers /\ bio[Mine] \in {"queued", "started"}
  BY MineFacts
<1>3. reqst' = [reqst EXCEPT ![Mine] = BlankSend] /\ resst' = [resst EXCEPT ![Mine] = BlankRecv]
  BY DEF CleanRecv
<1>4. StatesInv' /\ reqst' \in [Reqs -> SendState] /\ resst' \in [Reqs -> RecvState]
  BY <1>1, <1>2, <1>3, StatesKept, BlanksAreStates DEF BlankSend
<1>5. CASE x.try_new_request
  <2>1. UNCHANGED reqVars
    BY <1>5 DEF CleanRecv, reqVars
  <2>2. BioInv' /\ bio' = bio /\ ends' = ends /\ result' = result /\ got' = got /\ EndsUnlocked
    BY <1>1, <1>2, <2>1, BioSame
  <2>3. LosesNone
    BY <1>5 DEF LosesNone
  <2> QED BY <1>1, <1>4, <2>2, <2>3 DEF StepOk, RequestsInv, ReqTypes
<1>6. CASE ~x.try_new_request
  <2>1. io_end_request(Mine, "OK")
    BY <1>6 DEF CleanRecv
  <2>2. Senders' \cup Receivers' \subseteq (Senders \cup Receivers) \ {Mine}
    BY <1>6
  <2>3. /\ BioInv'
        /\ bio' \in [Reqs -> {"new", "peeked", "queued", "started", "rejecting", "ended"}]
        /\ ends' \in [Reqs -> 0..2]
        /\ result' \in [Reqs -> {"none", "OK", "ENODEV", "EROFS"}]
        /\ got' \in [Reqs -> Reqs \cup {None}]
        /\ EndsUnlocked /\ bio'[Mine] = "ended"
    BY <1>1, <1>2, <2>1, <2>2, BioEnds
  <2>4. \A r \in (Senders \cup Receivers) \ (Senders' \cup Receivers') : r = Mine
    OBVIOUS
  <2>5. \A r \in (Senders \cup Receivers) \ (Senders' \cup Receivers') : bio'[r] = "ended"
    BY ONLY <2>3, <2>4
  <2>6. LosesNone
    BY ONLY <2>5 DEF LosesNone
  <2> QED BY <1>4, <2>3, <2>6 DEF StepOk, RequestsInv, ReqTypes
<1> QED BY <1>5, <1>6

\* A task leaves the list without having run, or run out of time
\* (execute 86, 128, 137).
LEMMA CleanStepsOk ==
  ASSUME AzInv, CancelTask \/ ExpireTask \/ FailTask
  PROVE  StepOk
<1>1. /\ wpc \notin {"pass", "stopped"} /\ Dequeue(queue) /\ Clean /\ Next
      /\ Cancel \/ Expire \/ CatastropheReturn
  BY DEF CancelTask, ExpireTask, FailTask, Cancel, Expire, CatastropheReturn, Next, WorkerStep
<1>2. ListInv /\ TasksInv /\ RequestsInv
  BY IInvParts DEF AzInv
<1>3. TasksInv' /\ Senders' = Senders \ {Mine} /\ Receivers' = Receivers \ {Mine}
  BY <1>1, <1>2, TaskEnds
<1>4. got' = got
  BY <1>1 DEF Clean
<1>5. CASE Current.fn = "recv"
  <2>1. CleanRecv(Mine, resst[Mine])
    BY <1>1, <1>5 DEF Clean
  <2> QED BY <1>1, <1>3, <1>4, <1>5, <2>1, CleanRecvOk
<1>6. CASE Current.fn # "recv"
  <2>1. CleanSend(Mine, reqst[Mine])
    BY <1>1, <1>6 DEF Clean
  <2>2. Mine \in Reqs /\ resst[Mine] = BlankRecv /\ Mine \notin Receivers
    BY <1>1, <1>6, MineFacts
  <2>3. /\ reqst' = [reqst EXCEPT ![Mine] = BlankSend]
        /\ resst' = [resst EXCEPT ![Mine] = BlankRecv]
        /\ UNCHANGED reqVars
    BY <1>2, <1>4, <2>1, <2>2 DEF CleanSend, RequestsInv, ReqTypes, reqVars
  <2>4. StatesInv' /\ reqst' \in [Reqs -> SendState] /\ resst' \in [Reqs -> RecvState]
    BY <1>2, <1>3, <2>2, <2>3, StatesKept, BlanksAreStates DEF BlankSend
  <2>5. BioInv' /\ bio' = bio /\ ends' = ends /\ result' = result /\ got' = got /\ EndsUnlocked
    BY <1>2, <1>3, <2>3, BioSame
  <2> QED BY <1>1, <1>2, <1>3, <2>4, <2>5 DEF StepOk, LosesNone, RequestsInv, ReqTypes
<1> QED BY <1>5, <1>6

\* The call is to be made again, with a state y that was left in order.
LEMMA RecvRetryOk ==
  ASSUME AzInv, Receiving, NEW res \in Retries, ExecRetry(res), NEW y \in RecvState,
         resst' = [resst EXCEPT ![Mine] = y], UNCHANGED <<reqst, reqVars>>,
         ~y.try_new_request => y.c # None
  PROVE  StepOk
<1>1. RequestsInv /\ TasksInv /\ wpc = "exec"
  BY DEF AzInv, Receiving
<1>2. /\ Mine \in Reqs /\ Mine \in Receivers /\ Mine \notin Senders
      /\ reqst[Mine] = BlankSend
  BY <1>1, MineFacts DEF Receiving
<1>3. TasksInv' /\ Senders' = Senders /\ Receivers' = Receivers
  BY <1>1, TasksStay DEF ExecRetry
<1>4. reqst' = [reqst EXCEPT ![Mine] = BlankSend]
  BY <1>1, <1>2 DEF RequestsInv, ReqTypes
<1>5. StatesInv' /\ reqst' \in [Reqs -> SendState] /\ resst' \in [Reqs -> RecvState]
  BY <1>1, <1>2, <1>3, <1>4, StatesKept, BlanksAreStates DEF BlankSend
<1>6. BioInv' /\ bio' = bio /\ ends' = ends /\ result' = result /\ got' = got /\ EndsUnlocked
  BY <1>1, <1>3, BioSame
<1>7. Next
  BY DEF Next, WorkerStep, ExecStep
<1> QED BY <1>1, <1>3, <1>5, <1>6, <1>7 DEF StepOk, LosesNone, RequestsInv, ReqTypes

\* The request is queued to be sent again, or the state remembers that it is
\* to be.
LEMMA RecvQueueSendOk ==
  ASSUME AzInv, Receiving, NEW x \in RecvState, x.try_new_request,
         NEW mem \in BOOLEAN, RecvQueueSend(x, mem), got' = got
  PROVE  StepOk
<1>1. TasksInv /\ ListInv /\ wpc = "exec" /\ Current.fn = "recv"
  BY IInvParts DEF AzInv, Receiving
<1>2. CASE mem
  <2>1. ExecDone(<<SendKid>>) /\ CleanRecv(Mine, x)
    BY <1>2 DEF RecvQueueSend, SendKid
  <2>2. TasksInv' /\ Senders' = Senders \cup {Mine} /\ Receivers' = Receivers \ {Mine}
    BY <1>1, <2>1, TaskSends DEF ExecDone
  <2>3. Next
    BY <1>1, <2>1, KidsOfMine DEF Next, WorkerStep, ExecStep
  <2> QED BY <1>1, <2>1, <2>2, <2>3, CleanRecvOk
<1>3. CASE ~mem
  <2>1. /\ ExecRetry("retry_now") /\ resst' = [resst EXCEPT ![Mine] = x]
        /\ UNCHANGED <<reqst, reqVars>> /\ "retry_now" \in Retries
    BY <1>3 DEF RecvQueueSend, Retries, reqVars
  <2> QED BY <2>1, RecvRetryOk
<1> QED BY <1>2, <1>3

\* What a call that reads the response finds in its state.
LEMMA RecvFreshFacts ==
  ASSUME AzInv, RecvFresh
  PROVE  /\ Receiving /\ Mine \in Reqs /\ Current.d = DyskOf[Mine] /\ Current.d \in Dysks
         /\ resst[Mine] \in RecvState /\ ~resst[Mine].try_new_request
         /\ resst[Mine].c \in Conns /\ wire[resst[Mine].c] \in Seq(Message)
         /\ reqst[Mine] = BlankSend
<1>1. Receiving /\ wpc = "exec" /\ Current.fn = "recv" /\ ~resst[Mine].try_new_request
  BY DEF RecvFresh, Receiving
<1>2. /\ Mine \in Reqs /\ Current.d = DyskOf[Mine] /\ Current.d \in Dysks
      /\ resst[Mine] \in RecvState /\ Mine \in Receivers /\ reqst[Mine] = BlankSend
  BY <1>1, MineFacts
<1>3. resst[Mine].c # None
  BY <1>1, <1>2 DEF AzInv, RequestsInv, StatesInv
<1>4. resst[Mine].c \in Conns
  BY <1>2, <1>3 DEF RecvState
<1> QED BY <1>1, <1>2, <1>4 DEF AzInv, PoolTypes

\* Every call of the receive function is a step of the worker and keeps what
\* is known of the requests (__receive_az_response 590-769).
LEMMA RecvStepsOk ==
  ASSUME AzInv, NEW mem \in BOOLEAN,
         \/ RecvNoMemory \/ RecvWait \/ RecvClosed(mem) \/ RecvDone \/ RecvThrottled
         \/ RecvThrottledNoMemory \/ RecvCatastrophe \/ RecvTryNew(mem)
  PROVE  StepOk
<1>1. TasksInv /\ ListInv /\ RequestsInv
  BY IInvParts DEF AzInv
<1>2. CASE RecvNoMemory \/ RecvWait
  <2>1. /\ RecvFresh /\ ExecRetry("retry_later") /\ UNCHANGED azVars
        /\ "retry_later" \in Retries
    BY <1>2 DEF RecvNoMemory, RecvWait, Retries
  <2>2. /\ Receiving /\ Mine \in Reqs /\ resst[Mine] \in RecvState
        /\ resst[Mine].c \in Conns
    BY <2>1, RecvFreshFacts
  <2>3. resst' = [resst EXCEPT ![Mine] = resst[Mine]] /\ UNCHANGED <<reqst, reqVars>>
    BY <1>1, <2>1, <2>2 DEF azVars, RequestsInv, ReqTypes
  <2>4. resst[Mine].c # None
    BY <2>2, AzParametersAssumption
  <2> QED BY <2>1, <2>2, <2>3, <2>4, RecvRetryOk
<1>3. CASE RecvClosed(mem)
  <2> DEFINE x == [c |-> None, try_new_request |-> TRUE]
  <2>1. Receiving /\ RecvQueueSend(x, mem) /\ got' = got
    BY <1>3 DEF RecvClosed, RecvFresh
  <2>2. x \in RecvState /\ x.try_new_request
    BY DEF RecvState
  <2> HIDE DEF x
  <2> QED BY <2>1, <2>2, RecvQueueSendOk
<1>4. CASE RecvDone
  <2>1. RecvFresh /\ Answered(resst[Mine].c) /\ ExecDone(<<>>) /\ CleanRecv(Mine, resst[Mine])
    BY <1>4 DEF RecvDone, ReadsAnswer
  <2>2. /\ Receiving /\ wpc = "exec" /\ Current.fn = "recv" /\ Mine \in Reqs
        /\ ~resst[Mine].try_new_request /\ wire[resst[Mine].c] \in Seq(Message)
    BY <2>1, RecvFreshFacts DEF Receiving
  <2>3. Head(wire[resst[Mine].c]).req \in Reqs
    <3>1. Head(wire[resst[Mine].c]) \in Message
      BY <2>1, <2>2, HeadTailProperties DEF Answered
    <3> QED BY <3>1 DEF Message
  <2>4. \E v \in Reqs : got' = [got EXCEPT ![Mine] = v]
    BY <1>4, <2>3 DEF RecvDone
  <2>5. Dequeue(queue)
    BY <1>1, <2>1, ConcatEmptySeq DEF ExecDone, ListInv
  <2>6. TasksInv' /\ Senders' = Senders \ {Mine} /\ Receivers' = Receivers \ {Mine}
    BY <1>1, <2>2, <2>5, TaskEnds
  <2>7. Next
    BY <2>1, <2>2 DEF Next, WorkerStep, ExecStep, KidsOf
  <2> QED BY <2>1, <2>2, <2>4, <2>6, <2>7, CleanRecvOk
<1>5. CASE RecvThrottled
  <2> DEFINE x == [resst[Mine] EXCEPT !.try_new_request = TRUE]
  <2>1. RecvFresh /\ ExecThrottle(<<SendKid>>) /\ CleanRecv(Mine, x) /\ got' = got
    BY <1>5 DEF RecvThrottled, ReadsAnswer, SendKid
  <2>2. /\ Receiving /\ wpc = "exec" /\ Current.fn = "recv" /\ resst[Mine] \in RecvState
    BY <2>1, RecvFreshFacts DEF Receiving
  <2>3. x.try_new_request
    BY <2>2 DEF RecvState
  <2>4. TasksInv' /\ Senders' = Senders \cup {Mine} /\ Receivers' = Receivers \ {Mine}
    BY <1>1, <2>1, <2>2, TaskSends DEF ExecThrottle
  <2>5. Next
    BY <1>1, <2>1, <2>2, KidsOfMine DEF Next, WorkerStep, ExecStep
  <2> HIDE DEF x
  <2> QED BY <2>1, <2>2, <2>3, <2>4, <2>5, CleanRecvOk
<1>6. CASE RecvThrottledNoMemory
  <2> DEFINE x == [resst[Mine] EXCEPT !.try_new_request = TRUE]
  <2>1. RecvFresh /\ RecvQueueSend(x, FALSE) /\ got' = got
    BY <1>6 DEF RecvThrottledNoMemory, ReadsAnswer
  <2>2. Receiving /\ resst[Mine] \in RecvState
    BY <2>1, RecvFreshFacts
  <2>3. x \in RecvState /\ x.try_new_request
    BY <2>2 DEF RecvState
  <2> HIDE DEF x
  <2> QED BY <2>1, <2>2, <2>3, RecvQueueSendOk
<1>7. CASE RecvCatastrophe
  <2>1. ExecCatastrophe /\ UNCHANGED <<reqst, resst, reqVars>>
    BY <1>7 DEF RecvCatastrophe
  <2>2. TasksInv' /\ Senders' = Senders /\ Receivers' = Receivers
    BY <1>1, <2>1, TasksStay DEF ExecCatastrophe
  <2>3. BioInv' /\ bio' = bio /\ ends' = ends /\ result' = result /\ got' = got /\ EndsUnlocked
    BY <1>1, <2>1, <2>2, BioSame
  <2>4. StatesInv'
    BY <1>1, <2>1, <2>2 DEF RequestsInv, StatesInv, BlankSend, BlankRecv
  <2>5. Next
    BY <2>1 DEF Next, WorkerStep, ExecStep
  <2> QED BY <1>1, <2>1, <2>2, <2>3, <2>4, <2>5 DEF StepOk, LosesNone, RequestsInv, ReqTypes
<1>8. CASE RecvTryNew(mem)
  <2>1. Receiving /\ resst[Mine].try_new_request /\ RecvQueueSend(resst[Mine], mem) /\ got' = got
    BY <1>8 DEF RecvTryNew
  <2>2. resst[Mine] \in RecvState
    BY <2>1, MineFacts DEF Receiving
  <2> QED BY <2>1, <2>2, RecvQueueSendOk
<1> QED BY <1>2, <1>3, <1>4, <1>5, <1>6, <1>7, <1>8

-----------------------------------------------------------------------------
(***************************************************************************)
(* The other threads, and the worker where it runs no task function.       *)
(***************************************************************************)
\* A step that leaves tasks and requests alone.
LEMMA ElsewhereOk ==
  ASSUME AzInv, [Next]_workerVars, queue' = queue, UNCHANGED <<reqst, resst, reqVars>>
  PROVE  StepOk
<1>1. TasksInv /\ RequestsInv
  BY DEF AzInv
<1>2. TasksInv' /\ Senders' = Senders /\ Receivers' = Receivers
  BY <1>1, TasksStay
<1>3. BioInv' /\ bio' = bio /\ ends' = ends /\ result' = result /\ got' = got /\ EndsUnlocked
  BY <1>1, <1>2, BioSame
<1>4. StatesInv'
  BY <1>1, <1>2 DEF RequestsInv, StatesInv, BlankSend, BlankRecv
<1> QED BY <1>1, <1>2, <1>3, <1>4 DEF StepOk, LosesNone, RequestsInv, ReqTypes

\* The other steps of the worker, and what is not the module's.
LEMMA OtherStepsOk ==
  ASSUME AzInv, WorkerMoves \/ Server \/ Network \/ Deleter \/ Clock
  PROVE  StepOk
<1>1. CASE WorkerMoves
  <2>1. Next /\ queue' = queue
    BY <1>1 DEF WorkerMoves, Next, WorkerStep, BeginPass, Yield, SkipThrottled, StartExec, Stay,
                Keep, workerVars
  <2> QED BY <1>1, <2>1, ElsewhereOk DEF WorkerMoves, azVars
<1>2. CASE Server \/ Network
  <2>1. UNCHANGED <<workerVars, reqst, resst, reqVars>>
    BY <1>2 DEF Server, Network, ServerAnswers, ConnectionBreaks
  <2> QED BY <2>1, ElsewhereOk DEF workerVars
<1>3. CASE Deleter
  <2>1. PICK d \in Dysks : MarkDeleting(d) /\ UNCHANGED azVars
    BY <1>3 DEF Deleter
  <2>2. Next /\ queue' = queue
    BY <2>1 DEF Next, Environment, MarkDeleting
  <2> QED BY <2>1, <2>2, ElsewhereOk DEF azVars
<1>4. CASE Clock
  <2>1. Next /\ queue' = queue /\ UNCHANGED azVars
    BY <1>4 DEF Clock, Next, Environment, Tick
  <2> QED BY <2>1, ElsewhereOk DEF azVars
<1> QED BY <1>1, <1>2, <1>3, <1>4

\* The block layer's request moves by itself.
LEMMA BioMoves ==
  ASSUME RequestsInv, NEW r \in Reqs, NEW b \in {"peeked", "queued", "started", "rejecting"},
         bio[r] # "ended", bio' = [bio EXCEPT ![r] = b], UNCHANGED <<ends, result, got>>,
         Senders' \cup Receivers' \subseteq Senders \cup Receivers \cup {r},
         r \in Senders' \cup Receivers' => b \in {"queued", "started"}
  PROVE  /\ BioInv'
         /\ bio' \in [Reqs -> {"new", "peeked", "queued", "started", "rejecting", "ended"}]
         /\ ends' \in [Reqs -> 0..2]
         /\ result' \in [Reqs -> {"none", "OK", "ENODEV", "EROFS"}]
         /\ got' \in [Reqs -> Reqs \cup {None}]
         /\ EndsUnlocked
<1>1. /\ bio'[r] = b /\ \A q \in Reqs : q # r => bio'[q] = bio[q]
      /\ bio' \in [Reqs -> {"new", "peeked", "queued", "started", "rejecting", "ended"}]
  BY DEF RequestsInv, ReqTypes
<1>2. ASSUME NEW q \in Reqs
      PROVE  /\ q \in Senders' \cup Receivers' => bio'[q] \in {"queued", "started"}
             /\ ends'[q] = IF bio'[q] = "ended" THEN 1 ELSE 0
             /\ got'[q] # None \/ result'[q] # "none" => bio'[q] = "ended"
  <2>1. CASE q = r
    BY <1>1, <2>1 DEF RequestsInv, BioInv
  <2>2. CASE q # r
    BY <1>1, <2>2 DEF RequestsInv, BioInv
  <2> QED BY <2>1, <2>2
<1> QED BY <1>1, <1>2 DEF BioInv, RequestsInv, ReqTypes, EndsUnlocked

\* The steps of io_request() and of az_do_request() (dysk_bdd.c 802-860,
\* az.c 1089-1107): only the latter puts a task on the list, of a request
\* that has none.
LEMMA BlockLayerOk ==
  ASSUME AzInv, BlockLayer
  PROVE  StepOk
<1>1. TasksInv /\ RequestsInv /\ ReqTypes /\ ListInv /\ FieldsInv
  BY IInvParts DEF AzInv, RequestsInv
<1>2. PICK r \in Reqs : IoRequest(r) \/ IoRequestReject(r) \/ az_do_request(r) \/ IoRequestStart(r)
  BY DEF BlockLayer
<1>3. ASSUME UNCHANGED <<workerVars, reqst, resst>>
      PROVE  /\ [Next]_workerVars
             /\ TasksInv' /\ Senders' = Senders /\ Receivers' = Receivers
             /\ StatesInv'
             /\ reqst' \in [Reqs -> SendState] /\ resst' \in [Reqs -> RecvState]
  <2>1. queue' = queue
    BY <1>3 DEF workerVars
  <2>2. TasksInv' /\ Senders' = Senders /\ Receivers' = Receivers
    BY <1>1, <2>1, TasksStay
  <2>3. StatesInv'
    BY <1>1, <1>3, <2>2 DEF RequestsInv, StatesInv, BlankSend, BlankRecv
  <2> QED BY <1>1, <1>3, <2>2, <2>3 DEF RequestsInv, ReqTypes
<1>4. bio[r] \in {"new", "peeked"} => r \notin Senders /\ r \notin Receivers
  BY <1>1 DEF RequestsInv, BioInv
<1>5. CASE IoRequest(r)
  <2>1. /\ bio[r] = "new" /\ bio' = [bio EXCEPT ![r] = "peeked"]
        /\ UNCHANGED <<ends, result, got>> /\ UNCHANGED <<workerVars, reqst, resst>>
    BY <1>5 DEF IoRequest
  <2> QED BY <1>1, <1>3, <1>4, <2>1, BioMoves DEF StepOk, LosesNone, RequestsInv, ReqTypes
<1>6. CASE IoRequestStart(r)
  <2>1. /\ bio[r] = "queued" /\ bio' = [bio EXCEPT ![r] = "started"]
        /\ UNCHANGED <<ends, result, got>> /\ UNCHANGED <<workerVars, reqst, resst>>
    BY <1>6 DEF IoRequestStart
  <2> QED BY <1>1, <1>3, <2>1, BioMoves DEF StepOk, LosesNone, RequestsInv, ReqTypes
<1>7. CASE IoRequestReject(r)
  <2>1. /\ bio[r] = "new" /\ got' = got /\ UNCHANGED <<workerVars, reqst, resst>>
    BY <1>7 DEF IoRequestReject
  <2>2. CASE SMP
    <3>1. bio' = [bio EXCEPT ![r] = "rejecting"] /\ UNCHANGED <<ends, result, got>>
      BY <1>7, <2>2 DEF IoRequestReject
    <3> QED BY <1>1, <1>3, <1>4, <2>1, <3>1, BioMoves DEF StepOk, LosesNone, RequestsInv, ReqTypes
  <2>3. CASE ~SMP
    <3>1. PICK e \in {"ENODEV", "EROFS"} : io_end_request(r, e)
      BY <1>7, <2>3 DEF IoRequestReject
    <3>2. Senders' \cup Receivers' \subseteq (Senders \cup Receivers) \ {r}
      BY <1>3, <1>4, <2>1
    <3>3. /\ BioInv'
          /\ bio' \in [Reqs -> {"new", "peeked", "queued", "started", "rejecting", "ended"}]
          /\ ends' \in [Reqs -> 0..2]
          /\ result' \in [Reqs -> {"none", "OK", "ENODEV", "EROFS"}]
          /\ got' \in [Reqs -> Reqs \cup {None}]
          /\ EndsUnlocked
      BY <1>1, <2>1, <3>1, <3>2, BioEnds
    <3> QED BY <1>3, <2>1, <3>3 DEF StepOk, LosesNone, RequestsInv, ReqTypes
  <2> QED BY <2>2, <2>3
<1>8. CASE az_do_request(r)
  <2> DEFINE t == NewTask("send", ReqObject(r), DyskOf[r], "normal")
  <2>1. /\ bio[r] = "peeked" /\ bio' = [bio EXCEPT ![r] = "queued"]
        /\ UNCHANGED <<ends, result, got>>
        /\ reqst' = [reqst EXCEPT ![r] = BlankSend] /\ resst' = resst
        /\ queue_w_task("send", ReqObject(r), DyskOf[r], "normal")
        /\ queue' = Append(queue, t)
    BY <1>8 DEF az_do_request, queue_w_task
  <2>2. /\ "send" \in Fns /\ ReqObject(r) \in States /\ DyskOf[r] \in Dysks /\ "normal" \in Modes
        /\ Timeout \in Nat
    BY AzParametersAssumption, ParametersAssumption DEF Modes, ReqObject, Objects
  <2>3. t \in Task /\ TaskOk(t) /\ t.state = ReqObject(r)
    BY <1>1, <2>2, ObjectsDiffer DEF NewTask, Task, FieldsInv, TaskOk
  <2>4. Next
    BY <2>1, <2>2 DEF Next, Environment
  <2>5. TasksInv' /\ Senders' = Senders \cup {r} /\ Receivers' = Receivers
    BY <1>1, <1>4, <2>1, <2>3, AppendTasks
  <2>6. resst[r] = BlankRecv /\ resst' = [resst EXCEPT ![r] = BlankRecv]
    BY <1>1, <1>4, <2>1 DEF RequestsInv, StatesInv, ReqTypes
  <2>7. StatesInv' /\ reqst' \in [Reqs -> SendState] /\ resst' \in [Reqs -> RecvState]
    BY <1>1, <1>4, <2>1, <2>5, <2>6, StatesKept, BlanksAreStates, ZenonT(40) DEF BlankSend
  <2> HIDE DEF t
  <2>8. /\ BioInv'
        /\ bio' \in [Reqs -> {"new", "peeked", "queued", "started", "rejecting", "ended"}]
        /\ ends' \in [Reqs -> 0..2]
        /\ result' \in [Reqs -> {"none", "OK", "ENODEV", "EROFS"}]
        /\ got' \in [Reqs -> Reqs \cup {None}]
        /\ EndsUnlocked
    BY <1>1, <2>1, <2>5, BioMoves
  <2> QED BY <2>4, <2>5, <2>7, <2>8 DEF StepOk, LosesNone, RequestsInv, ReqTypes
<1> QED BY <1>2, <1>5, <1>6, <1>7, <1>8

-----------------------------------------------------------------------------
(***************************************************************************)
(* The types of the pools.                                                 *)
(***************************************************************************)
\* A counter of the pool's width stays one.
LEMMA CountRange ==
  ASSUME NEW n \in 0..(UIntModulus - 1)
  PROVE  /\ (n + 1) % UIntModulus \in 0..(UIntModulus - 1)
         /\ (n + UIntModulus - 1) % UIntModulus \in 0..(UIntModulus - 1)
  BY AzParametersAssumption

\* What connection_pool_get takes from a pool is at no other place of it
\* (az.c 254-283).
LEMMA PoolTail ==
  ASSUME NEW ff \in [Dysks -> Seq(Conns)], NEW d \in Dysks, ff[d] # <<>>
  PROVE  LET f == [ff EXCEPT ![d] = Tail(@)] IN
         /\ Head(ff[d]) = ff[d][1] /\ 1 \in 1..Len(ff[d]) /\ Head(ff[d]) \in Conns
         /\ f \in [Dysks -> Seq(Conns)]
         /\ \A e \in Dysks : e # d => f[e] = ff[e]
         /\ Len(f[d]) = Len(ff[d]) - 1
         /\ \A i \in 1..Len(f[d]) : i + 1 \in 1..Len(ff[d]) /\ f[d][i] = ff[d][i + 1]
<1>1. ff[d] \in Seq(Conns) /\ Len(ff[d]) \in Nat /\ Len(ff[d]) > 0
  BY LenProperties, EmptySeq
<1>2. /\ Head(ff[d]) = ff[d][1] /\ Head(ff[d]) \in Conns
      /\ Tail(ff[d]) \in Seq(Conns) /\ Len(Tail(ff[d])) = Len(ff[d]) - 1
      /\ \A i \in 1..(Len(ff[d]) - 1) : Tail(ff[d])[i] = ff[d][i + 1]
  BY <1>1, HeadTailProperties
<1> QED BY <1>1, <1>2

\* What connection_pool_put gives back is behind the rest of the pool
\* (az.c 309-342).
LEMMA PoolAppend ==
  ASSUME NEW ff \in [Dysks -> Seq(Conns)], NEW d \in Dysks, NEW c \in Conns
  PROVE  LET f == [ff EXCEPT ![d] = Append(@, c)] IN
         /\ f \in [Dysks -> Seq(Conns)]
         /\ \A e \in Dysks : e # d => f[e] = ff[e]
         /\ Len(f[d]) = Len(ff[d]) + 1 /\ Len(ff[d]) \in Nat
         /\ f[d][Len(ff[d]) + 1] = c
         /\ \A i \in 1..Len(ff[d]) : f[d][i] = ff[d][i]
  BY AppendProperties, LenProperties

\* What connection_pool_get leaves (az.c 288-315).
LEMMA TakesTypes ==
  ASSUME PoolTypes, NEW d \in Dysks, NEW h, NEW c \in Conns
  PROVE  /\ FifoAfter(d, h) \in [Dysks -> Seq(Conns)]
         /\ CountAfter(d, h, c) \in [Dysks -> 0..(UIntModulus - 1)]
         /\ SockAfter(d, h, c) \in [Conns -> SockStates]
<1>1. FifoAfter(d, h) \in [Dysks -> Seq(Conns)]
  BY PoolTail DEF PoolTypes, FifoAfter
<1>2. count[d] \in 0..(UIntModulus - 1)
  BY DEF PoolTypes
<1>3. CountAfter(d, h, c) \in [Dysks -> 0..(UIntModulus - 1)]
  BY <1>2, CountRange DEF PoolTypes, CountAfter
<1>4. SockAfter(d, h, c) \in [Conns -> SockStates]
  BY DEF PoolTypes, SockAfter, SockStates
<1> QED BY <1>1, <1>3, <1>4

\* What connection_pool_put leaves (az.c 274-285).
LEMMA PutTypes ==
  ASSUME PoolTypes, NEW d \in Dysks, NEW c \in Conns \cup {None}, PutOk(d, c)
  PROVE  fifo' \in [Dysks -> Seq(Conns)]
  BY PoolAppend DEF PoolTypes, PutOk

\* The same for a connection that failed.
LEMMA DropTypes ==
  ASSUME PoolTypes, NEW d \in Dysks, NEW c \in Conns,
         NEW n \in [Dysks -> 0..(UIntModulus - 1)], NEW k \in [Conns -> SockStates],
         Drop(d, c, n, k)
  PROVE  /\ count' \in [Dysks -> 0..(UIntModulus - 1)]
         /\ sock' \in [Conns -> SockStates]
         /\ wire' \in [Conns -> Seq(Message)]
<1>1. n[d] \in 0..(UIntModulus - 1) /\ <<>> \in Seq(Message)
  BY EmptySeq
<1>2. count' \in [Dysks -> 0..(UIntModulus - 1)]
  BY <1>1, CountRange DEF Drop
<1> QED BY <1>1, <1>2 DEF Drop, SockStates, PoolTypes

\* The clean-ups put back the connection of the request, if it has one.
LEMMA CleanRecvFifo ==
  ASSUME AzInv, wpc \notin {"pass", "stopped"}, NEW x \in RecvState, CleanRecv(Mine, x)
  PROVE  fifo' \in [Dysks -> Seq(Conns)]
<1>1. PoolTypes /\ Current.d \in Dysks /\ x.c \in Conns \cup {None} /\ PutOk(Current.d, x.c)
  BY MineFacts DEF AzInv, CleanRecv, RecvState
<1> QED BY <1>1, PutTypes

\* Every step keeps the types of the pools.
LEMMA PoolTypesKept ==
  ASSUME AzInv, AzNext
  PROVE  PoolTypes'
<1>1. PoolTypes
  BY DEF AzInv
<1>2. ASSUME UNCHANGED poolVars
      PROVE  PoolTypes'
  BY <1>1, <1>2 DEF PoolTypes, poolVars
<1>3. ASSUME SendNoMemory \/ (\E mem \in BOOLEAN : SendNoConnection(mem) \/ SendMessageSent(mem) \/ SendTryNew(mem))
      PROVE  PoolTypes'
  BY <1>2, <1>3 DEF SendNoMemory, SendNoConnection, SendMessageSent, SendTryNew
<1>4. ASSUME NEW c \in Conns, SendConnectFails(c)
      PROVE  PoolTypes'
  BY <1>1, <1>4 DEF SendConnectFails, PoolTypes, SockStates
<1>5. ASSUME NEW c \in Conns, NEW res \in Retries, SendBlocked(c, res)
      PROVE  PoolTypes'
  <2>1. Current.d \in Dysks
    BY <1>5, SendsBytesFacts DEF SendBlocked
  <2>2. /\ fifo' = FifoAfter(Current.d, reqst[Mine].c)
        /\ count' = CountAfter(Current.d, reqst[Mine].c, c)
        /\ sock' = SockAfter(Current.d, reqst[Mine].c, c)
        /\ wire' = wire
    BY <1>5 DEF SendBlocked
  <2> QED BY <1>1, <2>1, <2>2, TakesTypes DEF PoolTypes
<1>6. ASSUME NEW c \in Conns, NEW mem \in BOOLEAN, SendFails(c, mem)
      PROVE  PoolTypes'
  <2> DEFINE n == CountAfter(Current.d, reqst[Mine].c, c)
             k == SockAfter(Current.d, reqst[Mine].c, c)
  <2>1. Current.d \in Dysks
    BY <1>6, SendsBytesFacts DEF SendFails
  <2>2. Drop(Current.d, c, n, k) /\ fifo' = FifoAfter(Current.d, reqst[Mine].c)
    BY <1>6 DEF SendFails
  <2>3. /\ n \in [Dysks -> 0..(UIntModulus - 1)] /\ k \in [Conns -> SockStates]
        /\ fifo' \in [Dysks -> Seq(Conns)]
    BY <1>1, <2>1, <2>2, TakesTypes
  <2> HIDE DEF n, k
  <2> QED BY <1>1, <2>1, <2>2, <2>3, DropTypes DEF PoolTypes
<1>7. ASSUME NEW c \in Conns, NEW mem \in BOOLEAN, SendAll(c, mem)
      PROVE  PoolTypes'
  <2> DEFINE m == [req |-> Mine, whole |-> HeaderAfter(reqst[Mine].header) = "made", code |-> "none"]
  <2>1. Current.d \in Dysks /\ Mine \in Reqs /\ reqst[Mine] \in SendState
    BY <1>7, SendsBytesFacts DEF SendAll
  <2>2. /\ fifo' = FifoAfter(Current.d, reqst[Mine].c)
        /\ count' = CountAfter(Current.d, reqst[Mine].c, c)
        /\ sock' = SockAfter(Current.d, reqst[Mine].c, c)
    BY <1>7 DEF SendAll
  <2>3. wire' = wire \/ wire' = [wire EXCEPT ![c] = Append(@, m)]
    BY <1>7, <2>1 DEF SendAll, AzInv, RequestsInv, ReqTypes, SendState
  <2>4. m \in Message
    BY <2>1 DEF Message
  <2> HIDE DEF m
  <2>5. wire' \in [Conns -> Seq(Message)]
    <3>1. Append(wire[c], m) \in Seq(Message)
      BY <1>1, <2>4, AppendProperties DEF PoolTypes
    <3> QED BY <1>1, <2>3, <3>1 DEF PoolTypes
  <2> QED BY <1>1, <2>1, <2>2, <2>5, TakesTypes DEF PoolTypes
<1>8. ASSUME RecvNoMemory \/ RecvWait
      PROVE  PoolTypes'
  BY <1>2, <1>8 DEF RecvNoMemory, RecvWait, azVars
<1>9. ASSUME Receiving, NEW x \in RecvState, NEW mem \in BOOLEAN, RecvQueueSend(x, mem)
      PROVE  fifo' \in [Dysks -> Seq(Conns)]
  BY <1>1, <1>9, CleanRecvFifo DEF RecvQueueSend, Receiving, PoolTypes
<1>10. ASSUME NEW mem \in BOOLEAN, RecvClosed(mem)
       PROVE  PoolTypes'
  <2> DEFINE x == [c |-> None, try_new_request |-> TRUE]
  <2>1. RecvFresh /\ Drop(Current.d, resst[Mine].c, count, sock) /\ RecvQueueSend(x, mem)
    BY <1>10 DEF RecvClosed
  <2>2. /\ Receiving /\ Current.d \in Dysks /\ resst[Mine].c \in Conns
        /\ count \in [Dysks -> 0..(UIntModulus - 1)] /\ sock \in [Conns -> SockStates]
    BY <1>1, <2>1, RecvFreshFacts DEF PoolTypes
  <2>3. x \in RecvState
    BY DEF RecvState
  <2> HIDE DEF x
  <2>4. fifo' \in [Dysks -> Seq(Conns)]
    BY <1>9, <2>1, <2>2, <2>3
  <2>5. /\ count' \in [Dysks -> 0..(UIntModulus - 1)] /\ sock' \in [Conns -> SockStates]
        /\ wire' \in [Conns -> Seq(Message)]
    BY <1>1, <2>1, <2>2, DropTypes
  <2> QED BY <2>4, <2>5 DEF PoolTypes
<1>11. ASSUME NEW code, ReadsAnswer(code)
       PROVE  wire' \in [Conns -> Seq(Message)]
  <2>1. RecvFresh /\ wire[resst[Mine].c] # <<>> /\ wire' = [wire EXCEPT ![resst[Mine].c] = Tail(@)]
    BY <1>11 DEF ReadsAnswer, Answered
  <2>2. resst[Mine].c \in Conns /\ wire[resst[Mine].c] \in Seq(Message)
    BY <2>1, RecvFreshFacts
  <2> QED BY <1>1, <2>1, <2>2, HeadTailProperties DEF PoolTypes
<1>12. CASE RecvDone \/ RecvThrottled \/ RecvThrottledNoMemory \/ RecvCatastrophe
  <2>1. RecvFresh /\ wire' \in [Conns -> Seq(Message)] /\ count' = count /\ sock' = sock
    BY <1>11, <1>12 DEF RecvDone, RecvThrottled, RecvThrottledNoMemory, RecvCatastrophe, ReadsAnswer
  <2>2. /\ Receiving /\ wpc \notin {"pass", "stopped"} /\ resst[Mine] \in RecvState
        /\ [resst[Mine] EXCEPT !.try_new_request = TRUE] \in RecvState
    BY <2>1, RecvFreshFacts DEF Receiving, RecvState
  <2>3. fifo' \in [Dysks -> Seq(Conns)]
    <3>1. CASE RecvDone \/ RecvThrottled
      BY <2>2, <3>1, CleanRecvFifo DEF RecvDone, RecvThrottled
    <3>2. CASE RecvThrottledNoMemory
      BY <1>9, <2>2, <3>2 DEF RecvThrottledNoMemory
    <3>3. CASE RecvCatastrophe
      BY <1>1, <3>3 DEF RecvCatastrophe, PoolTypes
    <3> QED BY <1>12, <3>1, <3>2, <3>3
  <2> QED BY <1>1, <2>1, <2>3 DEF PoolTypes
<1>13. ASSUME NEW mem \in BOOLEAN, RecvTryNew(mem)
       PROVE  PoolTypes'
  <2>1. Receiving /\ RecvQueueSend(resst[Mine], mem) /\ UNCHANGED <<count, sock, wire>>
    BY <1>13 DEF RecvTryNew
  <2>2. resst[Mine] \in RecvState
    BY <2>1, MineFacts DEF Receiving
  <2> QED BY <1>1, <1>9, <2>1, <2>2 DEF PoolTypes
<1>14. ASSUME CancelTask \/ ExpireTask \/ FailTask
       PROVE  PoolTypes'
  <2>1. wpc \notin {"pass", "stopped"} /\ Clean /\ UNCHANGED <<count, sock, wire>>
    BY <1>14 DEF CancelTask, ExpireTask, FailTask, Cancel, Expire, CatastropheReturn, Clean
  <2>2. reqst[Mine] \in SendState /\ resst[Mine] \in RecvState /\ Current.d \in Dysks
    BY <2>1, MineFacts
  <2>3. fifo' \in [Dysks -> Seq(Conns)]
    <3>1. CASE CleanRecv(Mine, resst[Mine])
      BY <2>1, <2>2, <3>1, CleanRecvFifo
    <3>2. CASE CleanSend(Mine, reqst[Mine])
      <4>1. fifo' = fifo \/ PutOk(Current.d, reqst[Mine].c)
        BY <3>2 DEF CleanSend
      <4> QED BY <1>1, <2>2, <4>1, PutTypes DEF PoolTypes, SendState
    <3> QED BY <2>1, <3>1, <3>2 DEF Clean
  <2> QED BY <1>1, <2>1, <2>3 DEF PoolTypes
<1>15. ASSUME WorkerMoves \/ BlockLayer \/ Deleter \/ Clock
       PROVE  PoolTypes'
  <2>1. UNCHANGED poolVars
    BY <1>15 DEF WorkerMoves, BlockLayer, Deleter, Clock, azVars, IoRequest, IoRequestReject,
                 az_do_request, IoRequestStart
  <2> QED BY <1>2, <2>1
<1>16. CASE Network
  BY <1>1, <1>16 DEF Network, ConnectionBreaks, PoolTypes, SockStates
<1>17. CASE Server
  <2>1. PICK c \in Conns, code \in {"ok", "throttle", "fatal"} : ServerAnswers(c, code)
    BY <1>17 DEF Server
  <2> DEFINE i == CHOOSE k \in Unanswered(c) : \A j \in Unanswered(c) : k <= j
  <2>2. wire' = [wire EXCEPT ![c][i].code = code] /\ UNCHANGED <<fifo, count, sock>>
    BY <2>1 DEF ServerAnswers
  <2> HIDE DEF i
  <2>3. wire[c] \in Seq(Message)
    BY <1>1 DEF PoolTypes
  <2>4. [wire[c] EXCEPT ![i].code = code] \in Seq(Message)
    <3>1. CASE i \in 1..Len(wire[c])
      <4>1. wire[c][i] \in Message
        BY <2>3, <3>1, ElementOfSeq
      <4>2. [wire[c][i] EXCEPT !.code = code] \in Message
        BY <4>1 DEF Message
      <4>3. [wire[c] EXCEPT ![i] = [wire[c][i] EXCEPT !.code = code]] \in Seq(Message)
        BY <2>3, <3>1, <4>2, ExceptSeq
      <4> QED BY <2>3, <3>1, <4>3
    <3>2. CASE i \notin 1..Len(wire[c])
      <4>1. [wire[c] EXCEPT ![i].code = code] = wire[c]
        BY <2>3, <3>2
      <4> QED BY <2>3, <4>1
    <3> QED BY <3>1, <3>2
  <2> QED BY <1>1, <2>2, <2>4 DEF PoolTypes
<1> QED
  BY <1>3, <1>4, <1>5, <1>6, <1>7, <1>8, <1>10, <1>12, <1>13, <1>14, <1>15, <1>16, <1>17
  DEF AzNext, AzWorker, AzFaults, Retries

-----------------------------------------------------------------------------
(***************************************************************************)
(* What holds of the transfer library.                                     *)
(***************************************************************************)
\* Every step is one the worker allows and keeps the invariant of requests.
LEMMA AzStepOk ==
  ASSUME AzInv, AzNext
  PROVE  StepOk
<1>1. TRUE \in BOOLEAN /\ FALSE \in BOOLEAN
  OBVIOUS
<1>2. CASE AzWorker
  <2>1. CASE \/ SendNoConnection(TRUE)
             \/ \E c \in Conns : SendFails(c, TRUE) \/ SendAll(c, TRUE)
             \/ SendMessageSent(TRUE) \/ SendTryNew(TRUE)
    BY <1>1, <2>1, SendStepsOk
  <2>2. CASE \/ RecvWait \/ RecvClosed(TRUE) \/ RecvDone \/ RecvThrottled \/ RecvCatastrophe
             \/ RecvTryNew(TRUE)
    BY <1>1, <2>2, RecvStepsOk
  <2> QED BY <1>2, <2>1, <2>2, OtherStepsOk, CleanStepsOk DEF AzWorker
<1>3. CASE AzFaults
  <2>1. CASE \/ SendNoMemory \/ SendNoConnection(FALSE)
             \/ \E c \in Conns :
                  \/ SendConnectFails(c)
                  \/ SendBlocked(c, "retry_now") \/ SendBlocked(c, "retry_later")
                  \/ SendFails(c, FALSE) \/ SendAll(c, FALSE)
             \/ SendMessageSent(FALSE) \/ SendTryNew(FALSE)
    BY <1>1, <2>1, SendStepsOk
  <2>2. CASE RecvNoMemory \/ RecvClosed(FALSE) \/ RecvThrottledNoMemory \/ RecvTryNew(FALSE)
    BY <1>1, <2>2, RecvStepsOk
  <2> QED BY <1>3, <2>1, <2>2 DEF AzFaults
<1>4. CASE BlockLayer \/ Server \/ Network \/ Deleter \/ Clock
  BY <1>4, BlockLayerOk, OtherStepsOk
<1> QED BY <1>2, <1>3, <1>4 DEF AzNext

\* The invariant holds before the first request.
LEMMA InitAzInv ==
  ASSUME AzInit
  PROVE  AzInv
<1>1. IInv
  BY InitIInv DEF AzInit
<1>2. PoolTypes
  <2>1. <<>> \in Seq(Conns) /\ <<>> \in Seq(Message) /\ 0 \in 0..(UIntModulus - 1)
    BY EmptySeq, AzParametersAssumption
  <2> QED BY <2>1 DEF AzInit, PoolTypes, SockStates
<1>3. Len(queue) = 0
  BY EmptySeq DEF AzInit, Init
<1>4. TasksInv /\ Senders = {} /\ Receivers = {}
  BY <1>3 DEF TasksInv, Senders, Receivers
<1>5. ReqTypes
  BY BlanksAreStates DEF AzInit, ReqTypes
<1>6. StatesInv
  BY <1>4 DEF AzInit, StatesInv, BlankSend, BlankRecv
<1>7. BioInv
  BY <1>4 DEF AzInit, BioInv
<1> QED BY <1>1, <1>2, <1>4, <1>5, <1>6, <1>7 DEF AzInv, RequestsInv

\* The invariant of the requests, of their tasks and of the types.
LEMMA AzInvariance == AzSpec => []AzInv
<1>1. AzInit => AzInv
  BY InitAzInv
<1>2. AzInv /\ [AzNext]_vars => AzInv'
  <2>1. SUFFICES ASSUME AzInv, [AzNext]_vars
                 PROVE  AzInv'
    OBVIOUS
  <2>2. CASE AzNext
    <3>1. StepOk /\ PoolTypes'
      BY <2>1, <2>2, AzStepOk, PoolTypesKept
    <3>2. IInv'
      BY <2>1, <3>1, StepKeepsIInv, StutterKeepsIInv DEF StepOk, AzInv
    <3> QED BY <3>1, <3>2 DEF StepOk, AzInv
  <2>3. CASE UNCHANGED vars
    <3>1. UNCHANGED workerVars /\ UNCHANGED azVars /\ queue' = queue
      BY <2>3 DEF vars, workerVars
    <3>2. IInv'
      BY <2>1, <3>1, StutterKeepsIInv DEF AzInv
    <3>3. StepOk
      BY <2>1, <3>1, ElsewhereOk DEF azVars
    <3>4. PoolTypes'
      BY <2>1, <3>1 DEF AzInv, PoolTypes, azVars, poolVars
    <3> QED BY <3>2, <3>3, <3>4 DEF StepOk, AzInv
  <2> QED BY <2>1, <2>2, <2>3
<1> QED BY <1>1, <1>2, PTL DEF AzSpec

\* The types, with the width of the pool's counter (az.c 133).
THEOREM AzTypes == AzSpec => []AzTypeOK
  BY AzInvariance, TypesAreAzTypes, PTL

\* Every step of the transfer library is a step the worker's specification
\* allows: a task function queues tasks of its own request only, and never a
\* state that another task owns (queue_w_task in az.c 765, 1072, 1079, 1100).
THEOREM TransferImplementsWorker == AzSpec => ImplementsWorker
<1>1. AzInit => Init
  BY DEF AzInit
<1>2. AzInv /\ [AzNext]_vars => [Next]_workerVars
  <2>1. CASE AzNext
    BY <2>1, AzStepOk DEF StepOk
  <2>2. CASE UNCHANGED vars
    BY <2>2 DEF vars
  <2> QED BY <2>1, <2>2
<1> QED BY <1>1, <1>2, AzInvariance, PTL DEF AzSpec, ImplementsWorker, Spec

\* Which requests have a task, read off the list.
LEMMA CarriedHaveTasks ==
  ASSUME AzInv, NEW r \in Reqs
  PROVE  /\ CarriedBy(r) # {} <=> r \in Senders \cup Receivers
         /\ \A i, j \in CarriedBy(r) : i = j
<1>1. TasksInv /\ ListInv
  BY IInvParts DEF AzInv
<1>2. ASSUME NEW i \in 1..Len(queue)
      PROVE  queue[i].state[2] = r <=> queue[i].state = ReqObject(r) \/ queue[i].state = ResObject(r)
  <2>1. queue[i] \in Task /\ TaskOk(queue[i])
    BY <1>1, ElementOfSeq DEF ListInv, TasksInv
  <2> QED BY <2>1, StateIsObject, ObjectsDiffer
<1> QED BY <1>1, <1>2 DEF CarriedBy, Senders, Receivers, TasksInv

\* A request has at most one task, whatever was retried (az.c 765, 1072, 1079).
THEOREM OneTask == AzSpec => []OneTaskPerRequest
<1>1. AzInv => OneTaskPerRequest
  <2>1. SUFFICES ASSUME AzInv, NEW r \in Reqs
                 PROVE  Cardinality(CarriedBy(r)) <= 1
    BY DEF OneTaskPerRequest
  <2>2. CASE CarriedBy(r) = {}
    BY <2>2, FS_EmptySet
  <2>3. CASE CarriedBy(r) # {}
    <3>1. PICK i : i \in CarriedBy(r)
      BY <2>3
    <3>2. CarriedBy(r) = {i}
      BY <2>1, <3>1, CarriedHaveTasks
    <3> QED BY <3>2, FS_Singleton
  <2> QED BY <2>2, <2>3
<1> QED BY <1>1, AzInvariance, PTL

\* The block layer is told once of the end of a request, and one it was told
\* of has no task (az.c 535-587).
THEOREM EndsOnce == AzSpec => []EndedOnce
<1>1. AzInv => EndedOnce
  BY CarriedHaveTasks DEF AzInv, RequestsInv, BioInv, EndedOnce
<1> QED BY <1>1, AzInvariance, PTL

\* The worker ends no request that the block layer was not yet told is
\* started: the lock of the queue keeps the completion behind it
\* (io_request 838-839).
THEOREM EndsAfterStart == AzSpec => EndedAfterStart
<1> DEFINE After == \A r \in Reqs : (CarriedBy(r) # {} /\ bio'[r] = "ended") => bio[r] = "started"
<1>1. AzInv /\ [AzNext]_vars => [After]_vars
  <2>1. SUFFICES ASSUME AzInv, AzNext, NEW r \in Reqs, CarriedBy(r) # {}, bio'[r] = "ended"
                 PROVE  bio[r] = "started"
    OBVIOUS
  <2>2. bio[r] \in {"queued", "started"}
    BY <2>1, CarriedHaveTasks DEF AzInv, RequestsInv, BioInv
  <2>3. ~LockHeld(DyskOf[r])
    BY <2>1, <2>2, AzStepOk DEF StepOk, EndsUnlocked
  <2> QED BY <2>2, <2>3 DEF LockHeld
<1> QED BY <1>1, AzInvariance, PTL DEF AzSpec, EndedAfterStart

\* A request loses its task without being ended only because its dysk is
\* marked or its time is over (execute 84-90, 128, 137): retries, throttling,
\* short memory and broken connections lose none.
THEOREM LosesDeadOrLate == AzSpec => OnlyDeadOrLateDropped
<1> DEFINE Kept ==
      \A r \in Reqs :
        (CarriedBy(r) # {} /\ CarriedBy(r)' = {} /\ bio'[r] # "ended")
          => \E i \in CarriedBy(r) :
               status[queue[i].d] # "OK" \/ time_after(jiffies, queue[i].expires_on)
<1>1. AzInv /\ AzInv' /\ FailingIsMarked /\ [AzNext]_vars => [Kept]_vars
  <2>1. SUFFICES ASSUME AzInv, AzInv', FailingIsMarked, AzNext, NEW r \in Reqs,
                        CarriedBy(r) # {}, CarriedBy(r)' = {}, bio'[r] # "ended"
                 PROVE  \E i \in CarriedBy(r) :
                          status[queue[i].d] # "OK" \/ time_after(jiffies, queue[i].expires_on)
    OBVIOUS
  <2>2. r \in Senders \cup Receivers
    BY <2>1, CarriedHaveTasks
  <2>3. r \notin Senders' \cup Receivers'
    <3>1. \A i \in 1..Len(queue') : queue'[i].state[2] # r
      BY <2>1 DEF CarriedBy
    <3> QED BY <3>1, ObjectsDiffer DEF Senders, Receivers
  <2>4. r = Mine /\ (Cancel \/ Expire \/ CatastropheReturn)
    BY <2>1, <2>2, <2>3, AzStepOk DEF StepOk, LosesNone
  <2>5. ListInv
    BY <2>1, IInvParts DEF AzInv
  <2>6. pos \in CarriedBy(r)
    BY <2>4, <2>5, CurrentIsTask DEF CarriedBy, Mine, Current, Cancel, Expire, CatastropheReturn
  <2>7. status[Current.d] # "OK" \/ time_after(jiffies, Current.expires_on)
    BY <2>1, <2>4 DEF FailingIsMarked, Cancel, Expire, CatastropheReturn
  <2> QED BY <2>6, <2>7 DEF Current
<1>2. AzSpec => []FailingIsMarked
  <2>1. ThrottleInv => FailingIsMarked
    BY DEF ThrottleInv
  <2> QED BY <2>1, TransferImplementsWorker, ThrottleInvariance, PTL DEF ImplementsWorker
<1> QED BY <1>1, <1>2, AzInvariance, PTL DEF AzSpec, OnlyDeadOrLateDropped
=============================================================================
