--------------------------- MODULE DyskBddProofs ---------------------------
(***************************************************************************)
(* Proofs about DyskBdd, for any processes, dysks, names and bounds: its   *)
(* steps are steps of the worker, every dysk is in one pair of hands from  *)
(* its mount until it is freed, and no task outlives its dysk.             *)
(***************************************************************************)
EXTENDS DyskBdd, WorkerProofs, FiniteSetTheorems, WellFoundedInduction

(***************************************************************************)
(* The tasks of the dysks, by their states.                                *)
(***************************************************************************)
\* The states of the tasks a dysk has.
TaskStates(d) == {s \in States : \E i \in 1..Len(queue) : queue[i].state = s /\ queue[i].d = d}

\* A task has a state of its own, and the delete tasks are those of the head.
TasksInv ==
  /\ \A i, j \in 1..Len(queue) : queue[i].state = queue[j].state => i = j
  /\ \A i \in 1..Len(queue) : queue[i].fn = "del" <=> queue[i].d = HeadDysk

\* A delete task knows its dysk, and no other task is taken for one.  It counts
\* the runs of one visit: it is never left on the list with a run behind it,
\* and drains only while the worker is in it.
DelsInv ==
  /\ dels \in [States -> DelState]
  /\ \A s \in States :
       /\ s \in TaskStates(HeadDysk) => dels[s].d \in Objects
       /\ s \notin TaskStates(HeadDysk) => dels[s] = NoDel
       /\ dels[s].counter = IF wpc = "exec" /\ Current.state = s /\ dels[s].d # None
                              THEN IF dels[s].draining THEN 3 ELSE execCount ELSE 0
       /\ dels[s].draining => wpc = "exec" /\ Current.state = s

\* Where the worker's thread is in a task: the delete task ends in its retry
\* loop, and nothing else is in dysk_catastrophe().
WalkInv ==
  /\ wpc \in {"expiry", "catastrophe"} => Current.fn # "del"
  /\ wpc \in {"pass", "visit"} => execCount = 0

(***************************************************************************)
(* Who has a dysk: the list, a thread that mounts it, a thread that took   *)
(* it off the list, or a delete task.                                      *)
(***************************************************************************)
Holding(p)    == ioctl[p].pc \in {"hook", "add", "queue"}

ThreadsInv ==
  /\ ioctl \in [Threads -> Thread]
  /\ \A p \in Threads : ioctl[p].pc \notin {"idle", "find", "done"} => ioctl[p].d \in Objects
  /\ ioctl[Kthread].pc \notin {"hook", "add"}
  /\ wpc # "catastrophe" => ioctl[Kthread] = Idle

OwnersInv ==
  /\ \A i, j \in 1..Len(list) : list[i] = list[j] => i = j
  /\ \A p, q \in Threads : (Holding(p) /\ Holding(q) /\ ioctl[p].d = ioctl[q].d) => p = q
  /\ \A s, t \in States : (dels[s].d = dels[t].d /\ dels[s].d # None) => s = t
  /\ \A p \in Threads : Holding(p) => ~Listed(ioctl[p].d)
  /\ \A p \in Threads, s \in States : Holding(p) => dels[s].d # ioctl[p].d
  /\ \A s \in States : dels[s].d # None => ~Listed(dels[s].d)

\* What a dysk is while somebody has it, and that nobody has it otherwise.
WholeInv ==
  /\ \A i \in 1..Len(list) : obj[list[i]].alloc /\ obj[list[i]].hooked
  /\ \A p \in Threads : ioctl[p].pc \in {"add", "queue"} =>
       obj[ioctl[p].d].alloc /\ obj[ioctl[p].d].hooked
  /\ \A p \in Threads : ioctl[p].pc = "hook" =>
       /\ obj[ioctl[p].d].alloc /\ ~obj[ioctl[p].d].hooked
       /\ obj[ioctl[p].d].out = 0
  /\ \A s \in States : dels[s].d # None =>
       /\ obj[dels[s].d].alloc
       /\ obj[dels[s].d].hooked <=> ~dels[s].draining
  /\ \A d \in Objects : ~obj[d].alloc => obj[d] = Blank

\* The block layer waits for every request that a task carries, or that is
\* about to get one.
WaitsInv ==
  \A d \in Objects :
    Cardinality(TaskStates(d)) + (IF d \in peeked THEN 1 ELSE 0) <= obj[d].out

\* The count is that of the bits; the slot of a hooked dysk is its own.
SlotsInv ==
  /\ busy \subseteq 0..MAX_DYSKS
  /\ scount = Cardinality(busy) - 1
  /\ scount <= MAX_DYSKS
  /\ \A d \in Objects : obj[d].hooked => obj[d].slot \in busy
  /\ \A d, e \in Objects :
       (d # e /\ obj[d].hooked /\ obj[e].hooked) => obj[d].slot # obj[e].slot

Owned(d) ==
  \/ Listed(d)
  \/ \E p \in Threads : Holding(p) /\ ioctl[p].d = d
  \/ \E s \in States : dels[s].d = d

LeaksInv == \A d \in Objects : obj[d].alloc => Owned(d) \/ status[HeadDysk] # "OK"

OtherTypes ==
  /\ list \in Seq(Objects)
  /\ obj \in [Objects -> Object]
  /\ peeked \subseteq Objects
  /\ oops \in {"none", "freed", "deleted twice"}

BddInv ==
  /\ IInv /\ OtherTypes /\ TasksInv /\ DelsInv /\ WalkInv /\ ThreadsInv
  /\ OwnersInv /\ WholeInv /\ WaitsInv /\ SlotsInv /\ LeaksInv

-----------------------------------------------------------------------------
(***************************************************************************)
(* What a step does to the tasks.                                          *)
(***************************************************************************)
\* A dysk has finitely many tasks.
LEMMA TasksFinite ==
  ASSUME queue \in Seq(Task), NEW d
  PROVE  IsFiniteSet(TaskStates(d)) /\ Cardinality(TaskStates(d)) \in Nat
<1> DEFINE at == {i \in 1..Len(queue) : queue[i].d = d}
           f  == [i \in at |-> queue[i].state]
<1>1. Len(queue) \in Nat
  BY LenProperties
<1>2. IsFiniteSet(1..Len(queue))
  BY <1>1, FS_Interval
<1>3. IsFiniteSet(at)
  BY <1>2, FS_Subset
<1>4. \A i \in at : queue[i].state \in States
  <2>1. \A i \in 1..Len(queue) : queue[i] \in Task
    BY ElementOfSeq
  <2> QED BY <2>1 DEF Task
<1>5. f \in Surjection(at, TaskStates(d))
  BY <1>4 DEF Surjection, TaskStates
<1>6. IsFiniteSet(TaskStates(d))
  BY <1>3, <1>5, FS_Surjection
<1> QED BY <1>6, FS_CardinalityType

\* Two steps that leave the list alone leave every dysk its tasks.
LEMMA TasksStay ==
  ASSUME queue' = queue
  PROVE  (TasksInv <=> TasksInv') /\ \A d \in Dysks : TaskStates(d)' = TaskStates(d)
  BY DEF TasksInv, TaskStates

\* Where the tasks are once the current one left the list and at most one
\* task was appended: the rest keep their states (execute 140-150).
LEMMA TaskLeaves ==
  ASSUME ListInv, TasksInv, wpc \notin {"pass", "stopped"},
         NEW kids \in Seq(Task), Len(kids) \in {0, 1},
         Dequeue(queue \o kids), NEW c, c = Current,
         \A k \in 1..Len(kids) :
           /\ kids[k].d = c.d
           /\ kids[k].fn = "del" <=> c.fn = "del"
           /\ kids[k].state = c.state \/ kids[k].state \notin UsedStates
  PROVE  /\ TasksInv'
         /\ wpc' \in {"visit", "pass"} /\ execCount' = 0
         /\ \A d \in Dysks : d # c.d => TaskStates(d)' = TaskStates(d)
         /\ TaskStates(c.d)' = (TaskStates(c.d) \ {c.state})
                                 \cup {kids[k].state : k \in 1..Len(kids)}
<1> DEFINE q == queue \o kids
           At(j) == IF j < pos THEN j ELSE j + 1
<1>1. /\ Len(queue) \in Nat /\ Len(kids) \in Nat /\ pos \in 1..Len(queue)
      /\ Current \in Task
  BY CurrentIsTask, LenProperties
<1>2. /\ q \in Seq(Task) /\ Len(q) = Len(queue) + Len(kids)
      /\ \A i \in 1..(Len(queue) + Len(kids)) :
           q[i] = IF i <= Len(queue) THEN queue[i] ELSE kids[i - Len(queue)]
  BY ConcatProperties DEF ListInv
<1>3. /\ queue' = RemoveAt(q, pos)
      /\ wpc' \in {"visit", "pass"} /\ execCount' = 0
  BY DEF Dequeue, GoTo
<1> HIDE DEF q
<1>4. pos \in 1..Len(q)
  BY <1>1, <1>2
<1>5. /\ Len(queue') = Len(queue) + Len(kids) - 1
      /\ \A j \in 1..Len(queue') : queue'[j] = q[At(j)]
  <2>1. /\ Len(RemoveAt(q, pos)) = Len(q) - 1
        /\ \A j \in 1..(Len(q) - 1) :
             RemoveAt(q, pos)[j] = IF j < pos THEN q[j] ELSE q[j + 1]
    BY <1>2, <1>4, RemoveAtProperties
  <2> QED BY <1>2, <1>3, <2>1
<1>6. \A j \in 1..Len(queue') : At(j) \in 1..(Len(queue) + Len(kids)) /\ At(j) # pos
  BY <1>1, <1>5
<1>7. \A i \in 1..(Len(queue) + Len(kids)) : i # pos => \E j \in 1..Len(queue') : At(j) = i
  <2>1. SUFFICES ASSUME NEW i \in 1..(Len(queue) + Len(kids)), i # pos
                 PROVE  \E j \in 1..Len(queue') : At(j) = i
    OBVIOUS
  <2>2. CASE i < pos
    <3>1. i \in 1..Len(queue') /\ At(i) = i
      BY <1>1, <1>5, <2>2
    <3> QED BY <3>1
  <2>3. CASE i > pos
    <3>1. i - 1 \in 1..Len(queue') /\ At(i - 1) = i
      BY <1>1, <1>5, <2>3
    <3> QED BY <3>1
  <2> QED BY <1>1, <2>1, <2>2, <2>3
<1>8. \A i, j \in 1..Len(queue') : At(i) = At(j) => i = j
  BY <1>1, <1>5
<1> HIDE DEF At
<1>9. \A i \in 1..Len(queue) : i # pos => queue[i].state # Current.state
  BY <1>1 DEF TasksInv, Current
<1>10. ASSUME NEW i \in 1..(Len(queue) + Len(kids)), i # pos
       PROVE  \/ /\ i \in 1..Len(queue) /\ q[i] = queue[i]
                 /\ q[i].state # Current.state /\ q[i].state \in UsedStates
              \/ /\ i = Len(queue) + 1 /\ Len(kids) = 1 /\ q[i] = kids[1]
                 /\ q[i].d = Current.d
                 /\ q[i].fn = "del" <=> Current.fn = "del"
                 /\ q[i].state = Current.state \/ q[i].state \notin UsedStates
  <2>1. CASE i <= Len(queue)
    BY <1>1, <1>2, <1>9, <1>10, <2>1 DEF UsedStates
  <2>2. CASE ~(i <= Len(queue))
    <3>1. i - Len(queue) = 1 /\ Len(kids) = 1
      BY <1>1, <2>2
    <3> QED BY <1>1, <1>2, <2>2, <3>1
  <2> QED BY <2>1, <2>2
<1>11. TasksInv'
  <2>1. ASSUME NEW i \in 1..Len(queue')
        PROVE  queue'[i].fn = "del" <=> queue'[i].d = HeadDysk
    <3>1. queue'[i] = q[At(i)] /\ At(i) \in 1..(Len(queue) + Len(kids)) /\ At(i) # pos
      BY <1>5, <1>6
    <3>2. Current.fn = "del" <=> Current.d = HeadDysk
      BY <1>1 DEF TasksInv, Current
    <3> QED BY <1>10, <3>1, <3>2 DEF TasksInv
  <2>2. ASSUME NEW i \in 1..Len(queue'), NEW j \in 1..Len(queue'),
               queue'[i].state = queue'[j].state
        PROVE  i = j
    <3>1. q[At(i)].state = q[At(j)].state
      BY <1>5, <2>2
    <3>2. /\ At(i) \in 1..(Len(queue) + Len(kids)) /\ At(i) # pos
          /\ At(j) \in 1..(Len(queue) + Len(kids)) /\ At(j) # pos
      BY <1>6
    <3>3. CASE At(i) \in 1..Len(queue) /\ At(j) \in 1..Len(queue)
      <4>1. queue[At(i)].state = queue[At(j)].state
        BY <1>1, <1>2, <3>1, <3>2, <3>3
      <4> QED BY <1>8, <3>3, <4>1 DEF TasksInv
    <3>4. CASE ~(At(i) \in 1..Len(queue) /\ At(j) \in 1..Len(queue))
      <4>1. At(i) = At(j)
        BY <1>10, <3>1, <3>2, <3>4
      <4> QED BY <1>8, <4>1
    <3> QED BY <3>3, <3>4
  <2> QED BY <2>1, <2>2 DEF TasksInv
<1> DEFINE Now(s, d)  == \E j \in 1..Len(queue') : queue'[j].state = s /\ queue'[j].d = d
           Rest(s, d) == \E i \in 1..Len(queue) : i # pos /\ queue[i].state = s /\ queue[i].d = d
           Kid(s, d)  == \E k \in 1..Len(kids) : kids[k].state = s /\ kids[k].d = d
<1>12. ASSUME NEW s, NEW d
       PROVE  Now(s, d) <=> (Rest(s, d) \/ Kid(s, d))
  <2>1. ASSUME NEW i \in 1..Len(queue), i # pos, queue[i].state = s, queue[i].d = d
        PROVE  \E j \in 1..Len(queue') : queue'[j].state = s /\ queue'[j].d = d
    <3>1. i \in 1..(Len(queue) + Len(kids)) /\ q[i] = queue[i]
      BY <1>1, <1>2
    <3> QED BY <1>5, <1>7, <2>1, <3>1
  <2>2. ASSUME NEW k \in 1..Len(kids), kids[k].state = s, kids[k].d = d
        PROVE  \E j \in 1..Len(queue') : queue'[j].state = s /\ queue'[j].d = d
    <3>1. k = 1 /\ Len(kids) = 1
      OBVIOUS
    <3>2. /\ Len(queue) + 1 \in 1..(Len(queue) + Len(kids)) /\ Len(queue) + 1 # pos
          /\ q[Len(queue) + 1] = kids[1]
      BY <1>1, <1>2, <3>1
    <3> QED BY <1>5, <1>7, <2>2, <3>1, <3>2
  <2>3. ASSUME NEW j \in 1..Len(queue'), queue'[j].state = s, queue'[j].d = d
        PROVE  \/ \E i \in 1..Len(queue) : i # pos /\ queue[i].state = s /\ queue[i].d = d
               \/ \E k \in 1..Len(kids) : kids[k].state = s /\ kids[k].d = d
    <3>1. /\ At(j) \in 1..(Len(queue) + Len(kids)) /\ At(j) # pos
          /\ q[At(j)].state = s /\ q[At(j)].d = d
      BY <1>5, <1>6, <2>3
    <3> QED BY <1>10, <3>1
  <2> QED BY <2>1, <2>2, <2>3
<1>13. ASSUME NEW s, NEW d
       PROVE  s \in TaskStates(d)' <=> s \in States /\ (Rest(s, d) \/ Kid(s, d))
  <2>1. s \in TaskStates(d)' <=> s \in States /\ Now(s, d)
    BY DEF TaskStates
  <2> HIDE DEF Now, Rest, Kid
  <2> QED BY <1>12, <2>1
<1>14. \A k \in 1..Len(kids) : kids[k].state \in States
  <2>1. \A k \in 1..Len(kids) : kids[k] \in Task
    BY ElementOfSeq
  <2> QED BY <2>1 DEF Task
<1>15. ASSUME NEW d \in Dysks, d # c.d
       PROVE  TaskStates(d)' = TaskStates(d)
  <2>1. \A i \in 1..Len(queue) : queue[i].d = d => i # pos
    BY <1>15 DEF Current
  <2>2. \A k \in 1..Len(kids) : kids[k].d # d
    BY <1>15
  <2>3. \A s : s \in TaskStates(d) <=>
                s \in States /\ \E i \in 1..Len(queue) : queue[i].state = s /\ queue[i].d = d
    BY DEF TaskStates
  <2>4. \A s : s \in TaskStates(d)' <=> s \in TaskStates(d)
    BY <1>13, <2>1, <2>2, <2>3
  <2> QED BY <2>4
<1>16. TaskStates(c.d)' = (TaskStates(c.d) \ {c.state})
                            \cup {kids[k].state : k \in 1..Len(kids)}
  <2> DEFINE K == {kids[k].state : k \in 1..Len(kids)}
             Old(s) == \E i \in 1..Len(queue) : queue[i].state = s /\ queue[i].d = c.d
  <2>1. \A s : Rest(s, c.d) <=> Old(s) /\ s # c.state
    BY <1>9 DEF Current
  <2>2. \A s : s \in TaskStates(c.d) <=> s \in States /\ Old(s)
    BY DEF TaskStates
  <2>3. \A s : Kid(s, c.d) <=> s \in K
    OBVIOUS
  <2>4. \A s : s \in K => s \in States
    BY <1>14
  <2>5. \A s : s \in TaskStates(c.d)' <=> (s \in TaskStates(c.d) /\ s # c.state) \/ s \in K
    <3> HIDE DEF Rest, Kid, Old, K
    <3> QED BY <1>13, <2>1, <2>2, <2>3, <2>4
  <2> QED BY <2>5
<1> QED BY <1>3, <1>11, <1>15, <1>16

\* A dysk, or the head, gets one more task (queue_w_task 60-66).
LEMMA TaskComes ==
  ASSUME ListInv, TasksInv, NEW t \in Task, queue' = Append(queue, t),
         t.state \notin UsedStates, t.fn = "del" <=> t.d = HeadDysk
  PROVE  /\ TasksInv'
         /\ \A d \in Dysks : d # t.d => TaskStates(d)' = TaskStates(d)
         /\ TaskStates(t.d)' = TaskStates(t.d) \cup {t.state}
         /\ \A d \in Dysks : t.state \notin TaskStates(d)
<1>1. /\ Len(queue) \in Nat
      /\ Len(queue') = Len(queue) + 1
      /\ \A i \in 1..Len(queue) : queue'[i] = queue[i]
      /\ queue'[Len(queue) + 1] = t
  BY AppendProperties, LenProperties DEF ListInv
<1>2. \A i \in 1..Len(queue) : queue[i].state # t.state
  BY DEF UsedStates
<1>3. TasksInv'
  <2>1. \A i \in 1..Len(queue') : i \in 1..Len(queue) \/ i = Len(queue) + 1
    BY <1>1
  <2> QED BY <1>1, <1>2, <2>1 DEF TasksInv
<1>4. ASSUME NEW s, NEW d
      PROVE  (\E j \in 1..Len(queue') : queue'[j].state = s /\ queue'[j].d = d)
               <=> \/ \E i \in 1..Len(queue) : queue[i].state = s /\ queue[i].d = d
                   \/ t.state = s /\ t.d = d
  <2>1. \A i \in 1..Len(queue) : i \in 1..Len(queue')
    BY <1>1
  <2>2. Len(queue) + 1 \in 1..Len(queue')
    BY <1>1
  <2>3. \A j \in 1..Len(queue') : j \in 1..Len(queue) \/ j = Len(queue) + 1
    BY <1>1
  <2> QED BY <1>1, <2>1, <2>2, <2>3
<1>5. ASSUME NEW s, NEW d
      PROVE  s \in TaskStates(d)' <=> s \in TaskStates(d) \/ (t.state = s /\ t.d = d)
  <2>1. t.state \in States
    BY DEF Task
  <2>2. s \in TaskStates(d)' <=>
          s \in States /\ \E j \in 1..Len(queue') : queue'[j].state = s /\ queue'[j].d = d
    BY DEF TaskStates
  <2>3. s \in TaskStates(d) <=>
          s \in States /\ \E i \in 1..Len(queue) : queue[i].state = s /\ queue[i].d = d
    BY DEF TaskStates
  <2> QED BY <1>4, <2>1, <2>2, <2>3
<1>6. ASSUME NEW d \in Dysks, d # t.d
      PROVE  TaskStates(d)' = TaskStates(d)
  <2>1. \A s : s \in TaskStates(d)' <=> s \in TaskStates(d)
    BY <1>5, <1>6
  <2> QED BY <2>1
<1>7. TaskStates(t.d)' = TaskStates(t.d) \cup {t.state}
  BY <1>5
<1>8. \A d \in Dysks : t.state \notin TaskStates(d)
  BY <1>2 DEF TaskStates
<1> QED BY <1>3, <1>6, <1>7, <1>8

\* The worker is in a task of the head, which deletes, or of a dysk.
LEMMA CurrentTask ==
  ASSUME BddInv, wpc \notin {"pass", "stopped"}
  PROVE  /\ ListInv /\ Current \in Task /\ pos \in 1..Len(queue)
         /\ Current.d \in Dysks /\ Current.state \in States
         /\ Current.state \in TaskStates(Current.d)
         /\ \A d \in Dysks : d # Current.d => Current.state \notin TaskStates(d)
         /\ Current.fn = "del" <=> Current.d = HeadDysk
         /\ Current.fn # "del" => Current.d \in Objects /\ dels[Current.state] = NoDel
         /\ Current.fn = "del" => dels[Current.state].d \in Objects
         /\ Current.state \in UsedStates
<1>1. ListInv /\ Current \in Task /\ pos \in 1..Len(queue)
  BY CurrentIsTask, IInvParts DEF BddInv
<1>2. Current.d \in Dysks /\ Current.state \in States
  BY <1>1 DEF Task
<1>3. Current.state \in TaskStates(Current.d) /\ Current.state \in UsedStates
  BY <1>1, <1>2 DEF TaskStates, Current, UsedStates
<1>4. \A d \in Dysks : d # Current.d => Current.state \notin TaskStates(d)
  BY <1>1 DEF TaskStates, Current, BddInv, TasksInv
<1>5. Current.fn = "del" <=> Current.d = HeadDysk
  BY <1>1 DEF Current, BddInv, TasksInv
<1>6. Current.fn # "del" => Current.d \in Objects /\ dels[Current.state] = NoDel
  BY <1>2, <1>4, <1>5, BddParametersAssumption DEF BddInv, DelsInv, Objects
<1>7. Current.fn = "del" => dels[Current.state].d \in Objects
  BY <1>2, <1>3, <1>5 DEF BddInv, DelsInv
<1> QED BY <1>1, <1>2, <1>3, <1>4, <1>5, <1>6, <1>7

\* None is no dysk, and the head none that can be mounted.
LEMMA NoneIsNoDysk == None \notin Objects /\ HeadDysk \notin Objects /\ Objects \subseteq Dysks
  BY BddParametersAssumption DEF Objects

\* What CleanUp does to the state of a task, and to the request of a dysk.
WithoutDel(s)  == [dels EXCEPT ![s] = NoDel]
OneRequestLess(d) == [obj EXCEPT ![d].out = @ - 1]

\* The state of a task that leaves the list is nobody's, and a delete task
\* that goes is not counted any more (CleanUp, __del_dysk_async 200).
LEMMA TaskLeavesDels ==
  ASSUME BddInv, wpc \notin {"pass", "stopped"},
         NEW kids \in Seq(Task), Len(kids) \in {0, 1},
         Dequeue(queue \o kids), NEW c, c = Current,
         c.fn = "del" => Len(kids) = 0,
         \A k \in 1..Len(kids) :
           /\ kids[k].d = c.d
           /\ kids[k].fn # "del"
           /\ kids[k].state = c.state \/ kids[k].state \notin UsedStates,
         \/ dels' = WithoutDel(c.state)
         \/ dels' = dels /\ c.fn # "del"
  PROVE  /\ TasksInv' /\ DelsInv' /\ WalkInv'
         /\ wpc' \in {"visit", "pass"}
         /\ \A d \in Dysks : d # c.d => TaskStates(d)' = TaskStates(d)
         /\ TaskStates(c.d)' = (TaskStates(c.d) \ {c.state})
                                 \cup {kids[k].state : k \in 1..Len(kids)}
         /\ \A s \in States : s # c.state => dels'[s] = dels[s]
         /\ dels'[c.state] = NoDel
         /\ c.fn # "del" => dels' = dels
<1>1. /\ ListInv /\ c \in Task /\ c.d \in Dysks /\ c.state \in States
      /\ \A d \in Dysks : d # c.d => c.state \notin TaskStates(d)
      /\ c.fn = "del" <=> c.d = HeadDysk
      /\ c.fn # "del" => dels[c.state] = NoDel
  BY CurrentTask
<1>2. /\ TasksInv'
      /\ wpc' \in {"visit", "pass"} /\ execCount' = 0
      /\ \A d \in Dysks : d # c.d => TaskStates(d)' = TaskStates(d)
      /\ TaskStates(c.d)' = (TaskStates(c.d) \ {c.state})
                              \cup {kids[k].state : k \in 1..Len(kids)}
  <2>1. \A k \in 1..Len(kids) :
          /\ kids[k].d = c.d
          /\ kids[k].fn = "del" <=> c.fn = "del"
          /\ kids[k].state = c.state \/ kids[k].state \notin UsedStates
    <3>1. CASE c.fn = "del"
      BY <3>1
    <3>2. CASE c.fn # "del"
      BY <3>2
    <3> QED BY <3>1, <3>2
  <2>2. TasksInv
    BY DEF BddInv
  <2> QED BY ONLY <1>1, <2>1, <2>2, TaskLeaves, wpc \notin {"pass", "stopped"},
             kids \in Seq(Task), Len(kids) \in {0, 1}, Dequeue(queue \o kids), c = Current
<1>3. WalkInv'
  BY <1>2 DEF WalkInv
<1>4. /\ dels \in [States -> DelState]
      /\ \A s \in States :
           /\ s \in TaskStates(HeadDysk) => dels[s].d \in Objects
           /\ s \notin TaskStates(HeadDysk) => dels[s] = NoDel
           /\ s # c.state => dels[s].counter = 0 /\ ~dels[s].draining
  BY DEF BddInv, DelsInv
<1>5. NoDel \in DelState
  BY DEF NoDel, DelState
<1>6. /\ dels' \in [States -> DelState]
      /\ \A s \in States : s # c.state => dels'[s] = dels[s]
      /\ dels'[c.state] = NoDel
      /\ c.fn # "del" => dels' = dels
  BY <1>1, <1>4, <1>5 DEF WithoutDel
<1>7. TaskStates(HeadDysk)' = TaskStates(HeadDysk) \ {c.state}
  <2>1. CASE c.fn = "del"
    <3>1. {kids[k].state : k \in 1..Len(kids)} = {}
      BY <2>1
    <3> QED BY <1>1, <1>2, <2>1, <3>1
  <2>2. CASE c.fn # "del"
    <3>1. HeadDysk \in Dysks /\ HeadDysk # c.d
      BY <1>1, <2>2, BddParametersAssumption
    <3> QED BY <1>1, <1>2, <3>1
  <2> QED BY <2>1, <2>2
<1>8. DelsInv'
  <2>1. wpc' # "exec"
    BY <1>2
  <2> QED BY <1>4, <1>6, <1>7, <2>1 DEF DelsInv, NoDel
<1> QED BY <1>2, <1>3, <1>6, <1>8

-----------------------------------------------------------------------------
(***************************************************************************)
(* Steps that leave every dysk in the hands it is in.                      *)
(***************************************************************************)
\* The dysk stays what it is; only the requests of a whole one come and go.
Kept(d) ==
  \/ obj'[d] = obj[d]
  \/ /\ obj'[d].alloc = obj[d].alloc /\ obj'[d].hooked = obj[d].hooked
     /\ obj'[d].slot = obj[d].slot
     /\ obj[d].hooked \/ obj[d].out > 0

\* A thread that has a dysk keeps it, at its place, and one that has none
\* takes none.
KeepsHands(p) ==
  \/ ioctl'[p] = ioctl[p]
  \/ ~Holding(p) /\ ioctl'[p].pc \notin {"hook", "add", "queue"}

\* Whoever has a dysk has a whole one.
LEMMA HeldAreWhole ==
  ASSUME BddInv
  PROVE  /\ \A d \in Objects : Owned(d) => obj[d].alloc
         /\ \A d \in Objects : (obj[d].hooked \/ obj[d].out > 0) => obj[d].alloc
         /\ \A d \in Objects : ~obj[d].alloc =>
              /\ obj[d] = Blank /\ d \notin peeked /\ TaskStates(d) = {}
              /\ ~Owned(d)
<1>1. ASSUME NEW d \in Objects, Owned(d)
      PROVE  obj[d].alloc
  BY <1>1, NoneIsNoDysk DEF Owned, Listed, BddInv, WholeInv, Holding
<1>2. \A d \in Objects : (obj[d].hooked \/ obj[d].out > 0) => obj[d].alloc
  BY DEF BddInv, WholeInv, Blank
<1>3. ASSUME NEW d \in Objects, ~obj[d].alloc
      PROVE  obj[d] = Blank /\ d \notin peeked /\ TaskStates(d) = {}
  <2>1. obj[d] = Blank /\ obj[d].out = 0
    <3>1. obj[d] = Blank
      BY <1>3 DEF BddInv, WholeInv
    <3> QED BY <3>1 DEF Blank
  <2>2. queue \in Seq(Task)
    BY IInvParts DEF BddInv, ListInv
  <2>3. /\ IsFiniteSet(TaskStates(d)) /\ Cardinality(TaskStates(d)) \in Nat
        /\ Cardinality(TaskStates(d)) + (IF d \in peeked THEN 1 ELSE 0) <= 0
    BY <2>1, <2>2, TasksFinite DEF BddInv, WaitsInv
  <2>4. Cardinality(TaskStates(d)) = 0 /\ d \notin peeked
    BY <2>3
  <2> QED BY <2>1, <2>3, <2>4, FS_EmptySet
<1> QED BY <1>1, <1>2, <1>3

\* Then owners stay owners of what they had.
LEMMA HandsStay ==
  ASSUME BddInv, UNCHANGED <<list, busy, scount>>,
         \A d \in Objects : Kept(d),
         \A p \in Threads : KeepsHands(p),
         \A s \in States : dels'[s].d = dels[s].d /\ dels'[s].draining = dels[s].draining,
         status[HeadDysk] # "OK" => status'[HeadDysk] # "OK"
  PROVE  OwnersInv' /\ WholeInv' /\ LeaksInv' /\ SlotsInv'
<1>1. \A d \in Objects : /\ obj'[d].alloc = obj[d].alloc
                         /\ obj'[d].hooked = obj[d].hooked
                         /\ obj'[d].slot = obj[d].slot
                         /\ obj'[d] = obj[d] \/ obj[d].hooked \/ obj[d].out > 0
  BY DEF Kept
<1>2. \A p \in Threads : /\ Holding(p)' <=> Holding(p)
                         /\ Holding(p) => ioctl'[p] = ioctl[p]
  BY DEF KeepsHands, Holding
<1>3. \A d : Listed(d)' <=> Listed(d)
  BY DEF Listed
<1>4. OwnersInv'
  BY <1>2, <1>3 DEF BddInv, OwnersInv
<1>5. /\ \A i \in 1..Len(list) : list[i] \in Objects
      /\ \A p \in Threads : Holding(p) => ioctl[p].d \in Objects
      /\ \A s \in States : dels[s].d # None => dels[s].d \in Objects
  <2>1. \A i \in 1..Len(list) : list[i] \in Objects
    BY ElementOfSeq DEF BddInv, OtherTypes
  <2>2. \A s \in States : dels[s].d # None => dels[s].d \in Objects
    BY DEF BddInv, DelsInv, NoDel
  <2> QED BY <2>1, <2>2 DEF BddInv, ThreadsInv, Holding
<1>6. WholeInv'
  <2>1. \A i \in 1..Len(list') : obj'[list'[i]].alloc /\ obj'[list'[i]].hooked
    BY <1>1, <1>5 DEF BddInv, WholeInv
  <2>2. \A p \in Threads : ioctl'[p].pc \in {"add", "queue"} =>
          obj'[ioctl'[p].d].alloc /\ obj'[ioctl'[p].d].hooked
    BY <1>1, <1>2, <1>5 DEF BddInv, WholeInv, Holding
  <2>3. \A p \in Threads : ioctl'[p].pc = "hook" =>
          /\ obj'[ioctl'[p].d].alloc /\ ~obj'[ioctl'[p].d].hooked
          /\ obj'[ioctl'[p].d].out = 0
    BY <1>1, <1>2, <1>5 DEF BddInv, WholeInv, Holding
  <2>4. \A s \in States : dels'[s].d # None =>
          /\ obj'[dels'[s].d].alloc
          /\ obj'[dels'[s].d].hooked <=> ~dels'[s].draining
    BY <1>1, <1>5 DEF BddInv, WholeInv
  <2>5. \A d \in Objects : ~obj'[d].alloc => obj'[d] = Blank
    BY <1>1, HeldAreWhole
  <2> QED BY <2>1, <2>2, <2>3, <2>4, <2>5 DEF WholeInv
<1>7. \A d \in Objects : Owned(d) => Owned(d)'
  BY <1>2, <1>3 DEF Owned
<1>8. LeaksInv'
  BY <1>1, <1>7 DEF BddInv, LeaksInv
<1>9. SlotsInv'
  BY <1>1 DEF BddInv, SlotsInv
<1> QED BY <1>4, <1>6, <1>8, <1>9

\* The requests a dysk is waited for change with its tasks.
LEMMA WaitsStay ==
  ASSUME BddInv, queue' \in Seq(Task),
         \A d \in Objects :
           \/ TaskStates(d)' = TaskStates(d) /\ (d \in peeked' <=> d \in peeked)
                /\ obj'[d].out = obj[d].out
           \/ Cardinality(TaskStates(d))' + (IF d \in peeked' THEN 1 ELSE 0) <= obj'[d].out
  PROVE  WaitsInv'
  BY DEF BddInv, WaitsInv

\* The same of a step that changes the requests of one dysk.
LEMMA WaitsChange ==
  ASSUME BddInv, queue' \in Seq(Task), NEW d \in Objects,
         Cardinality(TaskStates(d))' + (IF d \in peeked' THEN 1 ELSE 0) <= obj'[d].out,
         \A e \in Objects : e # d => /\ TaskStates(e)' = TaskStates(e)
                                     /\ (e \in peeked' <=> e \in peeked)
                                     /\ obj'[e].out = obj[e].out
  PROVE  WaitsInv'
<1>1. ASSUME NEW e \in Objects
      PROVE  Cardinality(TaskStates(e))' + (IF e \in peeked' THEN 1 ELSE 0) <= obj'[e].out
  <2>1. CASE e = d
    BY <2>1
  <2>2. CASE e # d
    <3>1. Cardinality(TaskStates(e)) + (IF e \in peeked THEN 1 ELSE 0) <= obj[e].out
      BY DEF BddInv, WaitsInv
    <3>2. Cardinality(TaskStates(e))' = Cardinality(TaskStates(e))
      BY <2>2
    <3> QED BY <2>2, <3>1, <3>2
  <2> QED BY <2>1, <2>2
<1> QED BY <1>1 DEF WaitsInv

\* What a step must show besides the worker's own invariant.
StepOk ==
  /\ [Next]_workerVars
  /\ OtherTypes' /\ TasksInv' /\ DelsInv' /\ WalkInv' /\ ThreadsInv'
  /\ OwnersInv' /\ WholeInv' /\ WaitsInv' /\ SlotsInv' /\ LeaksInv'

\* Only the thread p moves.
Moves(p) == ioctl' = [ioctl EXCEPT ![p] = ioctl'[p]]

\* A thread that has no dysk moves on and takes none (dysk_del 212-225,
\* dysk_get, dysk_mount 509); it may mark one.
LEMMA ThreadMoves ==
  ASSUME BddInv, UNCHANGED <<oops, queue, walk, list, busy, scount, obj, peeked, dels>>,
         NEW p \in Threads, Moves(p), ioctl'[p] \in Thread,
         ~Holding(p), ioctl'[p].pc \notin {"hook", "add", "queue"},
         ioctl'[p].pc \notin {"idle", "find", "done"} => ioctl'[p].d \in Objects,
         p = Kthread => wpc = "catastrophe",
         status[HeadDysk] # "OK" => status'[HeadDysk] # "OK",
         [Next]_workerVars
  PROVE  StepOk
<1>1. ioctl \in [Threads -> Thread] /\ Kthread \in Threads
  BY DEF BddInv, ThreadsInv, Threads
<1>2. ioctl' \in [Threads -> Thread] /\ \A r \in Threads : r # p => ioctl'[r] = ioctl[r]
  BY <1>1 DEF Moves
<1>3. OwnersInv' /\ WholeInv' /\ LeaksInv' /\ SlotsInv'
  BY <1>2, HandsStay DEF Kept, KeepsHands
<1>4. ThreadsInv'
  BY <1>1, <1>2 DEF BddInv, ThreadsInv, walk
<1>5. TasksInv' /\ \A d \in Dysks : TaskStates(d)' = TaskStates(d)
  BY TasksStay DEF BddInv
<1>6. DelsInv' /\ WalkInv'
  BY <1>5, BddParametersAssumption DEF BddInv, DelsInv, WalkInv, walk, Current
<1>7. WaitsInv'
  <2>1. queue' \in Seq(Task)
    BY IInvParts DEF BddInv, ListInv
  <2> QED BY <1>5, <2>1, WaitsStay, NoneIsNoDysk
<1>8. OtherTypes'
  BY DEF BddInv, OtherTypes
<1> QED BY <1>3, <1>4, <1>5, <1>6, <1>7, <1>8 DEF StepOk

\* The walk moves, the clock ticks, the kernel is in trouble; no task comes
\* or goes.
LEMMA WalkMoves ==
  ASSUME BddInv, UNCHANGED <<queue, bddVars>>,
         oops' = oops \/ oops' \in {"freed", "deleted twice"},
         DelsInv', WalkInv', status'[HeadDysk] = status[HeadDysk],
         wpc' # "catastrophe" => ioctl[Kthread] = Idle,
         [Next]_workerVars
  PROVE  StepOk
<1>1. UNCHANGED <<list, busy, scount, obj, peeked, ioctl, dels>>
  BY DEF bddVars
<1>2. OwnersInv' /\ WholeInv' /\ LeaksInv' /\ SlotsInv'
  BY <1>1, HandsStay DEF Kept, KeepsHands
<1>3. ThreadsInv'
  BY <1>1 DEF BddInv, ThreadsInv
<1>4. TasksInv' /\ \A d \in Dysks : TaskStates(d)' = TaskStates(d)
  BY TasksStay DEF BddInv
<1>5. WaitsInv'
  <2>1. queue' \in Seq(Task)
    BY IInvParts DEF BddInv, ListInv
  <2> QED BY <1>1, <1>4, <2>1, WaitsStay, NoneIsNoDysk
<1>6. OtherTypes'
  BY <1>1 DEF BddInv, OtherTypes
<1> QED BY <1>2, <1>3, <1>4, <1>5, <1>6 DEF StepOk

\* Outside the retry loop no delete task has a run behind it.
LEMMA DelsElsewhere ==
  ASSUME BddInv, UNCHANGED <<queue, dels>>, wpc' # "exec",
         wpc = "exec" => Current.fn # "del"
  PROVE  DelsInv'
<1>1. \A d \in Dysks : TaskStates(d)' = TaskStates(d)
  BY TasksStay
<1>2. wpc = "exec" => dels[Current.state] = NoDel
  BY CurrentTask
<1>3. \A s \in States : dels[s].counter = 0 /\ ~dels[s].draining
  BY <1>2 DEF BddInv, DelsInv, NoDel
<1> QED BY <1>1, <1>3, BddParametersAssumption DEF BddInv, DelsInv

\* BeginPass, Yield, SkipThrottled, StartExec, Stay (execute 92-139).
LEMMA WorkerMovesOk ==
  ASSUME BddInv, WorkerMoves
  PROVE  StepOk
<1>1. UNCHANGED <<oops, bddVars>>
  BY DEF WorkerMoves, Quiet
<1>2. [Next]_workerVars
  BY DEF WorkerMoves, Next, WorkerStep
<1>3. CASE BeginPass
  <2>1. /\ wpc = "pass" /\ wpc' = "visit" /\ execCount' = execCount
        /\ queue' = queue /\ status' = status
    BY <1>3 DEF BeginPass
  <2>2. DelsInv'
    BY <1>1, <2>1, DelsElsewhere DEF bddVars
  <2>3. WalkInv' /\ ioctl[Kthread] = Idle
    BY <2>1 DEF WalkInv, BddInv, ThreadsInv
  <2> QED BY <1>1, <1>2, <2>1, <2>2, <2>3, WalkMoves
<1>4. CASE Yield
  <2>1. /\ wpc = "pass" /\ wpc' = "pass" /\ execCount' = execCount
        /\ queue' = queue /\ status' = status
    BY <1>4 DEF Yield, workerVars, walk
  <2>2. DelsInv'
    BY <1>1, <2>1, DelsElsewhere DEF bddVars
  <2>3. WalkInv' /\ ioctl[Kthread] = Idle
    BY <2>1 DEF WalkInv, BddInv, ThreadsInv
  <2> QED BY <1>1, <1>2, <2>1, <2>2, <2>3, WalkMoves
<1>5. CASE SkipThrottled \/ Stay
  <2>1. /\ wpc \in {"visit", "expiry"} /\ wpc' \in {"visit", "pass"} /\ execCount' = 0
        /\ queue' = queue /\ status' = status
    BY <1>5 DEF SkipThrottled, Stay, Keep, GoTo
  <2>2. DelsInv'
    BY <1>1, <2>1, DelsElsewhere DEF bddVars
  <2>3. WalkInv' /\ ioctl[Kthread] = Idle
    BY <2>1 DEF WalkInv, BddInv, ThreadsInv
  <2> QED BY <1>1, <1>2, <2>1, <2>2, <2>3, WalkMoves
<1>6. CASE StartExec
  <2>1. /\ wpc = "visit" /\ wpc' = "exec" /\ execCount' = execCount /\ execCount = 0
        /\ queue' = queue /\ status' = status /\ pos' = pos
    BY <1>6 DEF StartExec, BddInv, WalkInv
  <2>2. DelsInv'
    <3>1. \A d \in Dysks : TaskStates(d)' = TaskStates(d)
      BY <2>1, TasksStay
    <3>2. \A s \in States : dels[s].counter = 0 /\ ~dels[s].draining
      BY <2>1 DEF BddInv, DelsInv
    <3> QED BY <1>1, <2>1, <3>1, <3>2, BddParametersAssumption
            DEF BddInv, DelsInv, bddVars, Current
  <2>3. WalkInv' /\ ioctl[Kthread] = Idle
    BY <2>1 DEF WalkInv, BddInv, ThreadsInv
  <2> QED BY <1>1, <1>2, <2>1, <2>2, <2>3, WalkMoves
<1> QED BY <1>3, <1>4, <1>5, <1>6 DEF WorkerMoves

\* A request's task asks for another run (execute 104-127).
LEMMA TransferRetryOk ==
  ASSUME BddInv, TransferRetry
  PROVE  StepOk
<1>1. /\ UNCHANGED <<oops, bddVars>> /\ wpc = "exec" /\ Current.fn # "del"
      /\ \E r \in Retries : ExecRetry(r)
  BY DEF TransferRetry, Quiet, Transferring
<1>2. [Next]_workerVars
  BY <1>1 DEF Next, WorkerStep, ExecStep
<1>3. /\ wpc' \in {"exec", "expiry"} /\ queue' = queue /\ status' = status /\ pos' = pos
  BY <1>1 DEF ExecRetry
<1>4. DelsInv'
  <2>1. CASE wpc' = "expiry"
    BY <1>1, <1>3, <2>1, DelsElsewhere DEF bddVars
  <2>2. CASE wpc' = "exec"
    <3>1. \A d \in Dysks : TaskStates(d)' = TaskStates(d)
      BY <1>3, TasksStay
    <3>2. dels[Current.state] = NoDel
      BY <1>1, CurrentTask
    <3>3. Current' = Current
      BY <1>3 DEF Current
    <3> QED BY <1>1, <1>3, <2>2, <3>1, <3>2, <3>3, BddParametersAssumption
            DEF BddInv, DelsInv, bddVars, NoDel
  <2> QED BY <1>3, <2>1, <2>2
<1>5. WalkInv' /\ ioctl[Kthread] = Idle
  BY <1>1, <1>3 DEF WalkInv, BddInv, ThreadsInv, Current
<1> QED BY <1>1, <1>2, <1>3, <1>4, <1>5, WalkMoves

\* The clock.
LEMMA ClockOk ==
  ASSUME BddInv, Clock
  PROVE  StepOk
<1>1. /\ UNCHANGED <<oops, bddVars>> /\ Tick
      /\ UNCHANGED <<queue, pos, more, wpc, execCount, status>>
  BY DEF Clock, Quiet, Tick, walk
<1>2. [Next]_workerVars
  BY <1>1 DEF Next, Environment
<1>3. DelsInv' /\ WalkInv'
  <2>1. \A d \in Dysks : TaskStates(d)' = TaskStates(d)
    BY <1>1, TasksStay
  <2> QED BY <1>1, <2>1, BddParametersAssumption DEF BddInv, DelsInv, WalkInv, bddVars, Current
<1>4. wpc' # "catastrophe" => ioctl[Kthread] = Idle
  BY <1>1 DEF BddInv, ThreadsInv
<1> QED BY <1>1, <1>2, <1>3, <1>4, WalkMoves

-----------------------------------------------------------------------------
(***************************************************************************)
(* The steps of the worker that end a task.                                *)
(***************************************************************************)
\* The block layer waits for the request of every task a dysk has.
LEMMA TaskIsWaitedFor ==
  ASSUME BddInv, wpc \notin {"pass", "stopped"}, Current.fn # "del"
  PROVE  /\ Current.d \in Objects
         /\ obj[Current.d] \in Object
         /\ obj[Current.d].out \in 1..MaxRequests
         /\ Cardinality(TaskStates(Current.d)) >= 1
<1>1. Current.d \in Objects /\ Current.state \in TaskStates(Current.d) /\ ListInv
  BY CurrentTask
<1>2. queue \in Seq(Task)
  BY <1>1 DEF ListInv
<1>3. /\ IsFiniteSet(TaskStates(Current.d))
      /\ Cardinality(TaskStates(Current.d)) \in Nat
  BY <1>2, TasksFinite
<1>4. Cardinality(TaskStates(Current.d)) >= 1
  BY <1>1, <1>3, FS_EmptySet
<1>5. obj[Current.d] \in Object
  BY <1>1 DEF BddInv, OtherTypes
<1>6. obj[Current.d].out \in 0..MaxRequests
  BY <1>5 DEF Object
<1>7. Cardinality(TaskStates(Current.d)) <= obj[Current.d].out
  BY <1>1, <1>3, <1>6 DEF BddInv, WaitsInv
<1> QED BY <1>1, <1>3, <1>4, <1>5, <1>6, <1>7, BddParametersAssumption

\* A dysk with fewer tasks waits for as many requests at most.
LEMMA FewerTasks ==
  ASSUME queue \in Seq(Task), NEW d, NEW s, NEW T,
         T \subseteq TaskStates(d) \ {s} \/ (s \in TaskStates(d) /\ \E t : T = (TaskStates(d) \ {s}) \cup {t})
  PROVE  /\ Cardinality(T) <= Cardinality(TaskStates(d))
         /\ (s \in TaskStates(d) /\ T \subseteq TaskStates(d) \ {s}) =>
              Cardinality(T) <= Cardinality(TaskStates(d)) - 1
         /\ Cardinality(T) \in Nat
<1> DEFINE S == TaskStates(d)
<1>1. IsFiniteSet(S) /\ Cardinality(S) \in Nat
  BY TasksFinite
<1> HIDE DEF S
<1>2. /\ IsFiniteSet(S \ {s}) /\ Cardinality(S \ {s}) \in Nat
      /\ Cardinality(S \ {s}) = IF s \in S THEN Cardinality(S) - 1 ELSE Cardinality(S)
  BY <1>1, FS_RemoveElement, FS_CardinalityType
<1>3. CASE T \subseteq S \ {s}
  <2>1. /\ Cardinality(T) <= Cardinality(S \ {s})
        /\ Cardinality(T) \in Nat
    BY <1>2, <1>3, FS_Subset, FS_CardinalityType
  <2> QED BY <1>1, <1>2, <2>1 DEF S
<1>4. ASSUME s \in S, NEW t, T = (S \ {s}) \cup {t}
      PROVE  Cardinality(T) <= Cardinality(S) /\ Cardinality(T) \in Nat
  <2>1. /\ Cardinality(T) = IF t \in S \ {s} THEN Cardinality(S \ {s}) ELSE Cardinality(S \ {s}) + 1
    BY <1>2, <1>4, FS_AddElement
  <2> QED BY <1>1, <1>2, <1>4, <2>1
<1> QED BY <1>3, <1>4 DEF S

\* A task of a request leaves the list, and a task of the same dysk carries
\* the request on, or none: then its request may be ended.
LEMMA RequestMovesOn ==
  ASSUME BddInv, wpc \notin {"pass", "stopped"}, Current.fn # "del",
         NEW kids \in Seq(Task), Len(kids) \in {0, 1},
         Dequeue(queue \o kids), NEW c, c = Current,
         \A k \in 1..Len(kids) :
           /\ kids[k].d = c.d
           /\ kids[k].fn # "del"
           /\ kids[k].state = c.state \/ kids[k].state \notin UsedStates,
         \/ obj' = obj
         \/ Len(kids) = 0 /\ obj' = OneRequestLess(c.d),
         dels' = dels \/ dels' = WithoutDel(c.state),
         UNCHANGED <<oops, list, busy, scount, peeked, status>>,
         ioctl' = ioctl \/ (ioctl[Kthread].pc = "done" /\ ioctl' = [ioctl EXCEPT ![Kthread] = Idle]),
         ioctl'[Kthread] = Idle,
         [Next]_workerVars
  PROVE  StepOk
<1>1. /\ ListInv /\ c.state \in States /\ dels[c.state] = NoDel
      /\ c.state \in TaskStates(c.d)
      /\ \A d \in Dysks : d # c.d => c.state \notin TaskStates(d)
  BY CurrentTask
<1>2. /\ c.d \in Objects /\ obj[c.d] \in Object /\ obj[c.d].out \in 1..MaxRequests
      /\ Cardinality(TaskStates(c.d)) >= 1
  BY TaskIsWaitedFor
<1>3. /\ TasksInv' /\ DelsInv' /\ WalkInv'
      /\ wpc' \in {"visit", "pass"}
      /\ \A d \in Dysks : d # c.d => TaskStates(d)' = TaskStates(d)
      /\ TaskStates(c.d)' = (TaskStates(c.d) \ {c.state})
                              \cup {kids[k].state : k \in 1..Len(kids)}
      /\ dels' = dels
  BY TaskLeavesDels
<1>4. /\ obj' \in [Objects -> Object]
      /\ \A d \in Objects : Kept(d)
      /\ \A d \in Objects : d # c.d => obj'[d] = obj[d]
      /\ obj'[c.d].out = obj[c.d].out \/ (Len(kids) = 0 /\ obj'[c.d].out = obj[c.d].out - 1)
  <2>1. CASE obj' = obj
    BY <1>2, <2>1 DEF Kept, BddInv, OtherTypes
  <2>2. CASE obj' = OneRequestLess(c.d) /\ Len(kids) = 0
    <3>1. obj \in [Objects -> Object]
      BY DEF BddInv, OtherTypes
    <3>2. /\ \A d \in Objects : d # c.d => obj'[d] = obj[d]
          /\ obj'[c.d] = [obj[c.d] EXCEPT !.out = @ - 1]
          /\ obj' = [obj EXCEPT ![c.d] = obj'[c.d]]
      BY <1>2, <2>2, <3>1 DEF OneRequestLess
    <3>3. /\ obj'[c.d] \in Object
          /\ obj'[c.d].alloc = obj[c.d].alloc /\ obj'[c.d].hooked = obj[c.d].hooked
          /\ obj'[c.d].slot = obj[c.d].slot /\ obj'[c.d].out = obj[c.d].out - 1
      BY <1>2, <3>2, BddParametersAssumption DEF Object
    <3>4. obj' \in [Objects -> Object]
      BY <3>1, <3>2, <3>3
    <3>5. \A d \in Objects : Kept(d)
      <4>1. obj[c.d].out > 0
        BY <1>2, BddParametersAssumption
      <4> QED BY <3>2, <3>3, <4>1 DEF Kept
    <3> QED BY <2>2, <3>2, <3>3, <3>4, <3>5
  <2> QED BY <2>1, <2>2
<1>5. /\ ioctl \in [Threads -> Thread] /\ Kthread \in Threads
      /\ Idle \in Thread
  BY BddParametersAssumption DEF BddInv, ThreadsInv, Threads, Idle, Thread
<1>6. /\ ioctl' \in [Threads -> Thread]
      /\ \A p \in Threads : p # Kthread => ioctl'[p] = ioctl[p]
      /\ \A p \in Threads : KeepsHands(p)
  BY <1>5 DEF KeepsHands, Holding, Idle
<1>7. OwnersInv' /\ WholeInv' /\ LeaksInv' /\ SlotsInv'
  BY <1>3, <1>4, <1>6, HandsStay
<1>8. ThreadsInv'
  BY <1>5, <1>6 DEF BddInv, ThreadsInv, Idle
<1>9. WaitsInv'
  <2>1. queue' \in Seq(Task)
    BY <1>1, DequeueStep DEF ListInv
  <2>2. Cardinality(TaskStates(c.d))' + (IF c.d \in peeked' THEN 1 ELSE 0) <= obj'[c.d].out
    <3>1. queue \in Seq(Task)
      BY <1>1 DEF ListInv
    <3>2. PICK T : T = TaskStates(c.d)'
      OBVIOUS
    <3>3. /\ Cardinality(TaskStates(c.d)) \in Nat
          /\ Cardinality(TaskStates(c.d)) + (IF c.d \in peeked THEN 1 ELSE 0) <= obj[c.d].out
      BY <1>2, <3>1, TasksFinite DEF BddInv, WaitsInv
    <3>4. CASE Len(kids) = 0
      <4>1. T = TaskStates(c.d) \ {c.state}
        BY <1>3, <3>2, <3>4
      <4>2. Cardinality(T) <= Cardinality(TaskStates(c.d)) - 1 /\ Cardinality(T) \in Nat
        BY <1>1, <3>1, <4>1, FewerTasks
      <4> QED BY <1>2, <1>4, <3>2, <3>3, <4>2
    <3>5. CASE Len(kids) = 1
      <4>1. {kids[k].state : k \in 1..Len(kids)} = {kids[1].state}
        BY <3>5
      <4>2. T = (TaskStates(c.d) \ {c.state}) \cup {kids[1].state}
        BY <1>3, <3>2, <4>1
      <4>3. Cardinality(T) <= Cardinality(TaskStates(c.d)) /\ Cardinality(T) \in Nat
        BY <1>1, <3>1, <4>2, FewerTasks
      <4> QED BY <1>2, <1>4, <3>2, <3>3, <3>5, <4>3
    <3> QED BY <3>4, <3>5
  <2>3. \A d \in Objects : d # c.d => TaskStates(d)' = TaskStates(d) /\ obj'[d].out = obj[d].out
    BY <1>3, <1>4, NoneIsNoDysk
  <2> QED BY <2>1, <2>2, <2>3, WaitsStay
<1>10. OtherTypes'
  BY <1>4 DEF BddInv, OtherTypes
<1> QED BY <1>3, <1>7, <1>8, <1>9, <1>10 DEF StepOk

\* No task and one task are tasks a function may queue.
LEMMA NoKids ==
  ASSUME ListInv
  PROVE  /\ <<>> \in Seq(Task) /\ Len(<<>>) = 0 /\ queue \o <<>> = queue
         /\ <<>> \in KidsOf(Current)
  BY ConcatEmptySeq, EmptySeq DEF ListInv, KidsOf

\* TransferEnds: the response was read, and the request is ended.
LEMMA TransferEndsOk ==
  ASSUME BddInv, TransferEnds
  PROVE  StepOk
<1>1. /\ UNCHANGED <<oops, list, busy, scount, peeked, ioctl, dels>>
      /\ wpc = "exec" /\ Current.fn # "del" /\ ExecDone(<<>>)
      /\ obj' = OneRequestLess(Current.d)
  BY DEF TransferEnds, Quiet, Transferring, Ends, OneRequestLess
<1>2. ListInv /\ ioctl[Kthread] = Idle
  BY <1>1, CurrentTask DEF BddInv, ThreadsInv
<1>3. /\ Dequeue(queue \o <<>>) /\ status' = status
      /\ <<>> \in Seq(Task) /\ Len(<<>>) = 0
  BY <1>1, <1>2, NoKids DEF ExecDone
<1>4. [Next]_workerVars
  BY <1>1, <1>2, NoKids DEF Next, WorkerStep, ExecStep
<1>5. PICK c : c = Current
  OBVIOUS
<1>6. PICK kids \in Seq(Task) : kids = <<>>
  BY <1>3
<1>7. /\ \A k \in 1..Len(kids) :
           /\ kids[k].d = c.d
           /\ kids[k].fn # "del"
           /\ kids[k].state = c.state \/ kids[k].state \notin UsedStates
      /\ Dequeue(queue \o kids) /\ Len(kids) = 0
  BY <1>3, <1>6
<1> QED BY <1>1, <1>2, <1>3, <1>4, <1>5, <1>7, RequestMovesOn

\* TransferGoesOn: one task carries the request on.
LEMMA TransferGoesOnOk ==
  ASSUME BddInv, TransferGoesOn
  PROVE  StepOk
<1>1. /\ UNCHANGED <<oops, list, busy, scount, obj, peeked, ioctl, dels>>
      /\ wpc = "exec" /\ Current.fn # "del"
  BY DEF TransferGoesOn, Quiet, Transferring, bddVars
<1>2. /\ ListInv /\ ioctl[Kthread] = Idle /\ Current \in Task /\ Current.state \in UsedStates
  BY <1>1, CurrentTask DEF BddInv, ThreadsInv
<1>3. PICK f \in {"send", "recv"}, s \in (States \ UsedStates) \cup {Current.state}, m \in Modes :
        ExecDone(<<ChildTask(f, s, m)>>) \/ ExecThrottle(<<ChildTask(f, s, m)>>)
  BY DEF TransferGoesOn, Modes
<1>4. PICK kids : kids = <<ChildTask(f, s, m)>>
  OBVIOUS
<1>5. kids \in KidsOf(Current)
  BY <1>3, <1>4, BddParametersAssumption DEF KidsOf
<1>6. kids \in Seq(Task)
  BY <1>1, <1>2, <1>5, KidsAreTasks
<1>7. Len(kids) = 1 /\ kids[1] = ChildTask(f, s, m)
  BY <1>4
<1>8. Dequeue(queue \o kids) /\ status' = status /\ (ExecDone(kids) \/ ExecThrottle(kids))
  BY <1>3, <1>4 DEF ExecDone, ExecThrottle
<1>9. [Next]_workerVars
  BY <1>1, <1>5, <1>8 DEF Next, WorkerStep, ExecStep
<1>10. PICK c : c = Current
  OBVIOUS
<1>11. \A k \in 1..Len(kids) :
         /\ kids[k].d = c.d
         /\ kids[k].fn # "del"
         /\ kids[k].state = c.state \/ kids[k].state \notin UsedStates
  BY <1>3, <1>7, <1>10 DEF ChildTask
<1> QED BY <1>1, <1>2, <1>6, <1>7, <1>8, <1>9, <1>10, <1>11, RequestMovesOn

\* A cancelled or timed out task of a request: the clean-up of a receive task
\* ends the request (execute 82-89, 112-116).
LEMMA RequestDroppedOk ==
  ASSUME BddInv, wpc \notin {"pass", "stopped"}, Current.fn # "del", CleanUp,
         Cancel \/ Expire \/ CatastropheReturn,
         UNCHANGED <<oops, list, busy, scount, peeked>>,
         ioctl' = ioctl \/ (ioctl[Kthread].pc = "done" /\ ioctl' = [ioctl EXCEPT ![Kthread] = Idle]),
         ioctl'[Kthread] = Idle
  PROVE  StepOk
<1>1. ListInv
  BY CurrentTask
<1>2. /\ Dequeue(queue \o <<>>) /\ status' = status
      /\ <<>> \in Seq(Task) /\ Len(<<>>) = 0
  BY <1>1, NoKids DEF Cancel, Expire, CatastropheReturn
<1>3. [Next]_workerVars
  BY DEF Next, WorkerStep
<1>4. PICK c : c = Current
  OBVIOUS
<1>5. PICK kids \in Seq(Task) : kids = <<>>
  BY <1>2
<1>6. /\ \A k \in 1..Len(kids) :
           /\ kids[k].d = c.d
           /\ kids[k].fn # "del"
           /\ kids[k].state = c.state \/ kids[k].state \notin UsedStates
      /\ Dequeue(queue \o kids) /\ Len(kids) = 0
  BY <1>2, <1>5
<1>7. /\ obj' = obj \/ obj' = OneRequestLess(c.d)
      /\ dels' = WithoutDel(c.state)
  BY <1>4 DEF CleanUp, Ends, OneRequestLess, WithoutDel
<1>8. /\ Len(kids) \in {0, 1} /\ Dequeue(queue \o kids)
      /\ UNCHANGED <<oops, list, busy, scount, peeked, status>>
  BY <1>2, <1>6
<1>9. \A k \in 1..Len(kids) :
        /\ kids[k].d = c.d
        /\ kids[k].fn # "del"
        /\ kids[k].state = c.state \/ kids[k].state \notin UsedStates
  BY <1>6
<1>10. obj' = obj \/ (Len(kids) = 0 /\ obj' = OneRequestLess(c.d))
  BY <1>6, <1>7
<1>11. dels' = dels \/ dels' = WithoutDel(c.state)
  BY <1>7
<1> QED BY ONLY BddInv, wpc \notin {"pass", "stopped"}, Current.fn # "del",
           ioctl' = ioctl \/ (ioctl[Kthread].pc = "done" /\ ioctl' = [ioctl EXCEPT ![Kthread] = Idle]),
           ioctl'[Kthread] = Idle, kids \in Seq(Task),
           <1>3, <1>4, <1>8, <1>9, <1>10, <1>11, RequestMovesOn

\* A cancelled delete task: its dysk is nobody's from then on, and the head
\* is marked.  One that timed out there is not, as it never leaves the loop.
LEMMA DelDroppedOk ==
  ASSUME BddInv, wpc \notin {"pass", "stopped"}, Current.fn = "del", CleanUp,
         Cancel,
         UNCHANGED <<oops, list, busy, scount, peeked, ioctl>>
  PROVE  StepOk
<1>1. ListInv /\ Current \in Task /\ Current.d = HeadDysk /\ Current.state \in States
  BY CurrentTask
<1>2. /\ Dequeue(queue \o <<>>) /\ status' = status /\ wpc = "visit"
      /\ status[HeadDysk] # "OK"
      /\ <<>> \in Seq(Task) /\ Len(<<>>) = 0
  BY <1>1, NoKids DEF Cancel
<1>3. [Next]_workerVars
  BY DEF Next, WorkerStep
<1>4. PICK c : c = Current
  OBVIOUS
<1>5. PICK kids \in Seq(Task) : kids = <<>>
  BY <1>2
<1>6. obj' = obj /\ dels' = WithoutDel(c.state)
  BY <1>4 DEF CleanUp, WithoutDel
<1>7. /\ TasksInv' /\ DelsInv' /\ WalkInv' /\ wpc' \in {"visit", "pass"}
      /\ \A d \in Dysks : d # c.d => TaskStates(d)' = TaskStates(d)
      /\ \A s \in States : s # c.state => dels'[s] = dels[s]
      /\ dels'[c.state] = NoDel
  <2>1. Dequeue(queue \o kids) /\ Len(kids) = 0
    BY <1>2, <1>5
  <2>2. \A k \in 1..Len(kids) :
          /\ kids[k].d = c.d
          /\ kids[k].fn # "del"
          /\ kids[k].state = c.state \/ kids[k].state \notin UsedStates
    BY <2>1
  <2>3. Len(kids) \in {0, 1} /\ Dequeue(queue \o kids) /\ (c.fn = "del" => Len(kids) = 0)
    BY <2>1
  <2>4. dels' = WithoutDel(c.state)
    BY <1>6
  <2> QED BY ONLY BddInv, wpc \notin {"pass", "stopped"}, kids \in Seq(Task),
             <1>4, <2>2, <2>3, <2>4, TaskLeavesDels
<1>8. \A s \in States : dels'[s].d # None => dels'[s] = dels[s]
  BY <1>7 DEF NoDel
<1>9. OwnersInv'
  <2>1. \A p \in Threads : Holding(p) => ioctl[p].d # None
    BY NoneIsNoDysk DEF BddInv, ThreadsInv, Holding
  <2> QED BY <1>8, <2>1 DEF BddInv, OwnersInv, Holding, Listed
<1>10. WholeInv' /\ SlotsInv'
  BY <1>6, <1>8 DEF BddInv, WholeInv, SlotsInv
<1>11. LeaksInv'
  BY <1>2 DEF LeaksInv
<1>12. ThreadsInv'
  BY <1>2, <1>7 DEF BddInv, ThreadsInv
<1>13. WaitsInv'
  <2>1. queue' \in Seq(Task)
    BY <1>1, <1>2, DequeueStep DEF ListInv
  <2> QED BY <1>1, <1>4, <1>6, <1>7, <2>1, WaitsStay, NoneIsNoDysk
<1>14. OtherTypes'
  BY <1>6 DEF BddInv, OtherTypes
<1> QED BY <1>3, <1>7, <1>9, <1>10, <1>11, <1>12, <1>13, <1>14 DEF StepOk

\* Dropped and CatastropheOver.
LEMMA DropsOk ==
  ASSUME BddInv, Dropped \/ CatastropheOver
  PROVE  StepOk
<1>1. /\ UNCHANGED <<oops, list, busy, scount, peeked>> /\ CleanUp
  BY DEF Dropped, CatastropheOver, Quiet
<1>2. CASE Dropped
  <2>1. /\ wpc \in {"visit", "expiry"} /\ ioctl' = ioctl /\ (Cancel \/ Expire)
        /\ Cancel => wpc = "visit"
        /\ Expire => wpc = "expiry"
    BY <1>2 DEF Dropped, Cancel, Expire
  <2>2. ioctl[Kthread] = Idle /\ (wpc = "expiry" => Current.fn # "del")
    BY <2>1 DEF BddInv, ThreadsInv, WalkInv
  <2> QED BY <1>1, <2>1, <2>2, RequestDroppedOk, DelDroppedOk
<1>3. CASE CatastropheOver
  <2>1. /\ wpc = "catastrophe" /\ CatastropheReturn
        /\ ioctl[Kthread].pc = "done" /\ ioctl' = [ioctl EXCEPT ![Kthread] = Idle]
    BY <1>3 DEF CatastropheOver, CatastropheReturn, Leaves
  <2>2. Current.fn # "del" /\ ioctl'[Kthread] = Idle
    BY <2>1 DEF BddInv, WalkInv, ThreadsInv, Threads
  <2> QED BY <1>1, <2>1, <2>2, RequestDroppedOk
<1> QED BY <1>2, <1>3

\* TransferFails: the dysk is marked, and the worker goes on to delete the
\* one with its name (dysk_catastrophe 842-858).
LEMMA TransferFailsOk ==
  ASSUME BddInv, TransferFails
  PROVE  StepOk
<1>1. /\ UNCHANGED <<oops, list, busy, scount, obj, peeked, dels>>
      /\ wpc = "exec" /\ Current.fn # "del" /\ ExecCatastrophe
      /\ ioctl' = [ioctl EXCEPT ![Kthread] =
                     [pc |-> "find", name |-> obj[Current.d].name, d |-> None]]
  BY DEF TransferFails, Quiet, Transferring
<1>2. [Next]_workerVars
  BY <1>1 DEF Next, WorkerStep, ExecStep
<1>3. /\ Current.d \in Objects /\ Current.d \in Dysks
      /\ dels[Current.state] = NoDel /\ ioctl[Kthread] = Idle /\ ListInv
  BY <1>1, CurrentTask DEF BddInv, ThreadsInv
<1>4. /\ queue' = queue /\ pos' = pos /\ wpc' = "catastrophe" /\ execCount' = execCount
      /\ status'[HeadDysk] = status[HeadDysk]
  <2>1. status \in [Dysks -> Statuses]
    BY DEF BddInv, IInv, TypeOK
  <2> QED BY <1>1, <1>3, <2>1, BddParametersAssumption, NoneIsNoDysk DEF ExecCatastrophe
<1>5. PICK x : x = [pc |-> "find", name |-> obj[Current.d].name, d |-> None]
  OBVIOUS
<1>6. x \in Thread /\ x.pc = "find"
  <2>1. obj[Current.d] \in Object
    BY <1>3 DEF BddInv, OtherTypes
  <2> QED BY <1>5, <2>1 DEF Object, Thread
<1>7. ioctl \in [Threads -> Thread] /\ Kthread \in Threads
  BY DEF BddInv, ThreadsInv, Threads
<1>8. /\ ioctl' \in [Threads -> Thread] /\ ioctl'[Kthread] = x
      /\ \A p \in Threads : p # Kthread => ioctl'[p] = ioctl[p]
  BY <1>1, <1>5, <1>6, <1>7
<1>9. OwnersInv' /\ WholeInv' /\ LeaksInv' /\ SlotsInv'
  <2>1. \A p \in Threads : KeepsHands(p)
    BY <1>3, <1>6, <1>8 DEF KeepsHands, Holding, Idle
  <2> QED BY <1>1, <1>4, <2>1, HandsStay DEF Kept
<1>10. ThreadsInv'
  BY <1>4, <1>6, <1>8 DEF BddInv, ThreadsInv
<1>11. TasksInv' /\ \A d \in Dysks : TaskStates(d)' = TaskStates(d)
  BY <1>4, TasksStay DEF BddInv
<1>12. DelsInv'
  BY <1>1, <1>4, DelsElsewhere
<1>13. WalkInv'
  BY <1>1, <1>4 DEF WalkInv, Current
<1>14. WaitsInv'
  <2>1. queue' \in Seq(Task)
    BY <1>3, <1>4 DEF ListInv
  <2> QED BY <1>1, <1>11, <2>1, WaitsStay, NoneIsNoDysk
<1>15. OtherTypes'
  BY <1>1 DEF BddInv, OtherTypes
<1> QED BY <1>2, <1>9, <1>10, <1>11, <1>12, <1>13, <1>14, <1>15 DEF StepOk

-----------------------------------------------------------------------------
(***************************************************************************)
(* The steps of the ioctls that leave every dysk in the hands it is in.    *)
(***************************************************************************)
\* A set of naturals has a least element.
LEMMA LeastOf ==
  ASSUME NEW S \in SUBSET Nat, S # {}
  PROVE  \E m \in S : \A k \in S : m <= k
<1>1. PICK m \in S : \A k \in S : <<k, m>> \notin OpToRel(<, Nat)
  BY NatLessThanWellFounded, WFMin
<1>2. \A k \in S : ~(k < m)
  BY <1>1 DEF OpToRel
<1> QED BY <1>2

\* dysk_exist finds a dysk of the list, if it finds one.
LEMMA FoundIsListed ==
  ASSUME BddInv, NEW n, dysk_exist(n) # None
  PROVE  dysk_exist(n) \in Objects /\ Listed(dysk_exist(n))
<1> DEFINE at == {i \in 1..Len(list) : obj[list[i]].name = n}
<1>1. list \in Seq(Objects) /\ Len(list) \in Nat
  BY LenProperties DEF BddInv, OtherTypes
<1>2. at # {}
  BY DEF dysk_exist
<1>3. at \in SUBSET Nat
  BY <1>1
<1>4. \E i \in at : \A j \in at : i <= j
  BY <1>2, <1>3, LeastOf
<1>5. PICK i \in at : dysk_exist(n) = list[i]
  BY <1>2, <1>4 DEF dysk_exist
<1> QED BY <1>1, <1>5, ElementOfSeq DEF Listed

\* The kernel is in trouble, and nothing else happens.
LEMMA BreaksOk ==
  ASSUME BddInv, NEW why \in {"freed", "deleted twice"}, Breaks(why)
  PROVE  StepOk
<1>1. UNCHANGED <<workerVars, bddVars>> /\ oops' = why
  BY DEF Breaks, bddVars
<1>2. UNCHANGED <<queue, pos, more, wpc, execCount, status, dels, ioctl>>
  BY <1>1 DEF workerVars, walk, bddVars
<1>3. DelsInv' /\ WalkInv'
  <2>1. \A d \in Dysks : TaskStates(d)' = TaskStates(d)
    BY <1>2, TasksStay
  <2> QED BY <1>2, <2>1, BddParametersAssumption DEF BddInv, DelsInv, WalkInv, Current
<1>4. wpc' # "catastrophe" => ioctl[Kthread] = Idle
  BY <1>2 DEF BddInv, ThreadsInv
<1> QED BY <1>1, <1>2, <1>3, <1>4, WalkMoves

\* What EXCEPT does to the threads.
LEMMA OneThreadMoves ==
  ASSUME BddInv, NEW p \in Threads, NEW x, ioctl' = [ioctl EXCEPT ![p] = x]
  PROVE  Moves(p) /\ ioctl'[p] = x
  BY DEF Moves, BddInv, ThreadsInv

\* Unmount, DyskGet: a process enters dysk_unmount() or dysk_get().
LEMMA EntersOk ==
  ASSUME BddInv, NEW p \in Callers, NEW n \in Names, Unmount(p, n) \/ DyskGet(p, n)
  PROVE  StepOk
<1>0. p \in Threads
  BY DEF Threads
<1>1. /\ Moves(p) /\ ioctl'[p] \in Thread
      /\ \/ ioctl'[p].pc = "find"
         \/ ioctl'[p].pc = "get" /\ ioctl'[p].d \in Objects
  <2>1. CASE Unmount(p, n)
    <3>1. ioctl' = [ioctl EXCEPT ![p] = [pc |-> "find", name |-> n, d |-> None]]
      BY <2>1 DEF Unmount
    <3>2. Moves(p) /\ ioctl'[p] = [pc |-> "find", name |-> n, d |-> None]
      BY <1>0, <3>1, OneThreadMoves
    <3> QED BY <3>2 DEF Thread
  <2>2. CASE DyskGet(p, n)
    <3>1. /\ ioctl' = [ioctl EXCEPT ![p] = [pc |-> "get", name |-> n, d |-> dysk_exist(n)]]
          /\ dysk_exist(n) \in Objects
      BY <2>2, FoundIsListed DEF DyskGet
    <3>2. Moves(p) /\ ioctl'[p] = [pc |-> "get", name |-> n, d |-> dysk_exist(n)]
      BY <1>0, <3>1, OneThreadMoves
    <3>3. dysk_exist(n) \in Dysks
      BY <3>1, NoneIsNoDysk
    <3> QED BY <3>1, <3>2, <3>3 DEF Thread
  <2> QED BY <2>1, <2>2
<1>2. /\ UNCHANGED <<oops, workerVars, list, busy, scount, obj, peeked, dels>>
      /\ ioctl[p].pc = "idle"
  BY DEF Unmount, DyskGet, Quiet
<1>3. p \in Threads /\ p # Kthread /\ ~Holding(p)
  BY <1>0, <1>2, BddParametersAssumption DEF Threads, Holding
<1>4. UNCHANGED <<queue, walk, status>> /\ [Next]_workerVars
  BY <1>2 DEF workerVars
<1> QED BY <1>1, <1>2, <1>3, <1>4, ThreadMoves

\* The step is one of a thread that has left the state Idle.
LEMMA KthreadDeletes ==
  ASSUME BddInv, ioctl[Kthread].pc # "idle"
  PROVE  wpc = "catastrophe"
  BY DEF BddInv, ThreadsInv, Idle

\* Reply, DelGivesUp, DelFind, DelMark.
LEMMA ThreadStepsOk ==
  ASSUME BddInv, NEW p \in Threads,
         Reply(p) \/ DelGivesUp(p) \/ DelFind(p) \/ DelMark(p)
  PROVE  StepOk
<1>1. ioctl \in [Threads -> Thread]
  BY DEF BddInv, ThreadsInv
<1>2. /\ ioctl[p].pc \in {"reply", "get", "find", "mark"} /\ ~Holding(p)
      /\ ioctl[p].pc \in {"reply", "get", "mark"} => ioctl[p].d \in Objects
      /\ p = Kthread => wpc = "catastrophe"
      /\ ioctl[p] \in Thread
  <2>1. ioctl[p].pc \in {"reply", "get", "find", "mark"}
    BY DEF Reply, DelGivesUp, DelFind, DelMark
  <2> QED BY <1>1, <2>1, KthreadDeletes DEF BddInv, ThreadsInv, Holding
<1>3. CASE \E why \in {"freed", "deleted twice"} : Breaks(why)
  BY <1>3, BreaksOk
<1>4. CASE ~\E why \in {"freed", "deleted twice"} : Breaks(why)
  <2>1. UNCHANGED <<oops, queue, walk, list, busy, scount, obj, peeked, dels>>
    BY <1>4 DEF Reply, DelGivesUp, DelFind, DelMark, MarkDeleting, Quiet, workerVars
  <2>2. [Next]_workerVars /\ (status[HeadDysk] # "OK" => status'[HeadDysk] # "OK")
    <3>1. CASE UNCHANGED workerVars
      BY <3>1 DEF workerVars
    <3>2. CASE DelMark(p) /\ ~UNCHANGED workerVars
      <4>1. MarkDeleting(ioctl[p].d) /\ ioctl[p].d \in Objects
        BY <1>2, <1>4, <3>2 DEF DelMark
      <4>2. [Next]_workerVars
        BY <4>1, NoneIsNoDysk DEF Next, Environment
      <4>3. status \in [Dysks -> Statuses]
        BY DEF BddInv, IInv, TypeOK
      <4>4. status[HeadDysk] # "OK" => status'[HeadDysk] # "OK"
        BY <4>1, <4>3, BddParametersAssumption DEF MarkDeleting
      <4> QED BY <4>2, <4>4
    <3>3. UNCHANGED workerVars \/ DelMark(p)
      BY <1>4 DEF Reply, DelGivesUp, DelFind
    <3> QED BY <3>1, <3>2, <3>3
  <2>3. /\ Moves(p) /\ ioctl'[p] \in Thread
        /\ ioctl'[p].pc \notin {"hook", "add", "queue"}
        /\ ioctl'[p].pc \notin {"idle", "find", "done"} => ioctl'[p].d \in Objects
    <3>1. CASE Leaves(p)
      <4>1. Moves(p) /\ ioctl'[p] = Idle
        BY <3>1, OneThreadMoves DEF Leaves
      <4> QED BY <4>1 DEF Idle, Thread
    <3>2. CASE Goes(p, "done")
      <4>1. Moves(p) /\ ioctl'[p] = [ioctl[p] EXCEPT !.pc = "done"]
        BY <3>2, OneThreadMoves DEF Goes
      <4> QED BY <1>2, <4>1 DEF Thread
    <3>3. CASE DelFind(p)
      <4>1. /\ ioctl' = [ioctl EXCEPT ![p] =
                          [ioctl[p] EXCEPT !.pc = "mark", !.d = dysk_exist(ioctl[p].name)]]
            /\ dysk_exist(ioctl[p].name) \in Objects
        BY <1>1, <3>3, FoundIsListed DEF DelFind
      <4>2. /\ Moves(p)
            /\ ioctl'[p] = [ioctl[p] EXCEPT !.pc = "mark", !.d = dysk_exist(ioctl[p].name)]
        BY <4>1, OneThreadMoves
      <4>3. dysk_exist(ioctl[p].name) \in Dysks
        BY <4>1, NoneIsNoDysk
      <4>4. ioctl'[p].pc = "mark" /\ ioctl'[p].d = dysk_exist(ioctl[p].name)
        BY <1>2, <4>2 DEF Thread
      <4>5. ioctl'[p] \in Thread
        BY <1>2, <4>2, <4>3 DEF Thread
      <4> QED BY <4>1, <4>2, <4>4, <4>5
    <3>4. CASE DelMark(p)
      <4>1. ioctl' = [ioctl EXCEPT ![p] = [ioctl[p] EXCEPT !.pc = "unlink"]]
        BY <1>4, <3>4 DEF DelMark, Goes
      <4>2. Moves(p) /\ ioctl'[p] = [ioctl[p] EXCEPT !.pc = "unlink"]
        BY <4>1, OneThreadMoves
      <4> QED BY <1>2, <3>4, <4>2 DEF Thread, DelMark
    <3>5. CASE Reply(p) \/ DelGivesUp(p)
      <4>1. Leaves(p) \/ Goes(p, "done")
        BY <1>4, <3>5 DEF Reply, DelGivesUp
      <4> QED BY <3>1, <3>2, <4>1
    <3> QED BY <3>3, <3>4, <3>5
  <2> QED BY <1>2, <2>1, <2>2, <2>3, ThreadMoves
<1> QED BY <1>3, <1>4

-----------------------------------------------------------------------------
(***************************************************************************)
(* Requests, as the block layer hands them in.                             *)
(***************************************************************************)
\* Submit: io_request() finds a request of a hooked dysk.
LEMMA SubmitOk ==
  ASSUME BddInv, NEW d \in Objects, Submit(d)
  PROVE  StepOk
<1>1. /\ UNCHANGED <<oops, workerVars, list, busy, scount, ioctl, dels>>
      /\ obj[d].hooked /\ obj[d].out < MaxRequests /\ d \notin peeked
      /\ peeked' = peeked \cup {d}
      /\ obj' = [obj EXCEPT ![d].out = @ + 1]
  BY DEF Submit, Quiet
<1>2. obj \in [Objects -> Object] /\ obj[d] \in Object
  BY DEF BddInv, OtherTypes
<1>3. /\ \A e \in Objects : e # d => obj'[e] = obj[e]
      /\ obj'[d] = [obj[d] EXCEPT !.out = @ + 1]
      /\ obj' = [obj EXCEPT ![d] = obj'[d]]
  BY <1>1, <1>2
<1>4. /\ obj'[d] \in Object
      /\ obj'[d].alloc = obj[d].alloc /\ obj'[d].hooked = obj[d].hooked
      /\ obj'[d].slot = obj[d].slot /\ obj'[d].out = obj[d].out + 1
  <2>1. obj[d].out \in 0..MaxRequests /\ MaxRequests \in Nat
    BY <1>2, BddParametersAssumption DEF Object
  <2>2. obj[d].out + 1 \in 0..MaxRequests
    BY <1>1, <2>1
  <2> QED BY <1>2, <1>3, <2>2 DEF Object
<1>5. obj' \in [Objects -> Object] /\ \A e \in Objects : Kept(e)
  BY <1>1, <1>2, <1>3, <1>4 DEF Kept
<1>6. OwnersInv' /\ WholeInv' /\ LeaksInv' /\ SlotsInv'
  BY <1>1, <1>5, HandsStay DEF KeepsHands, workerVars
<1>7. UNCHANGED <<queue, pos, wpc, execCount>>
  BY <1>1 DEF workerVars, walk
<1>8. TasksInv' /\ \A e \in Dysks : TaskStates(e)' = TaskStates(e)
  BY <1>7, TasksStay DEF BddInv
<1>9. DelsInv' /\ WalkInv' /\ ThreadsInv'
  BY <1>1, <1>7, <1>8, BddParametersAssumption
     DEF BddInv, DelsInv, WalkInv, ThreadsInv, Current
<1>10. WaitsInv'
  <2>1. queue \in Seq(Task)
    BY IInvParts DEF BddInv, ListInv
  <2>2. /\ Cardinality(TaskStates(d)) \in Nat /\ Cardinality(TaskStates(d)) <= obj[d].out
        /\ obj[d].out \in Nat
    BY <1>1, <1>2, <2>1, TasksFinite, BddParametersAssumption DEF BddInv, WaitsInv, Object
  <2>3. Cardinality(TaskStates(d))' + (IF d \in peeked' THEN 1 ELSE 0) <= obj'[d].out
    BY <1>1, <1>4, <1>8, <2>2, NoneIsNoDysk
  <2>4. \A e \in Objects : e # d => /\ TaskStates(e)' = TaskStates(e)
                                   /\ (e \in peeked' <=> e \in peeked)
                                   /\ obj'[e].out = obj[e].out
    BY <1>1, <1>3, <1>8, NoneIsNoDysk
  <2> QED BY <1>7, <2>1, <2>3, <2>4, WaitsChange
<1>11. OtherTypes'
  BY <1>1, <1>5 DEF BddInv, OtherTypes
<1> QED BY <1>1, <1>6, <1>8, <1>9, <1>10, <1>11 DEF StepOk

\* The worker stays in the task it is in while another one is queued.
LEMMA QueueStep ==
  ASSUME BddInv, NEW f \in Fns, NEW s \in States, NEW d \in Dysks, NEW m \in Modes,
         queue_w_task(f, s, d, m), f = "del" <=> d = HeadDysk
  PROVE  /\ [Next]_workerVars
         /\ TasksInv' /\ queue' \in Seq(Task) /\ queue \in Seq(Task)
         /\ UNCHANGED <<pos, wpc, execCount, status>>
         /\ wpc \notin {"pass", "stopped"} => Current' = Current /\ Current.state # s
         /\ \A e \in Dysks : e # d => TaskStates(e)' = TaskStates(e)
         /\ TaskStates(d)' = TaskStates(d) \cup {s}
         /\ \A e \in Dysks : s \notin TaskStates(e)
<1>1. [Next]_workerVars
  BY DEF Next, Environment
<1>2. ListInv /\ FieldsInv
  BY IInvParts DEF BddInv
<1>3. PICK t : t = NewTask(f, s, d, m)
  OBVIOUS
<1>4. t \in Task /\ t.state = s /\ t.d = d /\ t.fn = f
  BY <1>2, <1>3, ParametersAssumption DEF NewTask, Task, FieldsInv
<1>5. /\ queue' = Append(queue, t) /\ s \notin UsedStates
      /\ UNCHANGED <<pos, wpc, execCount, status>>
  BY <1>3 DEF queue_w_task, walk
<1>6. /\ TasksInv'
      /\ \A e \in Dysks : e # d => TaskStates(e)' = TaskStates(e)
      /\ TaskStates(d)' = TaskStates(d) \cup {s}
      /\ \A e \in Dysks : s \notin TaskStates(e)
  <2>1. TasksInv
    BY DEF BddInv
  <2>2. /\ TasksInv'
        /\ \A e \in Dysks : e # t.d => TaskStates(e)' = TaskStates(e)
        /\ TaskStates(t.d)' = TaskStates(t.d) \cup {t.state}
        /\ \A e \in Dysks : t.state \notin TaskStates(e)
    BY <1>2, <1>4, <1>5, <2>1, TaskComes
  <2> QED BY <1>4, <2>2
<1>7. queue' \in Seq(Task) /\ queue \in Seq(Task)
  BY <1>2, <1>4, <1>5, AppendProperties DEF ListInv
<1>8. ASSUME wpc \notin {"pass", "stopped"}
      PROVE  Current' = Current /\ Current.state # s
  <2>1. Current' = Current
    BY <1>2, <1>4, <1>5, <1>8, AppendKeepsCurrent
  <2>2. Current.state \in UsedStates
    BY <1>8, CurrentTask
  <2> QED BY <1>5, <2>1, <2>2
<1> QED BY <1>1, <1>5, <1>6, <1>7, <1>8

\* Enqueue: the request gets its task, whatever became of the dysk.
LEMMA EnqueueOk ==
  ASSUME BddInv, NEW d \in Objects, NEW s \in States, Enqueue(d, s)
  PROVE  StepOk
<1>1. /\ UNCHANGED <<oops, list, busy, scount, obj, ioctl, dels>>
      /\ d \in peeked /\ peeked' = peeked \ {d} /\ queue_w_task("send", s, d, "normal")
  BY DEF Enqueue, Quiet
<1>2. "send" \in Fns /\ d \in Dysks /\ "normal" \in Modes /\ d # HeadDysk
  BY BddParametersAssumption, NoneIsNoDysk DEF Modes
<1>3. /\ [Next]_workerVars
      /\ TasksInv' /\ queue' \in Seq(Task) /\ queue \in Seq(Task)
      /\ UNCHANGED <<pos, wpc, execCount, status>>
      /\ wpc \notin {"pass", "stopped"} => Current' = Current /\ Current.state # s
      /\ \A e \in Dysks : e # d => TaskStates(e)' = TaskStates(e)
      /\ TaskStates(d)' = TaskStates(d) \cup {s}
      /\ \A e \in Dysks : s \notin TaskStates(e)
  BY <1>1, <1>2, QueueStep
<1>4. OwnersInv' /\ WholeInv' /\ LeaksInv' /\ SlotsInv'
  BY <1>1, <1>3, HandsStay DEF Kept, KeepsHands
<1>5. DelsInv' /\ WalkInv' /\ ThreadsInv'
  <2>1. TaskStates(HeadDysk)' = TaskStates(HeadDysk)
    BY <1>2, <1>3, BddParametersAssumption
  <2>2. DelsInv'
    <3>1. CASE wpc = "exec"
      BY <1>1, <1>3, <2>1, <3>1 DEF BddInv, DelsInv
    <3>2. CASE wpc # "exec"
      BY <1>1, <1>3, <2>1, <3>2 DEF BddInv, DelsInv
    <3> QED BY <3>1, <3>2
  <2> QED BY <1>1, <1>3, <2>2 DEF BddInv, WalkInv, ThreadsInv
<1>6. WaitsInv'
  <2>1. /\ Cardinality(TaskStates(d)) \in Nat /\ IsFiniteSet(TaskStates(d))
        /\ Cardinality(TaskStates(d)) + 1 <= obj[d].out
    BY <1>1, <1>3, TasksFinite DEF BddInv, WaitsInv
  <2>2. Cardinality(TaskStates(d))' = Cardinality(TaskStates(d)) + 1
    BY <1>2, <1>3, <2>1, FS_AddElement
  <2>3. Cardinality(TaskStates(d))' + (IF d \in peeked' THEN 1 ELSE 0) <= obj'[d].out
    BY <1>1, <2>1, <2>2
  <2>4. \A e \in Objects : e # d => /\ TaskStates(e)' = TaskStates(e)
                                   /\ (e \in peeked' <=> e \in peeked)
                                   /\ obj'[e].out = obj[e].out
    BY <1>1, <1>3, NoneIsNoDysk
  <2> QED BY <1>3, <2>3, <2>4, WaitsChange
<1>7. OtherTypes'
  BY <1>1 DEF BddInv, OtherTypes
<1> QED BY <1>3, <1>4, <1>5, <1>6, <1>7 DEF StepOk


-----------------------------------------------------------------------------
(***************************************************************************)
(* The second half of a deletion.                                          *)
(***************************************************************************)
\* The delete task the worker runs has a dysk of its own, and has counted its
\* runs in this visit.
LEMMA DeleteTask ==
  ASSUME BddInv, Deleting, NEW s, s = Current.state, NEW d, d = dels[s].d
  PROVE  /\ s \in States /\ d \in Objects /\ dels[s].d # None /\ dels[s] \in DelState
         /\ s \in TaskStates(HeadDysk)
         /\ \A t \in States : t # s => dels[t].d # d
         /\ ~Listed(d)
         /\ \A p \in Threads : Holding(p) => ioctl[p].d # d
         /\ obj[d].alloc /\ obj[d] \in Object
         /\ (obj[d].hooked <=> ~dels[s].draining)
         /\ (~dels[s].draining => dels[s].counter = execCount)
         /\ (dels[s].draining => dels[s].counter = 3)
         /\ execCount \in 0..2 /\ ioctl[Kthread] = Idle
<1>1. /\ wpc = "exec" /\ s \in States /\ d \in Objects /\ Current.d = HeadDysk
      /\ s \in TaskStates(HeadDysk)
  BY CurrentTask DEF Deleting
<1>2. d # None /\ dels \in [States -> DelState]
  BY <1>1, NoneIsNoDysk DEF BddInv, DelsInv
<1>3. dels[s] \in DelState
  BY <1>1, <1>2
<1>4. dels[s].counter = IF dels[s].draining THEN 3 ELSE execCount
  BY <1>1, <1>2 DEF BddInv, DelsInv
<1>5. \A t \in States : t # s => dels[t].d # d
  BY <1>1, <1>2 DEF BddInv, OwnersInv
<1>6. ~Listed(d) /\ \A p \in Threads : Holding(p) => ioctl[p].d # d
  BY <1>1, <1>2 DEF BddInv, OwnersInv
<1>7. obj[d].alloc /\ (obj[d].hooked <=> ~dels[s].draining)
  BY <1>1, <1>2 DEF BddInv, WholeInv
<1>8. obj[d] \in Object
  BY <1>1 DEF BddInv, OtherTypes
<1>9. execCount \in 0..2
  BY <1>1 DEF BddInv, IInv, TypeOK, RetriesLeft, max_retry_now_count
<1>10. ioctl[Kthread] = Idle
  BY <1>1 DEF BddInv, ThreadsInv
<1> QED BY <1>1, <1>2, <1>3, <1>4, <1>5, <1>6, <1>7, <1>8, <1>9, <1>10

\* What EXCEPT does to the states of the delete tasks.
LEMMA OneDelChanges ==
  ASSUME BddInv, NEW s \in States, NEW x \in DelState, dels' = [dels EXCEPT ![s] = x]
  PROVE  /\ dels' \in [States -> DelState] /\ dels'[s] = x
         /\ \A t \in States : t # s => dels'[t] = dels[t]
  BY DEF BddInv, DelsInv

\* DelAgain: the task runs again, in the same visit (__del_dysk_async 170-175).
LEMMA DelAgainOk ==
  ASSUME BddInv, DelAgain
  PROVE  StepOk
<1>1. /\ UNCHANGED <<oops, list, busy, scount, obj, peeked, ioctl>>
      /\ Deleting /\ Runs <= 2 /\ ExecRetry("retry_later")
      /\ dels' = [dels EXCEPT ![Current.state].counter = Runs]
  BY DEF DelAgain, Quiet
<1>2. PICK s : s = Current.state
  OBVIOUS
<1>3. PICK d : d = dels[s].d
  OBVIOUS
<1>4. /\ s \in States /\ d \in Objects /\ dels[s].d # None /\ dels[s] \in DelState
      /\ s \in TaskStates(HeadDysk)
      /\ (~dels[s].draining => dels[s].counter = execCount)
      /\ (dels[s].draining => dels[s].counter = 3)
      /\ execCount \in 0..2 /\ ioctl[Kthread] = Idle /\ wpc = "exec"
  BY <1>1, <1>2, <1>3, DeleteTask DEF Deleting
<1>5. /\ ~dels[s].draining /\ dels[s].counter = execCount /\ execCount + 1 <= 2
      /\ Runs = execCount + 1
  BY <1>1, <1>2, <1>4 DEF Runs
<1>6. PICK x : x = [dels[s] EXCEPT !.counter = execCount + 1]
  OBVIOUS
<1>7. /\ x \in DelState /\ x.d = dels[s].d /\ x.draining = dels[s].draining
      /\ x.counter = execCount + 1
  BY <1>4, <1>5, <1>6 DEF DelState
<1>8. dels' = [dels EXCEPT ![s] = x]
  BY <1>1, <1>2, <1>5, <1>6
<1>9. /\ dels' \in [States -> DelState] /\ dels'[s] = x
      /\ \A t \in States : t # s => dels'[t] = dels[t]
  BY <1>4, <1>7, <1>8, OneDelChanges
<1>10. /\ wpc' = "exec" /\ execCount' = execCount + 1
       /\ UNCHANGED <<queue, pos, status>>
  BY <1>1, <1>4, <1>5 DEF ExecRetry, max_retry_now_count
<1>11. [Next]_workerVars
  BY <1>1 DEF Next, WorkerStep, ExecStep, Retries
<1>12. TasksInv' /\ \A e \in Dysks : TaskStates(e)' = TaskStates(e)
  BY <1>10, TasksStay DEF BddInv
<1>13. DelsInv'
  <2>1. HeadDysk \in Dysks /\ Current' = Current
    BY <1>10, BddParametersAssumption DEF Current
  <2>2. TaskStates(HeadDysk)' = TaskStates(HeadDysk)
    BY <1>12, <2>1
  <2>3. ASSUME NEW t \in States
        PROVE  /\ t \in TaskStates(HeadDysk)' => dels'[t].d \in Objects
               /\ t \notin TaskStates(HeadDysk)' => dels'[t] = NoDel
               /\ dels'[t].counter = IF wpc' = "exec" /\ Current'.state = t /\ dels'[t].d # None
                                       THEN IF dels'[t].draining THEN 3 ELSE execCount' ELSE 0
               /\ dels'[t].draining => wpc' = "exec" /\ Current'.state = t
    <3>1. CASE t = s
      BY <1>2, <1>3, <1>4, <1>5, <1>7, <1>9, <1>10, <2>1, <2>2, <3>1
    <3>2. CASE t # s
      BY <1>2, <1>9, <1>10, <2>1, <2>2, <3>2 DEF BddInv, DelsInv
    <3> QED BY <3>1, <3>2
  <2> QED BY <1>9, <2>3 DEF DelsInv
<1>14. WalkInv' /\ ThreadsInv'
  BY <1>1, <1>4, <1>10 DEF BddInv, WalkInv, ThreadsInv
<1>15. OwnersInv' /\ WholeInv' /\ LeaksInv' /\ SlotsInv'
  <2>1. \A t \in States : dels'[t].d = dels[t].d /\ dels'[t].draining = dels[t].draining
    BY <1>7, <1>9
  <2> QED BY <1>1, <1>10, <2>1, HandsStay DEF Kept, KeepsHands
<1>16. WaitsInv'
  <2>1. queue' \in Seq(Task)
    BY <1>10, IInvParts DEF BddInv, ListInv
  <2> QED BY <1>1, <1>12, <2>1, WaitsStay, NoneIsNoDysk
<1>17. OtherTypes'
  BY <1>1 DEF BddInv, OtherTypes
<1> QED BY <1>11, <1>12, <1>13, <1>14, <1>15, <1>16, <1>17 DEF StepOk


\* DelTeardown: the dysk loses its queue and gives its slot back
\* (io_unhook 977-985).
LEMMA DelTeardownOk ==
  ASSUME BddInv, DelTeardown
  PROVE  StepOk
<1>1. PICK s : s = Current.state
  OBVIOUS
<1>2. PICK d : d = dels[s].d
  OBVIOUS
<1>3. /\ UNCHANGED <<oops, workerVars, list, peeked, ioctl>>
      /\ Deleting /\ Runs > 2 /\ ~dels[s].draining
      /\ busy' = busy \ {obj[d].slot} /\ scount' = scount - 1
      /\ obj' = [obj EXCEPT ![d].hooked = FALSE]
      /\ dels' = [dels EXCEPT ![s] = [dels[s] EXCEPT !.counter = Runs, !.draining = TRUE]]
  BY <1>1, <1>2 DEF DelTeardown, Quiet
<1>4. /\ s \in States /\ d \in Objects /\ dels[s].d # None /\ dels[s] \in DelState
      /\ s \in TaskStates(HeadDysk)
      /\ \A t \in States : t # s => dels[t].d # d
      /\ ~Listed(d)
      /\ \A p \in Threads : Holding(p) => ioctl[p].d # d
      /\ obj[d].alloc /\ obj[d] \in Object /\ obj[d].hooked
      /\ dels[s].counter = execCount /\ execCount \in 0..2 /\ wpc = "exec"
  <2> QED BY <1>1, <1>2, <1>3, DeleteTask DEF Deleting
<1>5. Runs = 3
  BY <1>1, <1>3, <1>4 DEF Runs
<1>6. PICK x : x = [dels[s] EXCEPT !.counter = 3, !.draining = TRUE]
  OBVIOUS
<1>7. x \in DelState /\ x.d = d /\ x.draining /\ x.counter = 3
  <2>1. dels[s] \in [counter : 0..3, d : Dysks \cup {None}, draining : BOOLEAN]
    BY <1>4 DEF DelState
  <2>2. /\ x = [counter |-> 3, d |-> dels[s].d, draining |-> TRUE]
    BY <1>6, <2>1
  <2> QED BY <1>2, <2>1, <2>2 DEF DelState
<1>8. /\ dels' \in [States -> DelState] /\ dels'[s] = x
      /\ \A t \in States : t # s => dels'[t] = dels[t]
  <2>1. dels' = [dels EXCEPT ![s] = x]
    BY <1>3, <1>5, <1>6
  <2> QED BY <1>4, <1>7, <2>1, OneDelChanges
<1>9. UNCHANGED <<queue, pos, wpc, execCount, status>>
  BY <1>3 DEF workerVars, walk
<1>10. TasksInv' /\ \A e \in Dysks : TaskStates(e)' = TaskStates(e)
  BY <1>9, TasksStay DEF BddInv
<1>11. DelsInv'
  <2>1. HeadDysk \in Dysks /\ Current' = Current
    BY <1>9, BddParametersAssumption DEF Current
  <2>2. TaskStates(HeadDysk)' = TaskStates(HeadDysk)
    BY <1>10, <2>1
  <2>3. ASSUME NEW t \in States
        PROVE  /\ t \in TaskStates(HeadDysk)' => dels'[t].d \in Objects
               /\ t \notin TaskStates(HeadDysk)' => dels'[t] = NoDel
               /\ dels'[t].counter = IF wpc' = "exec" /\ Current'.state = t /\ dels'[t].d # None
                                       THEN IF dels'[t].draining THEN 3 ELSE execCount' ELSE 0
               /\ dels'[t].draining => wpc' = "exec" /\ Current'.state = t
    <3>1. CASE t = s
      BY <1>1, <1>2, <1>4, <1>7, <1>8, <1>9, <2>1, <2>2, <3>1
    <3>2. CASE t # s
      BY <1>1, <1>8, <1>9, <2>1, <2>2, <3>2 DEF BddInv, DelsInv
    <3> QED BY <3>1, <3>2
  <2> QED BY <1>8, <2>3 DEF DelsInv
<1>12. WalkInv' /\ ThreadsInv'
  BY <1>3, <1>9 DEF BddInv, WalkInv, ThreadsInv, Current
<1>13. /\ obj' \in [Objects -> Object]
       /\ \A e \in Objects : e # d => obj'[e] = obj[e]
       /\ obj'[d].alloc /\ ~obj'[d].hooked /\ obj'[d].out = obj[d].out
  <2>1. obj \in [Objects -> Object]
    BY DEF BddInv, OtherTypes
  <2>2. PICK o : o = [obj[d] EXCEPT !.hooked = FALSE]
    OBVIOUS
  <2>3. o \in Object /\ o.alloc /\ ~o.hooked /\ o.out = obj[d].out
    BY <1>4, <2>2 DEF Object
  <2>4. obj' = [obj EXCEPT ![d] = o]
    BY <1>3, <2>2
  <2> QED BY <1>4, <2>1, <2>3, <2>4
<1>14. OtherTypes'
  BY <1>3, <1>13 DEF BddInv, OtherTypes
<1>15. \A t \in States : dels'[t].d = dels[t].d
  BY <1>2, <1>7, <1>8
<1>16. OwnersInv' /\ \A e : Owned(e)' <=> Owned(e)
  <2>1. (\A e : Listed(e)' <=> Listed(e)) /\ \A p \in Threads : Holding(p)' <=> Holding(p)
    BY <1>3 DEF Listed, Holding
  <2> QED BY <1>3, <1>15, <2>1 DEF BddInv, OwnersInv, Owned
<1>17. WholeInv'
  <2>1. \A i \in 1..Len(list') : obj'[list'[i]].alloc /\ obj'[list'[i]].hooked
    <3>1. \A i \in 1..Len(list) : list[i] \in Objects /\ list[i] # d
      BY <1>4, ElementOfSeq DEF BddInv, OtherTypes, Listed
    <3> QED BY <1>3, <1>13, <3>1 DEF BddInv, WholeInv
  <2>2. \A p \in Threads : Holding(p) => ioctl[p].d \in Objects /\ ioctl[p].d # d
    BY <1>4 DEF BddInv, ThreadsInv, Holding
  <2>3. \A p \in Threads : ioctl'[p].pc \in {"add", "queue"} =>
          obj'[ioctl'[p].d].alloc /\ obj'[ioctl'[p].d].hooked
    BY <1>3, <1>13, <2>2 DEF BddInv, WholeInv, Holding
  <2>4. \A p \in Threads : ioctl'[p].pc = "hook" =>
          /\ obj'[ioctl'[p].d].alloc /\ ~obj'[ioctl'[p].d].hooked
          /\ obj'[ioctl'[p].d].out = 0
    BY <1>3, <1>13, <2>2 DEF BddInv, WholeInv, Holding
  <2>5. ASSUME NEW t \in States, dels'[t].d # None
        PROVE  /\ obj'[dels'[t].d].alloc
               /\ obj'[dels'[t].d].hooked <=> ~dels'[t].draining
    <3>1. CASE t = s
      BY <1>7, <1>8, <1>13, <3>1
    <3>2. CASE t # s
      <4>1. dels'[t] = dels[t] /\ dels[t].d # d /\ dels[t].d \in Objects
        BY <1>4, <1>8, <2>5, <3>2 DEF BddInv, DelsInv, NoDel
      <4> QED BY <1>13, <2>5, <4>1 DEF BddInv, WholeInv
    <3> QED BY <3>1, <3>2
  <2>6. \A e \in Objects : ~obj'[e].alloc => obj'[e] = Blank
    BY <1>13 DEF BddInv, WholeInv
  <2> QED BY <2>1, <2>3, <2>4, <2>5, <2>6 DEF WholeInv
<1>18. LeaksInv'
  <2>1. \A e \in Objects : obj'[e].alloc => obj[e].alloc
    BY <1>4, <1>13
  <2> QED BY <1>9, <1>16, <2>1 DEF BddInv, LeaksInv
<1>19. SlotsInv'
  <2>1. obj[d].slot \in busy /\ busy \subseteq 0..MAX_DYSKS /\ MAX_DYSKS \in Nat
    BY <1>4, BddParametersAssumption DEF BddInv, SlotsInv
  <2>2. IsFiniteSet(busy)
    <3>1. IsFiniteSet(0..MAX_DYSKS)
      BY <2>1, FS_Interval
    <3> QED BY <2>1, <3>1, FS_Subset
  <2>3. /\ Cardinality(busy) \in Nat /\ Cardinality(busy') = Cardinality(busy) - 1
    BY <1>3, <2>1, <2>2, FS_RemoveElement, FS_CardinalityType
  <2>4. ASSUME NEW e \in Objects, obj'[e].hooked
        PROVE  e # d /\ obj'[e] = obj[e] /\ obj'[e].slot \in busy'
    <3>1. e # d /\ obj'[e] = obj[e] /\ obj[e].hooked
      BY <1>13, <2>4
    <3>2. obj[e].slot \in busy /\ obj[e].slot # obj[d].slot
      BY <1>4, <3>1 DEF BddInv, SlotsInv
    <3> QED BY <1>3, <3>1, <3>2
  <2>5. \A e, f \in Objects :
          (e # f /\ obj'[e].hooked /\ obj'[f].hooked) => obj'[e].slot # obj'[f].slot
    BY <2>4 DEF BddInv, SlotsInv
  <2>6. /\ busy' \subseteq 0..MAX_DYSKS
        /\ scount' = Cardinality(busy)' - 1 /\ scount' <= MAX_DYSKS
    <3>1. scount = Cardinality(busy) - 1 /\ scount <= MAX_DYSKS
      BY DEF BddInv, SlotsInv
    <3>2. Cardinality(busy)' = Cardinality(busy')
      OBVIOUS
    <3> QED BY <1>3, <2>1, <2>3, <3>1, <3>2
  <2> QED BY <2>4, <2>5, <2>6 DEF SlotsInv
<1>20. WaitsInv'
  <2>1. queue' \in Seq(Task)
    BY <1>9, IInvParts DEF BddInv, ListInv
  <2>2. \A e \in Objects : obj'[e].out = obj[e].out
    BY <1>13
  <2> QED BY <1>3, <1>10, <2>1, <2>2, WaitsStay, NoneIsNoDysk
<1> QED BY <1>3, <1>10, <1>11, <1>12, <1>14, <1>16, <1>17, <1>18, <1>19, <1>20 DEF StepOk

\* DelFree: the block layer waits for no request of the dysk, so that it has
\* no task and is in nobody's hands when its memory goes (__del_dysk_async 199).
LEMMA DelFreeOk ==
  ASSUME BddInv, DelFree
  PROVE  StepOk
<1>1. PICK c : c = Current
  OBVIOUS
<1>2. PICK d : d = dels[c.state].d
  OBVIOUS
<1>3. /\ UNCHANGED <<oops, list, busy, scount, peeked, ioctl>>
      /\ Deleting /\ dels[c.state].draining /\ obj[d].out = 0
      /\ obj' = [obj EXCEPT ![d] = Blank] /\ dels' = WithoutDel(c.state)
      /\ ExecDone(<<>>)
  BY <1>1, <1>2 DEF DelFree, Quiet, FreeNow, WithoutDel
<1>4. /\ c.state \in States /\ d \in Objects
      /\ \A t \in States : t # c.state => dels[t].d # d
      /\ ~Listed(d)
      /\ \A p \in Threads : Holding(p) => ioctl[p].d # d
      /\ ~obj[d].hooked /\ ioctl[Kthread] = Idle
      /\ wpc = "exec" /\ Current.fn = "del"
  BY <1>1, <1>2, <1>3, DeleteTask DEF Deleting
<1>5. ListInv /\ c.d = HeadDysk
  BY <1>1, <1>4, CurrentTask
<1>6. /\ Dequeue(queue \o <<>>) /\ status' = status
      /\ <<>> \in Seq(Task) /\ Len(<<>>) = 0
  BY <1>3, <1>5, NoKids DEF ExecDone
<1>7. [Next]_workerVars
  BY <1>3, <1>4, <1>5, NoKids DEF Next, WorkerStep, ExecStep
<1>8. PICK kids \in Seq(Task) : kids = <<>>
  BY <1>6
<1>9. /\ TasksInv' /\ DelsInv' /\ WalkInv' /\ wpc' \in {"visit", "pass"}
      /\ \A e \in Dysks : e # c.d => TaskStates(e)' = TaskStates(e)
      /\ \A t \in States : t # c.state => dels'[t] = dels[t]
      /\ dels'[c.state] = NoDel
  <2>1. /\ \A k \in 1..Len(kids) :
             /\ kids[k].d = c.d
             /\ kids[k].fn # "del"
             /\ kids[k].state = c.state \/ kids[k].state \notin UsedStates
        /\ Dequeue(queue \o kids) /\ Len(kids) = 0
    BY <1>6, <1>8
  <2>2. wpc \notin {"pass", "stopped"} /\ (c.fn = "del" => Len(kids) = 0)
    BY <1>4, <2>1
  <2>3. dels' = WithoutDel(c.state)
    BY <1>3
  <2>4. /\ \A k \in 1..Len(kids) :
             /\ kids[k].d = c.d
             /\ kids[k].fn # "del"
             /\ kids[k].state = c.state \/ kids[k].state \notin UsedStates
        /\ Dequeue(queue \o kids) /\ Len(kids) \in {0, 1}
    BY <2>1
  <2>5. /\ TasksInv' /\ DelsInv' /\ WalkInv'
        /\ wpc' \in {"visit", "pass"}
        /\ \A e \in Dysks : e # c.d => TaskStates(e)' = TaskStates(e)
        /\ \A s \in States : s # c.state => dels'[s] = dels[s]
        /\ dels'[c.state] = NoDel
    BY ONLY BddInv, <1>1, kids \in Seq(Task), <2>2, <2>3, <2>4, TaskLeavesDels
  <2> QED BY <2>5
<1>10. /\ obj' \in [Objects -> Object] /\ obj'[d] = Blank
       /\ \A e \in Objects : e # d => obj'[e] = obj[e]
  <2>1. obj \in [Objects -> Object]
    BY DEF BddInv, OtherTypes
  <2>2. Blank \in Object
    BY BddParametersAssumption DEF Blank, Object
  <2> QED BY <1>3, <1>4, <2>1, <2>2
<1>11. ~Blank.alloc /\ ~Blank.hooked
  BY DEF Blank
<1>12. \A t \in States : dels'[t].d # None => dels'[t] = dels[t] /\ dels[t].d # d
  BY <1>4, <1>9 DEF NoDel
<1>13. (\A e : Listed(e)' <=> Listed(e)) /\ \A p \in Threads : Holding(p)' <=> Holding(p)
  BY <1>3 DEF Listed, Holding
<1>14. \A p \in Threads : Holding(p) => ioctl[p].d \in Objects
  BY DEF BddInv, ThreadsInv, Holding
<1>15. OwnersInv'
  <2>1. \A p \in Threads : Holding(p) => ioctl[p].d # None
    BY <1>14, NoneIsNoDysk
  <2> QED BY <1>3, <1>12, <1>13, <2>1 DEF BddInv, OwnersInv
<1>16. WholeInv'
  <2>1. \A i \in 1..Len(list') : obj'[list'[i]].alloc /\ obj'[list'[i]].hooked
    <3>1. \A i \in 1..Len(list) : list[i] \in Objects /\ list[i] # d
      BY <1>4, ElementOfSeq DEF BddInv, OtherTypes, Listed
    <3> QED BY <1>3, <1>10, <3>1 DEF BddInv, WholeInv
  <2>2. \A p \in Threads : ioctl'[p].pc \in {"add", "queue"} =>
          obj'[ioctl'[p].d].alloc /\ obj'[ioctl'[p].d].hooked
    BY <1>3, <1>4, <1>10, <1>14 DEF BddInv, WholeInv, Holding
  <2>3. \A p \in Threads : ioctl'[p].pc = "hook" =>
          /\ obj'[ioctl'[p].d].alloc /\ ~obj'[ioctl'[p].d].hooked
          /\ obj'[ioctl'[p].d].out = 0
    BY <1>3, <1>4, <1>10, <1>14 DEF BddInv, WholeInv, Holding
  <2>4. ASSUME NEW t \in States, dels'[t].d # None
        PROVE  /\ obj'[dels'[t].d].alloc
               /\ obj'[dels'[t].d].hooked <=> ~dels'[t].draining
    <3>1. dels'[t] = dels[t] /\ dels[t].d # d /\ dels[t].d \in Objects
      BY <1>12, <2>4 DEF BddInv, DelsInv, NoDel
    <3> QED BY <1>10, <2>4, <3>1 DEF BddInv, WholeInv
  <2>5. \A e \in Objects : ~obj'[e].alloc => obj'[e] = Blank
    BY <1>10 DEF BddInv, WholeInv
  <2> QED BY <2>1, <2>2, <2>3, <2>4, <2>5 DEF WholeInv
<1>17. LeaksInv'
  <2>1. ASSUME NEW e \in Objects, obj'[e].alloc, Owned(e)
        PROVE  Owned(e)'
    <3>1. e # d
      BY <1>10, <1>11, <2>1
    <3>2. \A t \in States : dels[t].d = e => dels'[t].d = e
      BY <1>2, <1>9, <3>1
    <3> QED BY <1>3, <1>13, <2>1, <3>2 DEF Owned
  <2>2. \A e \in Objects : obj'[e].alloc => obj[e].alloc
    BY <1>10, <1>11
  <2> QED BY <1>6, <2>1, <2>2 DEF BddInv, LeaksInv
<1>18. SlotsInv'
  <2>1. \A e \in Objects : obj'[e].hooked => obj'[e] = obj[e]
    BY <1>10, <1>11
  <2> QED BY <1>3, <2>1 DEF BddInv, SlotsInv
<1>19. ThreadsInv'
  BY <1>3, <1>4 DEF BddInv, ThreadsInv
<1>20. WaitsInv'
  <2>1. queue \in Seq(Task) /\ queue' \in Seq(Task)
    BY <1>4, <1>5, <1>6, DequeueStep DEF ListInv
  <2>2. ASSUME NEW e \in Objects
        PROVE  /\ TaskStates(e)' = TaskStates(e) /\ (e \in peeked' <=> e \in peeked)
               /\ obj'[e].out = obj[e].out
    <3>1. obj'[d].out = 0
      BY <1>10 DEF Blank
    <3> QED BY <1>3, <1>5, <1>9, <1>10, <3>1, NoneIsNoDysk
  <2> QED BY <2>1, <2>2, WaitsStay
<1>21. OtherTypes'
  BY <1>3, <1>10 DEF BddInv, OtherTypes
<1> QED BY <1>7, <1>9, <1>15, <1>16, <1>17, <1>18, <1>19, <1>20, <1>21 DEF StepOk


-----------------------------------------------------------------------------
(***************************************************************************)
(* The mounts.                                                             *)
(***************************************************************************)
\* A step of an ioctl that leaves the tasks and the delete tasks alone.
LEMMA TasksLeftAlone ==
  ASSUME BddInv, UNCHANGED <<queue, walk, dels>>
  PROVE  /\ TasksInv' /\ DelsInv' /\ WalkInv'
         /\ queue' \in Seq(Task)
         /\ \A e \in Dysks : TaskStates(e)' = TaskStates(e)
<1>1. TasksInv' /\ \A e \in Dysks : TaskStates(e)' = TaskStates(e)
  BY TasksStay DEF BddInv
<1>2. DelsInv' /\ WalkInv'
  BY <1>1, BddParametersAssumption DEF BddInv, DelsInv, WalkInv, walk, Current
<1>3. queue' \in Seq(Task)
  BY IInvParts DEF BddInv, ListInv
<1> QED BY <1>1, <1>2, <1>3

\* A caller moves; the worker's thread stays where it is.
LEMMA CallerMoves ==
  ASSUME BddInv, NEW p \in Callers, NEW x \in Thread, ioctl' = [ioctl EXCEPT ![p] = x],
         x.pc \notin {"idle", "find", "done"} => x.d \in Objects,
         wpc' = wpc
  PROVE  /\ ThreadsInv' /\ p \in Threads
         /\ ioctl'[p] = x /\ \A r \in Threads : r # p => ioctl'[r] = ioctl[r]
<1>1. ioctl \in [Threads -> Thread] /\ p \in Threads /\ p # Kthread
  BY BddParametersAssumption DEF BddInv, ThreadsInv, Threads
<1>2. /\ ioctl' \in [Threads -> Thread]
      /\ ioctl'[p] = x /\ \A r \in Threads : r # p => ioctl'[r] = ioctl[r]
  BY <1>1
<1>3. ThreadsInv'
  BY <1>1, <1>2 DEF BddInv, ThreadsInv, Threads
<1> QED BY <1>1, <1>2, <1>3

\* MountStart: memory that nobody has is the caller's (dysk_mount 478-497).
LEMMA MountStartOk ==
  ASSUME BddInv, NEW p \in Callers, NEW d \in Objects, NEW n \in Names, MountStart(p, d, n)
  PROVE  StepOk
<1>1. PICK x : x = [pc |-> "hook", name |-> n, d |-> d]
  OBVIOUS
<1>2. PICK o : o = [Blank EXCEPT !.alloc = TRUE, !.name = n]
  OBVIOUS
<1>3. /\ UNCHANGED <<oops, list, busy, scount, peeked, dels>>
      /\ ioctl[p].pc = "idle" /\ ~obj[d].alloc
      /\ obj' = [obj EXCEPT ![d] = o] /\ ioctl' = [ioctl EXCEPT ![p] = x]
      /\ UNCHANGED workerVars \/ Renew(d)
  BY <1>1, <1>2 DEF MountStart, Quiet
<1>4. /\ o \in Object /\ o.alloc /\ ~o.hooked /\ o.out = 0
  <2>1. o = [alloc |-> TRUE, name |-> n, slot |-> -1, hooked |-> FALSE, out |-> 0]
    BY <1>2 DEF Blank
  <2>2. 0 \in 0..MaxRequests /\ -1 \in Int
    BY BddParametersAssumption
  <2> QED BY <2>1, <2>2 DEF Object
<1>5. x \in Thread /\ x.pc = "hook" /\ x.d = d /\ d \in Dysks
  BY <1>1, NoneIsNoDysk DEF Thread
<1>6. /\ obj[d] = Blank /\ d \notin peeked /\ TaskStates(d) = {} /\ ~Owned(d)
  BY <1>3, HeldAreWhole
<1>7. /\ UNCHANGED <<queue, walk>> /\ status'[HeadDysk] = status[HeadDysk]
      /\ [Next]_workerVars
  <2>1. CASE UNCHANGED workerVars
    BY <2>1 DEF workerVars
  <2>2. CASE Renew(d)
    <3>1. status \in [Dysks -> Statuses] /\ d # HeadDysk /\ HeadDysk \in Dysks
      BY BddParametersAssumption, NoneIsNoDysk DEF BddInv, IInv, TypeOK
    <3>2. [Next]_workerVars
      BY <1>5, <2>2 DEF Next, Environment
    <3>3. UNCHANGED <<queue, walk>> /\ status' = [status EXCEPT ![d] = "OK"]
      BY <2>2 DEF Renew
    <3> QED BY <3>1, <3>2, <3>3
  <2> QED BY <1>3, <2>1, <2>2
<1>8. /\ TasksInv' /\ DelsInv' /\ WalkInv' /\ queue' \in Seq(Task)
      /\ \A e \in Dysks : TaskStates(e)' = TaskStates(e)
  BY <1>3, <1>7, TasksLeftAlone
<1>9. /\ ThreadsInv' /\ p \in Threads
      /\ ioctl'[p] = x /\ \A r \in Threads : r # p => ioctl'[r] = ioctl[r]
  BY <1>3, <1>5, <1>7, CallerMoves DEF walk
<1>10. /\ obj' \in [Objects -> Object] /\ obj'[d] = o
       /\ \A e \in Objects : e # d => obj'[e] = obj[e]
  BY <1>3, <1>4 DEF BddInv, OtherTypes
<1>11. OtherTypes'
  BY <1>3, <1>10 DEF BddInv, OtherTypes
<1>12. /\ ~Listed(d)
       /\ \A r \in Threads : Holding(r) => ioctl[r].d # d
       /\ \A s \in States : dels[s].d # d
  BY <1>6 DEF Owned
<1>13. /\ \A e : Listed(e)' <=> Listed(e)
       /\ Holding(p)' /\ ~Holding(p) /\ ioctl'[p].d = d
       /\ \A r \in Threads : r # p => (Holding(r)' <=> Holding(r))
  BY <1>3, <1>5, <1>9 DEF Listed, Holding
<1>14. OwnersInv'
  <2>1. \A r \in Threads : (Holding(r)' /\ r # p) => Holding(r) /\ ioctl'[r].d = ioctl[r].d /\ ioctl[r].d # d
    BY <1>9, <1>12, <1>13
  <2>2. \A r, q \in Threads : (Holding(r)' /\ Holding(q)' /\ ioctl'[r].d = ioctl'[q].d) => r = q
    BY <1>13, <2>1 DEF BddInv, OwnersInv
  <2>3. \A r \in Threads : Holding(r)' => ~Listed(ioctl[r].d)'
    BY <1>12, <1>13, <2>1 DEF BddInv, OwnersInv
  <2>4. \A r \in Threads, s \in States : Holding(r)' => dels'[s].d # ioctl'[r].d
    BY <1>3, <1>12, <1>13, <2>1 DEF BddInv, OwnersInv
  <2> QED BY <1>3, <1>13, <2>2, <2>3, <2>4 DEF BddInv, OwnersInv
<1>15. WholeInv'
  <2>1. \A i \in 1..Len(list') : obj'[list'[i]].alloc /\ obj'[list'[i]].hooked
    <3>1. \A i \in 1..Len(list) : list[i] \in Objects /\ list[i] # d
      BY <1>12, ElementOfSeq DEF BddInv, OtherTypes, Listed
    <3> QED BY <1>3, <1>10, <3>1 DEF BddInv, WholeInv
  <2>2. \A r \in Threads : Holding(r) => ioctl[r].d \in Objects /\ ioctl[r].d # d
    BY <1>12 DEF BddInv, ThreadsInv, Holding
  <2>3. \A r \in Threads : ioctl'[r].pc \in {"add", "queue"} =>
          obj'[ioctl'[r].d].alloc /\ obj'[ioctl'[r].d].hooked
    BY <1>5, <1>9, <1>10, <2>2 DEF BddInv, WholeInv, Holding
  <2>4. \A r \in Threads : ioctl'[r].pc = "hook" =>
          /\ obj'[ioctl'[r].d].alloc /\ ~obj'[ioctl'[r].d].hooked
          /\ obj'[ioctl'[r].d].out = 0
    BY <1>4, <1>5, <1>9, <1>10, <2>2 DEF BddInv, WholeInv, Holding
  <2>5. \A s \in States : dels'[s].d # None =>
          /\ obj'[dels'[s].d].alloc
          /\ obj'[dels'[s].d].hooked <=> ~dels'[s].draining
    <3>1. \A s \in States : dels[s].d # None => dels[s].d \in Objects /\ dels[s].d # d
      BY <1>12 DEF BddInv, DelsInv, NoDel
    <3> QED BY <1>3, <1>10, <3>1 DEF BddInv, WholeInv
  <2>6. \A e \in Objects : ~obj'[e].alloc => obj'[e] = Blank
    BY <1>4, <1>10 DEF BddInv, WholeInv
  <2> QED BY <2>1, <2>3, <2>4, <2>5, <2>6 DEF WholeInv
<1>16. LeaksInv'
  <2>1. Owned(d)' /\ \A e : Owned(e) => Owned(e)'
    BY <1>3, <1>9, <1>13 DEF Owned
  <2> QED BY <1>7, <1>10, <2>1 DEF BddInv, LeaksInv
<1>17. SlotsInv'
  <2>1. \A e \in Objects : obj'[e].hooked => obj'[e] = obj[e]
    BY <1>4, <1>10
  <2> QED BY <1>3, <2>1 DEF BddInv, SlotsInv
<1>18. WaitsInv'
  <2>1. \A e \in Objects : obj'[e].out = obj[e].out
    BY <1>4, <1>6, <1>10 DEF Blank
  <2> QED BY <1>3, <1>8, <2>1, WaitsStay, NoneIsNoDysk
<1> QED BY <1>7, <1>8, <1>9, <1>11, <1>14, <1>15, <1>16, <1>17, <1>18 DEF StepOk

\* The slot a hook takes is free, and the count follows the bits
\* (find_set_dysk_slots 126-147).
LEMMA SlotIsTaken ==
  ASSUME BddInv, ~SlotFull, TakeSlot
  PROVE  /\ FirstFree \notin busy /\ FirstFree \in busy' /\ FirstFree \in Int
         /\ busy \subseteq busy' /\ busy' \subseteq 0..MAX_DYSKS
         /\ scount' = Cardinality(busy') - 1 /\ scount' <= MAX_DYSKS
         /\ [Next]_workerVars /\ UNCHANGED <<queue, walk>>
         /\ status[HeadDysk] # "OK" => status'[HeadDysk] # "OK"
<1>1. /\ MAX_DYSKS \in Nat /\ MAX_DYSKS > 0 /\ busy \subseteq 0..MAX_DYSKS
      /\ scount = Cardinality(busy) - 1 /\ scount <= MAX_DYSKS /\ scount # MAX_DYSKS
  BY BddParametersAssumption DEF BddInv, SlotsInv, SlotFull
<1>2. /\ IsFiniteSet(0..MAX_DYSKS) /\ Cardinality(0..MAX_DYSKS) = MAX_DYSKS + 1
  BY <1>1, FS_Interval
<1>3. /\ IsFiniteSet(busy) /\ Cardinality(busy) \in Nat
  BY <1>1, <1>2, FS_Subset, FS_CardinalityType
<1>4. FirstFree \in 0..MAX_DYSKS /\ FirstFree \notin busy
  <2>1. CASE FreeSlots = {}
    <3>1. FirstFree = MAX_DYSKS
      BY <2>1 DEF FirstFree
    <3>2. ASSUME MAX_DYSKS \in busy
          PROVE  FALSE
      <4>1. \A i \in 0..MAX_DYSKS : i \in 0..(MAX_DYSKS - 1) \/ i = MAX_DYSKS
        BY <1>1
      <4>2. busy = 0..MAX_DYSKS
        BY <1>1, <2>1, <3>2, <4>1 DEF FreeSlots
      <4> QED BY <1>1, <1>2, <4>2
    <3> QED BY <1>1, <3>1, <3>2
  <2>2. CASE FreeSlots # {}
    <3>1. FreeSlots \in SUBSET Nat
      BY <1>1 DEF FreeSlots
    <3>2. \E s \in FreeSlots : \A t \in FreeSlots : s <= t
      BY <2>2, <3>1, LeastOf
    <3>3. FirstFree \in FreeSlots
      BY <2>2, <3>2 DEF FirstFree
    <3> QED BY <1>1, <3>3 DEF FreeSlots
  <2> QED BY <2>1, <2>2
<1>5. busy' = busy \cup {FirstFree} /\ scount' = scount + 1
  BY DEF TakeSlot
<1>6. Cardinality(busy') = Cardinality(busy) + 1
  BY <1>3, <1>4, <1>5, FS_AddElement
<1>7. /\ [Next]_workerVars /\ UNCHANGED <<queue, walk>>
      /\ status[HeadDysk] # "OK" => status'[HeadDysk] # "OK"
  <2>1. UNCHANGED workerVars \/ MarkDeleting(HeadDysk)
    BY DEF TakeSlot
  <2>2. CASE UNCHANGED workerVars
    BY <2>2 DEF workerVars
  <2>3. CASE MarkDeleting(HeadDysk)
    <3>1. [Next]_workerVars
      BY <2>3, BddParametersAssumption DEF Next, Environment
    <3>2. status \in [Dysks -> Statuses]
      BY DEF BddInv, IInv, TypeOK
    <3> QED BY <2>3, <3>1, <3>2, BddParametersAssumption DEF MarkDeleting
  <2> QED BY <2>1, <2>2, <2>3
<1>8. FirstFree \in Int /\ busy' \subseteq 0..MAX_DYSKS
  BY <1>1, <1>4, <1>5
<1>9. FirstFree \in busy' /\ busy \subseteq busy'
  BY <1>5
<1>10. scount' = Cardinality(busy') - 1 /\ scount' <= MAX_DYSKS
  BY <1>1, <1>3, <1>5, <1>6
<1> QED BY <1>4, <1>7, <1>8, <1>9, <1>10


\* Who holds a dysk holds it alone.
LEMMA HolderAlone ==
  ASSUME BddInv, NEW p \in Threads, Holding(p), NEW d, d = ioctl[p].d
  PROVE  /\ d \in Objects /\ d # None /\ ~Listed(d)
         /\ obj[d].alloc /\ obj[d] \in Object
         /\ \A r \in Threads : (r # p /\ Holding(r)) => ioctl[r].d \in Objects /\ ioctl[r].d # d
         /\ \A s \in States : dels[s].d # d
         /\ \A s \in States : dels[s].d # None => dels[s].d \in Objects /\ dels[s].d # d
         /\ \A i \in 1..Len(list) : list[i] \in Objects /\ list[i] # d
         /\ ioctl[p] \in Thread
<1>1. d \in Objects /\ \A r \in Threads : Holding(r) => ioctl[r].d \in Objects
  BY DEF BddInv, ThreadsInv, Holding
<1>2. /\ ~Listed(d) /\ \A s \in States : dels[s].d # d
      /\ \A r \in Threads : (r # p /\ Holding(r)) => ioctl[r].d # d
  BY DEF BddInv, OwnersInv
<1>3. \A s \in States : dels[s].d # None => dels[s].d \in Objects
  BY DEF BddInv, DelsInv, NoDel
<1>4. \A i \in 1..Len(list) : list[i] \in Objects /\ list[i] # d
  BY <1>2, ElementOfSeq DEF BddInv, OtherTypes, Listed
<1>5. obj[d].alloc
  BY DEF BddInv, WholeInv, Holding
<1>6. obj[d] \in Object /\ ioctl[p] \in Thread
  BY <1>1 DEF BddInv, OtherTypes, ThreadsInv
<1> QED BY <1>1, <1>2, <1>3, <1>4, <1>5, <1>6, NoneIsNoDysk

\* MountHook: the dysk gets its slot and its queue (io_hook 913-941).
LEMMA MountHookOk ==
  ASSUME BddInv, NEW p \in Callers, MountHook(p)
  PROVE  StepOk
<1>1. PICK d : d = ioctl[p].d
  OBVIOUS
<1>2. PICK x : x = [ioctl[p] EXCEPT !.pc = "add"]
  OBVIOUS
<1>3. PICK o : o = [obj[d] EXCEPT !.slot = FirstFree, !.hooked = TRUE]
  OBVIOUS
<1>4. /\ UNCHANGED <<oops, list, peeked, dels>>
      /\ ioctl[p].pc = "hook" /\ ~SlotFull /\ TakeSlot
      /\ ioctl' = [ioctl EXCEPT ![p] = x]
  BY <1>2 DEF MountHook, Quiet, Goes
<1>5. /\ p \in Threads /\ Holding(p)
  BY <1>4 DEF Threads, Holding
<1>6. /\ d \in Objects /\ d # None /\ ~Listed(d) /\ obj[d].alloc /\ obj[d] \in Object
      /\ \A r \in Threads : (r # p /\ Holding(r)) => ioctl[r].d \in Objects /\ ioctl[r].d # d
      /\ \A s \in States : dels[s].d # None => dels[s].d \in Objects /\ dels[s].d # d
      /\ \A i \in 1..Len(list) : list[i] \in Objects /\ list[i] # d
      /\ ioctl[p] \in Thread
  BY <1>1, <1>5, HolderAlone
<1>7. /\ FirstFree \notin busy /\ FirstFree \in busy' /\ FirstFree \in Int
      /\ busy \subseteq busy' /\ busy' \subseteq 0..MAX_DYSKS
      /\ scount' = Cardinality(busy') - 1 /\ scount' <= MAX_DYSKS
      /\ [Next]_workerVars /\ UNCHANGED <<queue, walk>>
      /\ status[HeadDysk] # "OK" => status'[HeadDysk] # "OK"
  BY <1>4, SlotIsTaken
<1>8. obj \in [Objects -> Object]
  BY DEF BddInv, OtherTypes
<1>9. o \in Object /\ o.alloc /\ o.hooked /\ o.slot = FirstFree /\ o.out = obj[d].out
  BY <1>3, <1>6, <1>7 DEF Object
<1>10. /\ obj' \in [Objects -> Object] /\ obj'[d] = o
       /\ \A e \in Objects : e # d => obj'[e] = obj[e]
  <2>1. obj' = [obj EXCEPT ![d] = o]
    BY <1>1, <1>3, <1>6, <1>8 DEF MountHook
  <2> QED BY <1>6, <1>8, <1>9, <2>1
<1>11. x \in Thread /\ x.pc = "add" /\ x.d = d
  BY <1>1, <1>2, <1>6 DEF Thread
<1>12. /\ ThreadsInv'
       /\ ioctl'[p] = x /\ \A r \in Threads : r # p => ioctl'[r] = ioctl[r]
  BY <1>4, <1>6, <1>7, <1>11, CallerMoves DEF walk
<1>13. /\ TasksInv' /\ DelsInv' /\ WalkInv' /\ queue' \in Seq(Task)
       /\ \A e \in Dysks : TaskStates(e)' = TaskStates(e)
  BY <1>4, <1>7, TasksLeftAlone
<1>14. OtherTypes'
  BY <1>4, <1>10 DEF BddInv, OtherTypes
<1>15. /\ \A e : Listed(e)' <=> Listed(e)
       /\ \A r \in Threads : (Holding(r)' <=> Holding(r)) /\ ioctl'[r].d = ioctl[r].d
  BY <1>1, <1>4, <1>5, <1>11, <1>12 DEF Listed, Holding
<1>16. OwnersInv' /\ \A e : Owned(e)' <=> Owned(e)
  BY <1>4, <1>15 DEF BddInv, OwnersInv, Owned
<1>17. WholeInv'
  <2>1. \A i \in 1..Len(list') : obj'[list'[i]].alloc /\ obj'[list'[i]].hooked
    BY <1>4, <1>6, <1>10 DEF BddInv, WholeInv
  <2>2. \A r \in Threads : ioctl'[r].pc \in {"add", "queue"} =>
          obj'[ioctl'[r].d].alloc /\ obj'[ioctl'[r].d].hooked
    BY <1>6, <1>9, <1>10, <1>11, <1>12 DEF BddInv, WholeInv, Holding
  <2>3. \A r \in Threads : ioctl'[r].pc = "hook" =>
          /\ obj'[ioctl'[r].d].alloc /\ ~obj'[ioctl'[r].d].hooked
          /\ obj'[ioctl'[r].d].out = 0
    BY <1>6, <1>10, <1>11, <1>12 DEF BddInv, WholeInv, Holding
  <2>4. \A s \in States : dels'[s].d # None =>
          /\ obj'[dels'[s].d].alloc
          /\ obj'[dels'[s].d].hooked <=> ~dels'[s].draining
    BY <1>4, <1>6, <1>10 DEF BddInv, WholeInv
  <2>5. \A e \in Objects : ~obj'[e].alloc => obj'[e] = Blank
    BY <1>9, <1>10 DEF BddInv, WholeInv
  <2> QED BY <2>1, <2>2, <2>3, <2>4, <2>5 DEF WholeInv
<1>18. LeaksInv'
  <2>1. \A e \in Objects : obj'[e].alloc => obj[e].alloc
    BY <1>6, <1>10
  <2> QED BY <1>7, <1>16, <2>1 DEF BddInv, LeaksInv
<1>19. SlotsInv'
  <2>1. ASSUME NEW e \in Objects, obj'[e].hooked
        PROVE  obj'[e].slot \in busy' /\ (e # d => obj'[e] = obj[e] /\ obj[e].slot # FirstFree)
    BY <1>7, <1>9, <1>10, <2>1 DEF BddInv, SlotsInv
  <2>2. \A e, f \in Objects :
          (e # f /\ obj'[e].hooked /\ obj'[f].hooked) => obj'[e].slot # obj'[f].slot
    BY <1>9, <1>10, <2>1 DEF BddInv, SlotsInv
  <2> QED BY <1>7, <2>1, <2>2 DEF SlotsInv
<1>20. WaitsInv'
  <2>1. \A e \in Objects : obj'[e].out = obj[e].out
    BY <1>9, <1>10
  <2> QED BY <1>4, <1>13, <2>1, WaitsStay, NoneIsNoDysk
<1> QED BY <1>4, <1>7, <1>12, <1>13, <1>14, <1>16, <1>17, <1>18, <1>19, <1>20 DEF StepOk

\* A thread lets go of a dysk it holds: whatever it does with it, the others
\* keep theirs.
LEMMA LetsGo ==
  ASSUME BddInv, NEW p \in Threads, Holding(p), NEW d, d = ioctl[p].d,
         ~(Holding(p)'), \A r \in Threads : r # p => ioctl'[r] = ioctl[r],
         UNCHANGED <<list, dels>>, \A e \in Objects : e # d => obj'[e] = obj[e],
         ~obj'[d].alloc => obj'[d] = Blank
  PROVE  /\ OwnersInv' /\ WholeInv'
         /\ \A e : (e # d /\ Owned(e)) => Owned(e)'
<1>1. /\ d \in Objects
      /\ \A r \in Threads : (r # p /\ Holding(r)) => ioctl[r].d \in Objects /\ ioctl[r].d # d
      /\ \A s \in States : dels[s].d # None => dels[s].d \in Objects /\ dels[s].d # d
      /\ \A i \in 1..Len(list) : list[i] \in Objects /\ list[i] # d
  BY HolderAlone
<1>2. /\ \A e : Listed(e)' <=> Listed(e)
      /\ \A r \in Threads : Holding(r)' => r # p /\ Holding(r) /\ ioctl'[r] = ioctl[r]
      /\ \A r \in Threads : (r # p /\ Holding(r)) => Holding(r)'
  BY DEF Listed, Holding
<1>3. OwnersInv'
  BY <1>2 DEF BddInv, OwnersInv
<1>4. \A e : (e # d /\ Owned(e)) => Owned(e)'
  BY <1>2 DEF Owned
<1>5. WholeInv'
  <2>1. \A i \in 1..Len(list') : obj'[list'[i]].alloc /\ obj'[list'[i]].hooked
    BY <1>1 DEF BddInv, WholeInv
  <2>2. \A r \in Threads : ioctl'[r].pc \in {"hook", "add", "queue"} =>
          /\ ioctl'[r] = ioctl[r] /\ ioctl[r].d \in Objects
          /\ obj'[ioctl[r].d] = obj[ioctl[r].d]
    BY <1>1, <1>2 DEF Holding
  <2>3. \A r \in Threads : ioctl'[r].pc \in {"add", "queue"} =>
          obj'[ioctl'[r].d].alloc /\ obj'[ioctl'[r].d].hooked
    BY <2>2 DEF BddInv, WholeInv
  <2>4. \A r \in Threads : ioctl'[r].pc = "hook" =>
          /\ obj'[ioctl'[r].d].alloc /\ ~obj'[ioctl'[r].d].hooked
          /\ obj'[ioctl'[r].d].out = 0
    BY <2>2 DEF BddInv, WholeInv
  <2>5. \A s \in States : dels'[s].d # None =>
          /\ obj'[dels'[s].d].alloc
          /\ obj'[dels'[s].d].hooked <=> ~dels'[s].draining
    BY <1>1 DEF BddInv, WholeInv
  <2>6. \A e \in Objects : ~obj'[e].alloc => obj'[e] = Blank
    BY DEF BddInv, WholeInv
  <2> QED BY <2>1, <2>3, <2>4, <2>5, <2>6 DEF WholeInv
<1> QED BY <1>3, <1>4, <1>5

\* MountFails: the caller frees what nobody else has (dysk_mount 505-507).
LEMMA MountFailsOk ==
  ASSUME BddInv, NEW p \in Callers, MountFails(p)
  PROVE  StepOk
<1>1. PICK d : d = ioctl[p].d
  OBVIOUS
<1>2. /\ UNCHANGED <<oops, list, peeked, dels>>
      /\ ioctl[p].pc = "hook"
      /\ UNCHANGED <<workerVars, busy, scount>> \/ (~SlotFull /\ TakeSlot)
      /\ obj' = [obj EXCEPT ![d] = Blank]
      /\ ioctl' = [ioctl EXCEPT ![p] = Idle]
  BY <1>1 DEF MountFails, Quiet, Leaves
<1>3. /\ p \in Threads /\ Holding(p)
  BY <1>2 DEF Threads, Holding
<1>4. /\ d \in Objects /\ ~obj[d].hooked /\ obj[d].out = 0
  BY <1>1, <1>2, <1>3, HolderAlone DEF BddInv, WholeInv
<1>5. /\ busy \subseteq busy' /\ busy' \subseteq 0..MAX_DYSKS
      /\ scount' = Cardinality(busy') - 1 /\ scount' <= MAX_DYSKS
      /\ [Next]_workerVars /\ UNCHANGED <<queue, walk>>
      /\ status[HeadDysk] # "OK" => status'[HeadDysk] # "OK"
  <2>1. CASE UNCHANGED <<workerVars, busy, scount>>
    BY <2>1 DEF BddInv, SlotsInv, workerVars
  <2>2. CASE ~SlotFull /\ TakeSlot
    BY <2>2, SlotIsTaken
  <2> QED BY <1>2, <2>1, <2>2
<1>6. /\ obj' \in [Objects -> Object] /\ obj'[d] = Blank
      /\ \A e \in Objects : e # d => obj'[e] = obj[e]
  <2>1. obj \in [Objects -> Object]
    BY DEF BddInv, OtherTypes
  <2>2. Blank \in Object
    BY BddParametersAssumption DEF Blank, Object
  <2> QED BY <1>2, <1>4, <2>1, <2>2
<1>7. ~Blank.alloc /\ ~Blank.hooked /\ Blank.out = 0
  BY DEF Blank
<1>8. Idle \in Thread /\ Idle.pc = "idle"
  BY DEF Idle, Thread
<1>9. /\ ThreadsInv'
      /\ ioctl'[p] = Idle /\ \A r \in Threads : r # p => ioctl'[r] = ioctl[r]
  BY <1>2, <1>5, <1>8, CallerMoves DEF walk
<1>10. ~(Holding(p)')
  BY <1>8, <1>9 DEF Holding
<1>11. /\ OwnersInv' /\ WholeInv'
       /\ \A e : (e # d /\ Owned(e)) => Owned(e)'
  BY <1>1, <1>2, <1>3, <1>6, <1>9, <1>10, LetsGo
<1>12. /\ TasksInv' /\ DelsInv' /\ WalkInv' /\ queue' \in Seq(Task)
       /\ \A e \in Dysks : TaskStates(e)' = TaskStates(e)
  BY <1>2, <1>5, TasksLeftAlone
<1>13. LeaksInv'
  <2>1. \A e \in Objects : obj'[e].alloc => e # d /\ obj[e].alloc
    BY <1>6, <1>7
  <2> QED BY <1>5, <1>11, <2>1 DEF BddInv, LeaksInv
<1>14. SlotsInv'
  <2>1. \A e \in Objects : obj'[e].hooked => obj'[e] = obj[e]
    BY <1>6, <1>7
  <2> QED BY <1>5, <2>1 DEF BddInv, SlotsInv
<1>15. WaitsInv'
  <2>1. \A e \in Objects : obj'[e].out = obj[e].out
    BY <1>4, <1>6, <1>7
  <2> QED BY <1>2, <1>12, <2>1, WaitsStay, NoneIsNoDysk
<1>16. OtherTypes'
  BY <1>2, <1>6 DEF BddInv, OtherTypes
<1> QED BY <1>5, <1>9, <1>11, <1>12, <1>13, <1>14, <1>15, <1>16 DEF StepOk


\* MountAdd: the list is one more holder of the dysk, and the thread none
\* (dysk_add 278-280).
LEMMA MountAddOk ==
  ASSUME BddInv, NEW p \in Callers, MountAdd(p)
  PROVE  StepOk
<1>1. PICK d : d = ioctl[p].d
  OBVIOUS
<1>2. PICK x : x = [ioctl[p] EXCEPT !.pc = "reply"]
  OBVIOUS
<1>3. /\ UNCHANGED <<oops, workerVars, busy, scount, obj, peeked, dels>>
      /\ ioctl[p].pc = "add" /\ list' = <<d>> \o list
      /\ ioctl' = [ioctl EXCEPT ![p] = x]
  BY <1>1, <1>2 DEF MountAdd, Quiet, Goes
<1>4. p \in Threads /\ Holding(p)
  BY <1>3 DEF Threads, Holding
<1>5. /\ d \in Objects /\ d # None /\ ~Listed(d) /\ obj[d].alloc
      /\ \A r \in Threads : (r # p /\ Holding(r)) => ioctl[r].d # d
      /\ \A s \in States : dels[s].d # d
      /\ \A i \in 1..Len(list) : list[i] \in Objects /\ list[i] # d
      /\ ioctl[p] \in Thread
  BY <1>1, <1>4, HolderAlone
<1>6. obj[d].hooked
  BY <1>1, <1>3, <1>4 DEF BddInv, WholeInv
<1>7. /\ list' \in Seq(Objects) /\ Len(list) \in Nat /\ Len(list') = Len(list) + 1
      /\ list'[1] = d
      /\ \A i \in 1..Len(list) : list'[i + 1] = list[i]
      /\ \A i \in 1..Len(list') : i = 1 \/ (i - 1 \in 1..Len(list) /\ list'[i] = list[i - 1])
  <2>1. list \in Seq(Objects) /\ Len(list) \in Nat
    BY LenProperties DEF BddInv, OtherTypes
  <2>2. <<d>> \in Seq(Objects) /\ Len(<<d>>) = 1 /\ <<d>>[1] = d
    BY <1>5
  <2>3. /\ list' \in Seq(Objects) /\ Len(list') = 1 + Len(list)
        /\ \A i \in 1..(1 + Len(list)) :
             list'[i] = IF i <= 1 THEN <<d>>[i] ELSE list[i - 1]
    BY <1>3, <2>1, <2>2, ConcatProperties
  <2>4. \A i \in 1..Len(list) : list'[i + 1] = list[i]
    <3>1. ASSUME NEW i \in 1..Len(list)
          PROVE  list'[i + 1] = list[i]
      <4>1. i + 1 \in 1..(1 + Len(list)) /\ ~(i + 1 <= 1) /\ (i + 1) - 1 = i
        BY <2>1
      <4> QED BY <2>3, <4>1
    <3> QED BY <3>1
  <2>5. list'[1] = d
    BY <2>1, <2>2, <2>3
  <2>6. \A i \in 1..Len(list') : i = 1 \/ (i - 1 \in 1..Len(list) /\ list'[i] = list[i - 1])
    BY <2>1, <2>3
  <2> QED BY <2>1, <2>3, <2>4, <2>5, <2>6
<1>8. \A e : Listed(e)' <=> (Listed(e) \/ e = d)
  <2>1. 1 \in 1..Len(list') /\ \A i \in 1..Len(list) : i + 1 \in 1..Len(list')
    BY <1>7
  <2>2. \A e : Listed(e)' <=> \E i \in 1..Len(list') : list'[i] = e
    BY DEF Listed
  <2>3. ASSUME NEW e
        PROVE  (\E i \in 1..Len(list') : list'[i] = e) <=> (Listed(e) \/ e = d)
    BY <1>7, <2>1 DEF Listed
  <2> QED BY <2>2, <2>3
<1>9. \A i, j \in 1..Len(list') : list'[i] = list'[j] => i = j
  <2>1. ASSUME NEW i \in 1..Len(list'), NEW j \in 1..Len(list'), list'[i] = list'[j]
        PROVE  i = j
    <3>1. CASE i = 1 \/ j = 1
      BY <1>5, <1>7, <2>1, <3>1
    <3>2. CASE i # 1 /\ j # 1
      <4>1. /\ i - 1 \in 1..Len(list) /\ j - 1 \in 1..Len(list)
            /\ list[i - 1] = list[j - 1]
        BY <1>7, <2>1, <3>2
      <4>2. i - 1 = j - 1
        BY <4>1 DEF BddInv, OwnersInv
      <4> QED BY <1>7, <4>2
    <3> QED BY <3>1, <3>2
  <2> QED BY <2>1
<1>10. x \in Thread /\ x.pc = "reply" /\ x.d = d
  BY <1>1, <1>2, <1>5 DEF Thread
<1>11. UNCHANGED <<queue, walk, status>> /\ wpc' = wpc
  BY <1>3 DEF workerVars, walk
<1>12. /\ ThreadsInv'
       /\ ioctl'[p] = x /\ \A r \in Threads : r # p => ioctl'[r] = ioctl[r]
  BY <1>3, <1>5, <1>10, <1>11, CallerMoves
<1>13. /\ TasksInv' /\ DelsInv' /\ WalkInv' /\ queue' \in Seq(Task)
       /\ \A e \in Dysks : TaskStates(e)' = TaskStates(e)
  BY <1>3, <1>11, TasksLeftAlone
<1>14. /\ \A r \in Threads : Holding(r)' => r # p /\ Holding(r) /\ ioctl'[r] = ioctl[r]
       /\ \A r \in Threads : (r # p /\ Holding(r)) => Holding(r)'
  BY <1>10, <1>12 DEF Holding
<1>15. OwnersInv'
  <2>1. \A r \in Threads : Holding(r)' => ~(Listed(ioctl[r].d)')
    <3>1. ASSUME NEW r \in Threads, Holding(r)'
          PROVE  ~(Listed(ioctl[r].d)')
      <4>1. PICK e : e = ioctl'[r].d
        OBVIOUS
      <4>2. e # d /\ ~Listed(e)
        BY <1>5, <1>14, <3>1, <4>1 DEF BddInv, OwnersInv
      <4>3. ~(Listed(e)')
        BY <1>8, <4>2
      <4> QED BY <4>1, <4>3 DEF Listed
    <3> QED BY <3>1
  <2>2. \A s \in States : dels[s].d # None => ~(Listed(dels[s].d)')
    <3>1. ASSUME NEW s \in States, dels[s].d # None
          PROVE  ~(Listed(dels[s].d)')
      <4>1. PICK e : e = dels'[s].d
        OBVIOUS
      <4>2. e # d /\ ~Listed(e)
        BY <1>3, <1>5, <3>1, <4>1 DEF BddInv, OwnersInv
      <4>3. ~(Listed(e)')
        BY <1>8, <4>2
      <4> QED BY <4>1, <4>3 DEF Listed
    <3> QED BY <3>1
  <2> QED BY <1>3, <1>9, <1>14, <2>1, <2>2 DEF BddInv, OwnersInv
<1>16. WholeInv'
  <2>1. \A i \in 1..Len(list') : obj'[list'[i]].alloc /\ obj'[list'[i]].hooked
    BY <1>3, <1>5, <1>6, <1>7 DEF BddInv, WholeInv
  <2>2. \A r \in Threads : ioctl'[r].pc \in {"hook", "add", "queue"} => ioctl'[r] = ioctl[r]
    BY <1>14 DEF Holding
  <2> QED BY <1>3, <2>1, <2>2 DEF BddInv, WholeInv
<1>17. LeaksInv'
  <2>1. \A e : Owned(e) => Owned(e)'
    BY <1>1, <1>3, <1>8, <1>14 DEF Owned
  <2> QED BY <1>3, <1>11, <2>1 DEF BddInv, LeaksInv
<1>18. SlotsInv'
  BY <1>3 DEF BddInv, SlotsInv
<1>19. WaitsInv'
  BY <1>3, <1>13, WaitsStay, NoneIsNoDysk
<1>20. OtherTypes'
  BY <1>3, <1>7 DEF BddInv, OtherTypes
<1> QED BY <1>3, <1>12, <1>13, <1>15, <1>16, <1>17, <1>18, <1>19, <1>20 DEF StepOk

-----------------------------------------------------------------------------
(***************************************************************************)
(* The first half of a deletion.                                           *)
(***************************************************************************)
\* DelUnlink: the thread takes the dysk off the list; a dysk that is not on
\* it is somebody else's (dysk_del 236-238).
LEMMA DelUnlinkOk ==
  ASSUME BddInv, NEW p \in Threads, DelUnlink(p)
  PROVE  StepOk
<1>0. SUFFICES ASSUME Listed(ioctl[p].d)
               PROVE  StepOk
  <2>1. ASSUME ~Listed(ioctl[p].d)
        PROVE  \E why \in {"freed", "deleted twice"} : Breaks(why)
    BY <2>1 DEF DelUnlink
  <2> QED BY <2>1, BreaksOk
<1>1. PICK d : d = ioctl[p].d
  OBVIOUS
<1>2. PICK x : x = [ioctl[p] EXCEPT !.pc = "queue"]
  OBVIOUS
<1>3. /\ UNCHANGED <<oops, workerVars, busy, scount, obj, peeked, dels>>
      /\ ioctl[p].pc = "unlink"
      /\ ioctl' = [ioctl EXCEPT ![p] = x]
      /\ Listed(d)
      /\ \E i \in 1..Len(list) : list[i] = d /\ list' = RemoveAt(list, i)
  BY <1>0, <1>1, <1>2 DEF DelUnlink, Quiet, Goes
<1>4. PICK i \in 1..Len(list) : list[i] = d /\ list' = RemoveAt(list, i)
  BY <1>3
<1>5. /\ ioctl \in [Threads -> Thread] /\ ioctl[p] \in Thread /\ d \in Objects
      /\ p = Kthread => wpc = "catastrophe"
  BY <1>1, <1>3, KthreadDeletes DEF BddInv, ThreadsInv
<1>6. x \in Thread /\ x.pc = "queue" /\ x.d = d
  BY <1>1, <1>2, <1>5 DEF Thread
<1>7. /\ ioctl' \in [Threads -> Thread] /\ ioctl'[p] = x
      /\ \A r \in Threads : r # p => ioctl'[r] = ioctl[r]
  BY <1>3, <1>5, <1>6
<1>8. UNCHANGED <<queue, walk, status>> /\ wpc' = wpc
  BY <1>3 DEF workerVars, walk
<1>9. ThreadsInv'
  BY <1>5, <1>6, <1>7, <1>8 DEF BddInv, ThreadsInv, Threads
<1>10. /\ TasksInv' /\ DelsInv' /\ WalkInv' /\ queue' \in Seq(Task)
       /\ \A e \in Dysks : TaskStates(e)' = TaskStates(e)
  BY <1>3, <1>8, TasksLeftAlone
<1>11. /\ list \in Seq(Objects) /\ Len(list) \in Nat
       /\ i \in Nat /\ 1 <= i /\ i <= Len(list)
       /\ list' \in Seq(Objects) /\ Len(list') = Len(list) - 1
       /\ \A j \in 1..(Len(list) - 1) : list'[j] = IF j < i THEN list[j] ELSE list[j + 1]
  <2>1. list \in Seq(Objects)
    BY DEF BddInv, OtherTypes
  <2>2. /\ RemoveAt(list, i) \in Seq(Objects) /\ Len(RemoveAt(list, i)) = Len(list) - 1
        /\ \A j \in 1..(Len(list) - 1) :
             RemoveAt(list, i)[j] = IF j < i THEN list[j] ELSE list[j + 1]
    BY <2>1, RemoveAtProperties
  <2>3. Len(list) \in Nat
    BY <2>1, LenProperties
  <2>4. i \in Nat /\ 1 <= i /\ i <= Len(list)
    BY <2>3
  <2> QED BY <1>4, <2>1, <2>2, <2>3, <2>4
<1>12. \A j \in 1..Len(list') : \E k \in 1..Len(list) :
         k # i /\ list'[j] = list[k] /\ (IF j < i THEN k = j ELSE k = j + 1)
  <2>1. ASSUME NEW j \in 1..Len(list')
        PROVE  \E k \in 1..Len(list) :
                 k # i /\ list'[j] = list[k] /\ (IF j < i THEN k = j ELSE k = j + 1)
    <3>1. CASE j < i
      BY <1>11, <3>1
    <3>2. CASE ~(j < i)
      <4>1. j + 1 \in 1..Len(list) /\ j + 1 # i /\ list'[j] = list[j + 1]
        BY <1>11, <3>2
      <4> QED BY <3>2, <4>1
    <3> QED BY <3>1, <3>2
  <2> QED BY <2>1
<1>13. \A k \in 1..Len(list) : k # i => \E j \in 1..Len(list') : list'[j] = list[k]
  <2>1. ASSUME NEW k \in 1..Len(list), k # i
        PROVE  \E j \in 1..Len(list') : list'[j] = list[k]
    <3>1. CASE k < i
      <4>1. k \in 1..Len(list') /\ list'[k] = list[k]
        BY <1>11, <3>1
      <4> QED BY <4>1
    <3>2. CASE k > i
      <4>1. k - 1 \in 1..Len(list') /\ list'[k - 1] = list[k]
        BY <1>11, <3>2
      <4> QED BY <4>1
    <3> QED BY <1>11, <2>1, <3>1, <3>2
  <2> QED BY <2>1
<1>14. \A k, j \in 1..Len(list) : list[k] = list[j] => k = j
  BY DEF BddInv, OwnersInv
<1>15. \A e : Listed(e)' <=> (Listed(e) /\ e # d)
  <2>1. \A e : Listed(e)' <=> \E j \in 1..Len(list') : list'[j] = e
    BY DEF Listed
  <2>2. ASSUME NEW e, \E j \in 1..Len(list') : list'[j] = e
        PROVE  Listed(e) /\ e # d
    BY <1>4, <1>12, <1>14, <2>2 DEF Listed
  <2>3. ASSUME NEW e, Listed(e), e # d
        PROVE  \E j \in 1..Len(list') : list'[j] = e
    BY <1>4, <1>13, <2>3 DEF Listed
  <2> QED BY <2>1, <2>2, <2>3
<1>16. \A j, k \in 1..Len(list') : list'[j] = list'[k] => j = k
  <2>1. ASSUME NEW j \in 1..Len(list'), NEW k \in 1..Len(list'), list'[j] = list'[k]
        PROVE  j = k
    <3>1. PICK a \in 1..Len(list) : /\ a # i /\ list'[j] = list[a]
                                    /\ IF j < i THEN a = j ELSE a = j + 1
      BY <1>12
    <3>2. PICK b \in 1..Len(list) : /\ b # i /\ list'[k] = list[b]
                                    /\ IF k < i THEN b = k ELSE b = k + 1
      BY <1>12
    <3>3. a = b
      BY <1>14, <2>1, <3>1, <3>2
    <3> QED BY <1>11, <3>1, <3>2, <3>3
  <2> QED BY <2>1
<1>17. /\ Holding(p)' /\ ~Holding(p) /\ ioctl'[p].d = d
       /\ \A r \in Threads : r # p => (Holding(r)' <=> Holding(r))
  BY <1>3, <1>6, <1>7 DEF Holding
<1>18. /\ \A r \in Threads : Holding(r) => ioctl[r].d # d
       /\ \A s \in States : dels[s].d # d
       /\ d # None /\ obj[d].alloc /\ obj[d].hooked
  BY <1>3, <1>4, <1>5, NoneIsNoDysk DEF BddInv, OwnersInv, WholeInv
<1>19. OwnersInv'
  <2>1. \A r \in Threads : (Holding(r)' /\ r # p) => Holding(r) /\ ioctl'[r].d = ioctl[r].d /\ ioctl[r].d # d
    BY <1>7, <1>17, <1>18
  <2>2. \A r, q \in Threads : (Holding(r)' /\ Holding(q)' /\ ioctl'[r].d = ioctl'[q].d) => r = q
    BY <1>17, <2>1 DEF BddInv, OwnersInv
  <2>3. \A r \in Threads : Holding(r)' => ~(Listed(ioctl[r].d)')
    <3>1. ASSUME NEW r \in Threads, Holding(r)'
          PROVE  ~(Listed(ioctl[r].d)')
      <4>1. PICK e : e = ioctl'[r].d
        OBVIOUS
      <4>2. e = d \/ ~Listed(e)
        BY <1>17, <2>1, <3>1, <4>1 DEF BddInv, OwnersInv
      <4>3. ~(Listed(e)')
        BY <1>15, <4>2
      <4> QED BY <4>1, <4>3 DEF Listed
    <3> QED BY <3>1
  <2>4. \A r \in Threads, s \in States : Holding(r)' => dels'[s].d # ioctl'[r].d
    BY <1>3, <1>17, <1>18, <2>1 DEF BddInv, OwnersInv
  <2>5. \A s \in States : dels[s].d # None => ~(Listed(dels[s].d)')
    <3>1. ASSUME NEW s \in States, dels[s].d # None
          PROVE  ~(Listed(dels[s].d)')
      <4>1. PICK e : e = dels'[s].d
        OBVIOUS
      <4>2. ~Listed(e)
        BY <1>3, <3>1, <4>1 DEF BddInv, OwnersInv
      <4>3. ~(Listed(e)')
        BY <1>15, <4>2
      <4> QED BY <4>1, <4>3 DEF Listed
    <3> QED BY <3>1
  <2> QED BY <1>3, <1>16, <2>2, <2>3, <2>4, <2>5 DEF BddInv, OwnersInv
<1>20. WholeInv'
  <2>1. \A j \in 1..Len(list') : obj'[list'[j]].alloc /\ obj'[list'[j]].hooked
    BY <1>3, <1>12 DEF BddInv, WholeInv
  <2>2. \A r \in Threads : ioctl'[r].pc \in {"hook", "add", "queue"} =>
          ioctl'[r] = ioctl[r] \/ (ioctl'[r].pc = "queue" /\ ioctl'[r].d = d)
    BY <1>6, <1>7
  <2> QED BY <1>3, <1>18, <2>1, <2>2 DEF BddInv, WholeInv
<1>21. LeaksInv'
  <2>1. \A e : Owned(e) => Owned(e)'
    BY <1>3, <1>7, <1>15, <1>17 DEF Owned
  <2> QED BY <1>3, <1>8, <2>1 DEF BddInv, LeaksInv
<1>22. SlotsInv'
  BY <1>3 DEF BddInv, SlotsInv
<1>23. WaitsInv'
  BY <1>3, <1>10, WaitsStay, NoneIsNoDysk
<1>24. OtherTypes'
  BY <1>3, <1>11 DEF BddInv, OtherTypes
<1> QED BY <1>3, <1>9, <1>10, <1>19, <1>20, <1>21, <1>22, <1>23, <1>24 DEF StepOk


\* DelQueue: the delete task is the holder of the dysk from here on, and the
\* thread none (dysk_del 240-245).
LEMMA DelQueueOk ==
  ASSUME BddInv, NEW p \in Threads, NEW s \in States, DelQueue(p, s)
  PROVE  StepOk
<1>1. PICK d : d = ioctl[p].d
  OBVIOUS
<1>2. PICK y : y = [NoDel EXCEPT !.d = d]
  OBVIOUS
<1>3. /\ UNCHANGED <<oops, list, busy, scount, obj, peeked>>
      /\ ioctl[p].pc = "queue"
      /\ queue_w_task("del", s, HeadDysk, "no_throttle")
      /\ dels' = [dels EXCEPT ![s] = y]
      /\ Leaves(p) \/ Goes(p, "done")
      /\ p # Kthread => Leaves(p)
  BY <1>1, <1>2 DEF DelQueue, Quiet
<1>4. Holding(p)
  BY <1>3 DEF Holding
<1>5. /\ d \in Objects /\ d # None /\ ~Listed(d) /\ obj[d].alloc
      /\ \A r \in Threads : (r # p /\ Holding(r)) => ioctl[r].d # d
      /\ \A t \in States : dels[t].d # d
      /\ ioctl[p] \in Thread
  BY <1>1, <1>4, HolderAlone
<1>6. obj[d].hooked
  BY <1>1, <1>3 DEF BddInv, WholeInv
<1>7. "del" \in Fns /\ HeadDysk \in Dysks /\ "no_throttle" \in Modes
  BY BddParametersAssumption DEF Modes
<1>8. /\ [Next]_workerVars
      /\ TasksInv' /\ queue' \in Seq(Task) /\ queue \in Seq(Task)
      /\ UNCHANGED <<pos, wpc, execCount, status>>
      /\ wpc \notin {"pass", "stopped"} => Current' = Current /\ Current.state # s
      /\ \A e \in Dysks : e # HeadDysk => TaskStates(e)' = TaskStates(e)
      /\ TaskStates(HeadDysk)' = TaskStates(HeadDysk) \cup {s}
      /\ \A e \in Dysks : s \notin TaskStates(e)
  BY <1>3, <1>7, QueueStep
<1>9. y \in DelState /\ y.d = d /\ ~y.draining /\ y.counter = 0
  <2>1. y = [counter |-> 0, d |-> d, draining |-> FALSE]
    BY <1>2 DEF NoDel
  <2>2. d \in Dysks
    BY <1>5, NoneIsNoDysk
  <2> QED BY <2>1, <2>2 DEF DelState
<1>10. /\ dels' \in [States -> DelState] /\ dels'[s] = y
       /\ \A t \in States : t # s => dels'[t] = dels[t]
  BY <1>3, <1>9, OneDelChanges
<1>11. dels[s] = NoDel /\ NoDel.d = None
  BY <1>7, <1>8 DEF BddInv, DelsInv, NoDel
<1>12. DelsInv'
  <2>1. ASSUME NEW t \in States
        PROVE  /\ t \in TaskStates(HeadDysk)' => dels'[t].d \in Objects
               /\ t \notin TaskStates(HeadDysk)' => dels'[t] = NoDel
    BY <1>5, <1>8, <1>9, <1>10 DEF BddInv, DelsInv
  <2>2. ASSUME NEW t \in States
        PROVE  /\ dels'[t].counter = IF wpc' = "exec" /\ Current'.state = t /\ dels'[t].d # None
                                       THEN IF dels'[t].draining THEN 3 ELSE execCount' ELSE 0
               /\ dels'[t].draining => wpc' = "exec" /\ Current'.state = t
    <3>1. CASE wpc = "exec"
      BY <1>8, <1>9, <1>10, <3>1 DEF BddInv, DelsInv
    <3>2. CASE wpc # "exec"
      BY <1>8, <1>9, <1>10, <3>2 DEF BddInv, DelsInv
    <3> QED BY <3>1, <3>2
  <2> QED BY <1>10, <2>1, <2>2 DEF DelsInv
<1>13. WalkInv'
  <2>1. CASE wpc \in {"expiry", "catastrophe"}
    BY <1>8, <2>1 DEF BddInv, WalkInv
  <2>2. CASE wpc \notin {"expiry", "catastrophe"}
    BY <1>8, <2>2 DEF BddInv, WalkInv
  <2> QED BY <2>1, <2>2
<1>14. /\ ThreadsInv' /\ ~(Holding(p)')
       /\ \A r \in Threads : r # p => ioctl'[r] = ioctl[r]
  <2>1. ioctl \in [Threads -> Thread] /\ Kthread \in Threads
    BY DEF BddInv, ThreadsInv, Threads
  <2>2. p = Kthread => wpc = "catastrophe"
    BY <1>3, KthreadDeletes
  <2>3. CASE Leaves(p)
    <3>1. Idle \in Thread /\ Idle.pc = "idle"
      BY DEF Idle, Thread
    <3>2. /\ ioctl' \in [Threads -> Thread] /\ ioctl'[p] = Idle
          /\ \A r \in Threads : r # p => ioctl'[r] = ioctl[r]
      BY <2>1, <2>3, <3>1 DEF Leaves
    <3> QED BY <1>8, <2>1, <3>1, <3>2 DEF BddInv, ThreadsInv, Holding
  <2>4. CASE Goes(p, "done")
    <3>1. PICK x : x = [ioctl[p] EXCEPT !.pc = "done"]
      OBVIOUS
    <3>2. x \in Thread /\ x.pc = "done"
      BY <1>5, <3>1 DEF Thread
    <3>3. /\ ioctl' \in [Threads -> Thread] /\ ioctl'[p] = x
          /\ \A r \in Threads : r # p => ioctl'[r] = ioctl[r]
      BY <2>1, <2>4, <3>1, <3>2 DEF Goes
    <3> QED BY <1>8, <2>1, <2>2, <3>2, <3>3 DEF BddInv, ThreadsInv, Holding
  <2> QED BY <1>3, <2>3, <2>4
<1>15. /\ \A e : Listed(e)' <=> Listed(e)
       /\ \A r \in Threads : Holding(r)' => r # p /\ Holding(r) /\ ioctl'[r] = ioctl[r]
       /\ \A r \in Threads : (r # p /\ Holding(r)) => Holding(r)'
  BY <1>3, <1>14 DEF Listed, Holding
<1>16. OwnersInv'
  <2>1. \A t \in States : dels'[t].d = dels[t].d \/ (t = s /\ dels'[t].d = d)
    BY <1>9, <1>10
  <2>2. \A t, u \in States : (dels'[t].d = dels'[u].d /\ dels'[t].d # None) => t = u
    BY <1>5, <1>9, <1>10 DEF BddInv, OwnersInv
  <2>3. \A r \in Threads, t \in States : Holding(r)' => dels'[t].d # ioctl'[r].d
    BY <1>5, <1>15, <2>1 DEF BddInv, OwnersInv
  <2>4. \A t \in States : dels'[t].d # None => ~Listed(dels'[t].d)
    BY <1>5, <2>1 DEF BddInv, OwnersInv
  <2>5. \A t \in States : dels'[t].d # None => ~(Listed(dels[t].d)')
    <3>1. ASSUME NEW t \in States, dels'[t].d # None
          PROVE  \A i \in 1..Len(list') : list'[i] # dels'[t].d
      BY <1>3, <2>4, <3>1 DEF Listed
    <3> QED BY <3>1 DEF Listed
  <2>6. \A r \in Threads : Holding(r)' => ~(Listed(ioctl[r].d)')
    BY <1>3, <1>15 DEF BddInv, OwnersInv, Listed
  <2> QED BY <1>3, <1>15, <2>2, <2>3, <2>5, <2>6 DEF BddInv, OwnersInv
<1>17. WholeInv'
  <2>1. \A r \in Threads : ioctl'[r].pc \in {"hook", "add", "queue"} => ioctl'[r] = ioctl[r]
    BY <1>15 DEF Holding
  <2>2. \A t \in States : dels'[t].d # None =>
          /\ obj'[dels'[t].d].alloc
          /\ obj'[dels'[t].d].hooked <=> ~dels'[t].draining
    BY <1>3, <1>5, <1>6, <1>9, <1>10 DEF BddInv, WholeInv
  <2> QED BY <1>3, <2>1, <2>2 DEF BddInv, WholeInv
<1>18. LeaksInv'
  <2>1. ASSUME NEW e, Owned(e), e # None
        PROVE  Owned(e)'
    <3>1. \A t \in States : dels[t].d = e => dels'[t].d = e
      BY <1>10, <1>11, <2>1
    <3>2. dels'[s].d = d
      BY <1>9, <1>10
    <3> QED BY <1>1, <1>15, <2>1, <3>1, <3>2 DEF Owned
  <2> QED BY <1>3, <1>8, <2>1, NoneIsNoDysk DEF BddInv, LeaksInv
<1>19. SlotsInv'
  BY <1>3 DEF BddInv, SlotsInv
<1>20. WaitsInv'
  BY <1>3, <1>8, WaitsStay, NoneIsNoDysk
<1>21. OtherTypes'
  BY <1>3 DEF BddInv, OtherTypes
<1> QED BY <1>8, <1>12, <1>13, <1>14, <1>16, <1>17, <1>18, <1>19, <1>20, <1>21 DEF StepOk

-----------------------------------------------------------------------------
(***************************************************************************)
(* The invariant.                                                          *)
(***************************************************************************)
\* Every step of every thread.
LEMMA EveryStepOk ==
  ASSUME BddInv, BddNext
  PROVE  StepOk
<1>1. Kthread \in Threads /\ Callers \subseteq Threads
  BY DEF Threads
<1>2. ASSUME NEW p \in Threads, DelPath(p)
      PROVE  StepOk
  <2>1. CASE DelGivesUp(p) \/ DelFind(p) \/ DelMark(p)
    BY <2>1, ThreadStepsOk
  <2>2. CASE DelUnlink(p)
    BY <2>2, DelUnlinkOk
  <2>3. CASE \E s \in States : DelQueue(p, s)
    BY <2>3, DelQueueOk
  <2> QED BY <1>2, <2>1, <2>2, <2>3 DEF DelPath
<1>3. CASE BddWorker
  <2>1. CASE WorkerMoves
    BY <2>1, WorkerMovesOk
  <2>2. CASE Dropped \/ CatastropheOver
    BY <2>2, DropsOk
  <2>3. CASE DelAgain
    BY <2>3, DelAgainOk
  <2>4. CASE DelTeardown
    BY <2>4, DelTeardownOk
  <2>5. CASE DelFree
    BY <2>5, DelFreeOk
  <2>6. CASE TransferRetry
    BY <2>6, TransferRetryOk
  <2>7. CASE TransferGoesOn
    BY <2>7, TransferGoesOnOk
  <2>8. CASE TransferEnds
    BY <2>8, TransferEndsOk
  <2>9. CASE TransferFails
    BY <2>9, TransferFailsOk
  <2>10. CASE DelPath(Kthread)
    BY <1>1, <1>2, <2>10
  <2> QED BY <1>3, <2>1, <2>2, <2>3, <2>4, <2>5, <2>6, <2>7, <2>8, <2>9, <2>10 DEF BddWorker
<1>4. ASSUME NEW p \in Callers, Caller(p)
      PROVE  StepOk
  <2>1. CASE \E d \in Objects, n \in Names : MountStart(p, d, n)
    BY <2>1, MountStartOk
  <2>2. CASE MountHook(p)
    BY <2>2, MountHookOk
  <2>3. CASE MountFails(p)
    BY <2>3, MountFailsOk
  <2>4. CASE MountAdd(p)
    BY <2>4, MountAddOk
  <2>5. CASE Reply(p)
    BY <1>1, <2>5, ThreadStepsOk
  <2>6. CASE \E n \in Names : Unmount(p, n) \/ DyskGet(p, n)
    BY <2>6, EntersOk
  <2>7. CASE DelPath(p)
    BY <1>1, <1>2, <2>7
  <2> QED BY <1>4, <2>1, <2>2, <2>3, <2>4, <2>5, <2>6, <2>7 DEF Caller
<1>5. CASE Requests
  BY <1>5, SubmitOk, EnqueueOk DEF Requests
<1>6. CASE Clock
  BY <1>6, ClockOk
<1> QED BY <1>3, <1>4, <1>5, <1>6 DEF BddNext

\* A step keeps the invariant, the worker's part included.
LEMMA StepKeepsBddInv ==
  ASSUME BddInv, [BddNext]_vars
  PROVE  BddInv' /\ [Next]_workerVars
<1>1. CASE BddNext
  <2>1. StepOk
    BY <1>1, EveryStepOk
  <2>2. IInv'
    BY <2>1, StepKeepsIInv, StutterKeepsIInv DEF StepOk, BddInv
  <2> QED BY <2>1, <2>2 DEF StepOk, BddInv
<1>2. CASE UNCHANGED vars
  <2>1. UNCHANGED <<workerVars, bddVars, oops>>
    BY <1>2 DEF vars
  <2>2. IInv' /\ UNCHANGED <<queue, pos, more, wpc, execCount, status, dels, ioctl>>
    BY <2>1, StutterKeepsIInv DEF BddInv, workerVars, walk, bddVars
  <2>3. DelsInv' /\ WalkInv'
    <3>1. \A d \in Dysks : TaskStates(d)' = TaskStates(d)
      BY <2>2, TasksStay
    <3> QED BY <2>2, <3>1, BddParametersAssumption DEF BddInv, DelsInv, WalkInv, Current
  <2>4. wpc' # "catastrophe" => ioctl[Kthread] = Idle
    BY <2>2 DEF BddInv, ThreadsInv
  <2>5. StepOk
    BY <2>1, <2>2, <2>3, <2>4, WalkMoves
  <2> QED BY <2>2, <2>5 DEF StepOk, BddInv
<1> QED BY <1>1, <1>2

\* Before the first mount nobody has anything.
LEMMA InitBddInv ==
  ASSUME BddInit
  PROVE  BddInv
<1>1. IInv
  BY InitIInv DEF BddInit
<1>2. /\ queue = <<>> /\ Len(queue) = 0 /\ wpc = "pass" /\ execCount = 0
      /\ list = <<>> /\ Len(list) = 0
  BY EmptySeq DEF BddInit, Init
<1>3. \A d : TaskStates(d) = {}
  BY <1>2 DEF TaskStates
<1>4. TasksInv
  BY <1>2 DEF TasksInv
<1>5. dels \in [States -> DelState] /\ \A s \in States : dels[s] = NoDel
  BY DEF BddInit, NoDel, DelState
<1>6. DelsInv /\ WalkInv
  BY <1>2, <1>3, <1>5 DEF DelsInv, WalkInv, NoDel
<1>7. Idle \in Thread /\ Idle.pc = "idle"
  BY DEF Idle, Thread
<1>8. ioctl \in [Threads -> Thread] /\ \A p \in Threads : ioctl[p] = Idle
  BY <1>7 DEF BddInit
<1>9. ThreadsInv
  <2>1. Kthread \in Threads
    BY DEF Threads
  <2> QED BY <1>7, <1>8, <2>1 DEF ThreadsInv
<1>10. OwnersInv
  BY <1>2, <1>5, <1>7, <1>8 DEF OwnersInv, Holding, NoDel
<1>11. Blank \in Object
  BY BddParametersAssumption DEF Blank, Object
<1>12. obj \in [Objects -> Object] /\ \A d \in Objects : obj[d] = Blank
  BY <1>11 DEF BddInit
<1>13. ~Blank.alloc /\ ~Blank.hooked /\ Blank.out = 0
  BY DEF Blank
<1>14. OtherTypes
  BY <1>2, <1>12, EmptySeq DEF OtherTypes, BddInit
<1>15. WholeInv
  BY <1>2, <1>5, <1>7, <1>8, <1>12 DEF WholeInv, NoDel
<1>16. WaitsInv
  <2>1. Cardinality({}) = 0 /\ peeked = {}
    BY FS_EmptySet DEF BddInit
  <2>2. ASSUME NEW d \in Objects
        PROVE  Cardinality(TaskStates(d)) + (IF d \in peeked THEN 1 ELSE 0) <= obj[d].out
    <3>1. Cardinality(TaskStates(d)) = 0
      BY <1>3, <2>1
    <3> QED BY <1>12, <1>13, <2>1, <3>1
  <2> QED BY <2>2 DEF WaitsInv
<1>17. SlotsInv
  <2>1. Cardinality({}) = 0
    BY FS_EmptySet
  <2> QED BY <1>12, <1>13, <2>1, BddParametersAssumption DEF SlotsInv, BddInit
<1>18. LeaksInv
  BY <1>12, <1>13 DEF LeaksInv
<1> QED BY <1>1, <1>4, <1>6, <1>9, <1>10, <1>14, <1>15, <1>16, <1>17, <1>18 DEF BddInv

\* The inductive invariant holds in every reachable state.
LEMMA BddInvariance == BddSpec => []BddInv
<1>1. BddInv /\ [BddNext]_vars => BddInv'
  BY StepKeepsBddInv
<1> QED BY InitBddInv, <1>1, PTL DEF BddSpec

\* Every step of a mount, an unmount, a request or the clock is a step of the
\* worker, or leaves it alone: what is proved of the worker holds of it here.
THEOREM BddImplementsWorker == BddSpec => ImplementsWorker
<1>1. BddInit => Init
  BY DEF BddInit
<1>2. BddInv /\ [BddNext]_vars => [Next]_workerVars
  BY StepKeepsBddInv
<1> QED BY <1>1, <1>2, BddInvariance, PTL DEF BddSpec, ImplementsWorker, Spec

\* No two dysks share a slot, and the count follows the slots, for any number
\* of slots and of mounts and deletions that race (find_set_dysk_slots 126-147,
\* free_dysk_slot 150-157).
THEOREM SlotsAreAccounted == BddSpec => []SlotsAccounted
<1>1. BddInv => SlotsAccounted
  BY DEF BddInv, SlotsInv, SlotsAccounted
<1> QED BY <1>1, BddInvariance, PTL


\* A task of the list has a state of the states.
LEMMA TaskHasState ==
  ASSUME BddInv, NEW i \in 1..Len(queue)
  PROVE  queue[i].state \in States
<1>1. queue[i] \in Task
  BY ElementOfSeq, IInvParts DEF BddInv, ListInv
<1> QED BY <1>1 DEF Task

\* The types of the life cycle, the states of the delete tasks and the places
\* of the threads included.
THEOREM BddTypes == BddSpec => []BddTypeOK
<1>1. BddInv => BddTypeOK
  <2>1. SUFFICES ASSUME BddInv PROVE BddTypeOK
    OBVIOUS
  <2>2. MAX_DYSKS \in Nat /\ busy \subseteq 0..MAX_DYSKS
    BY <2>1, BddParametersAssumption DEF BddInv, SlotsInv
  <2>3. IsFiniteSet(0..MAX_DYSKS)
    BY <2>2, FS_Interval
  <2>4. Cardinality(busy) \in Nat
    BY <2>2, <2>3, FS_Subset, FS_CardinalityType
  <2>5. scount \in -1..MAX_DYSKS
    BY <2>1, <2>2, <2>4 DEF BddInv, SlotsInv
  <2>6. TypeOK
    BY <2>1 DEF BddInv, IInv
  <2> QED BY <2>1, <2>2, <2>5, <2>6 DEF BddTypeOK, BddInv, OtherTypes, DelsInv, ThreadsInv
<1> QED BY <1>1, BddInvariance, PTL

\* A dysk that can be found by its name is a whole one, once on the list and
\* in no delete task, however mounts, unmounts and failures race
\* (dysk_add 278-280, dysk_del 226-244).
THEOREM ListedDysksAreLive == BddSpec => []ListedAreLive
<1>1. BddInv => ListedAreLive
  <2>1. SUFFICES ASSUME BddInv, NEW i \in 1..Len(list)
                 PROVE  /\ obj[list[i]].alloc /\ obj[list[i]].hooked
                        /\ DeleteTasks(list[i]) = {}
                        /\ \A j \in 1..Len(list) : list[i] = list[j] => i = j
    BY DEF ListedAreLive
  <2>2. list[i] \in Objects /\ Listed(list[i])
    BY <2>1, ElementOfSeq DEF BddInv, OtherTypes, Listed
  <2>3. \A s \in States : dels[s].d # list[i]
    BY <2>1, <2>2, NoneIsNoDysk DEF BddInv, OwnersInv
  <2>4. DeleteTasks(list[i]) = {}
    BY <2>1, <2>3, TaskHasState DEF DeleteTasks
  <2> QED BY <2>1, <2>4 DEF BddInv, WholeInv, OwnersInv
<1> QED BY <1>1, BddInvariance, PTL

\* No task outlives the memory of its dysk, and one delete task only frees it,
\* for any number of dysks, requests and processes: each task carries a
\* request that blk_cleanup_queue() waits for (io_unhook 985, __del_dysk_async
\* 199).
THEOREM TasksHaveLiveDysks == BddSpec => []TasksOnLiveDysks
<1>1. BddInv => TasksOnLiveDysks
  <2>1. SUFFICES ASSUME BddInv, NEW d \in Objects
                 PROVE  /\ QueuedBy(d) # {} => obj[d].alloc
                        /\ DeleteTasks(d) # {} => obj[d].alloc
                        /\ Cardinality(DeleteTasks(d)) <= 1
    BY DEF TasksOnLiveDysks
  <2>2. ASSUME QueuedBy(d) # {}
        PROVE  obj[d].alloc
    <3>1. PICK i \in 1..Len(queue) : queue[i].d = d
      BY <2>2 DEF QueuedBy
    <3>2. TaskStates(d) # {}
      BY <2>1, <3>1, TaskHasState DEF TaskStates
    <3> QED BY <2>1, <3>2, HeldAreWhole
  <2>3. ASSUME NEW i \in DeleteTasks(d)
        PROVE  i \in 1..Len(queue) /\ queue[i].state \in States /\ dels[queue[i].state].d = d
    BY <2>1, TaskHasState DEF DeleteTasks
  <2>4. ASSUME DeleteTasks(d) # {}
        PROVE  obj[d].alloc
    <3>1. Owned(d)
      BY <2>3, <2>4 DEF Owned
    <3> QED BY <2>1, <3>1, HeldAreWhole
  <2>5. \A i, j \in DeleteTasks(d) : i = j
    <3>1. ASSUME NEW i \in DeleteTasks(d), NEW j \in DeleteTasks(d)
          PROVE  i = j
      <4>1. queue[i].state = queue[j].state
        BY <2>1, <2>3, NoneIsNoDysk DEF BddInv, OwnersInv
      <4> QED BY <2>1, <2>3, <4>1 DEF BddInv, TasksInv
    <3> QED BY <3>1
  <2>6. Cardinality(DeleteTasks(d)) <= 1
    <3>1. CASE DeleteTasks(d) = {}
      BY <3>1, FS_EmptySet
    <3>2. CASE DeleteTasks(d) # {}
      <4>1. PICK i \in DeleteTasks(d) : DeleteTasks(d) = {i}
        BY <2>5, <3>2
      <4>2. Cardinality({i}) = 1
        BY FS_Singleton
      <4> QED BY <4>1, <4>2
    <3> QED BY <3>1, <3>2
  <2> QED BY <2>2, <2>4, <2>6
<1> QED BY <1>1, BddInvariance, PTL

\* While the head is healthy every dysk is on the list, in a mount or in a
\* deletion that will free it (dysk_del 240-245, execute 82).
THEOREM NoDyskLeaks == BddSpec => []NothingLeaks
<1>1. BddInv => NothingLeaks
  <2>1. SUFFICES ASSUME BddInv, NEW d \in Objects, Owned(d)
                 PROVE  Listed(d) \/ Mounting(d) \/ InDeletion(d)
    BY DEF NothingLeaks, BddInv, LeaksInv
  <2>2. ASSUME NEW p \in Threads, Holding(p), ioctl[p].d = d
        PROVE  Mounting(d) \/ InDeletion(d)
    <3>1. CASE ioctl[p].pc = "queue"
      BY <2>2, <3>1 DEF InDeletion
    <3>2. CASE ioctl[p].pc \in {"hook", "add"}
      <4>1. p \in Callers
        BY <2>1, <2>2, <3>2 DEF BddInv, ThreadsInv, Threads
      <4> QED BY <2>2, <3>2, <4>1 DEF Mounting
    <3> QED BY <2>2, <3>1, <3>2 DEF Holding
  <2>3. ASSUME NEW s \in States, dels[s].d = d
        PROVE  InDeletion(d)
    <3>1. s \in TaskStates(HeadDysk)
      BY <2>1, <2>3, NoneIsNoDysk DEF BddInv, DelsInv, NoDel
    <3>2. PICK i \in 1..Len(queue) : queue[i].state = s /\ queue[i].d = HeadDysk
      BY <3>1 DEF TaskStates
    <3>3. queue[i].fn = "del"
      BY <2>1, <3>2 DEF BddInv, TasksInv
    <3>4. i \in DeleteTasks(d)
      BY <2>3, <3>2, <3>3 DEF DeleteTasks
    <3> QED BY <3>4 DEF InDeletion
  <2> QED BY <2>1, <2>2, <2>3 DEF Owned
<1> QED BY <1>1, BddInvariance, PTL
=============================================================================
