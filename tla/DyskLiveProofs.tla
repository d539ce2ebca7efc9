--------------------------- MODULE DyskLiveProofs ---------------------------
(***************************************************************************)
(* Proofs about DyskBdd with one process at the endpoint, for any dysks,   *)
(* names, slots, requests and bounds.  What two processes break holds      *)
(* then: no two dysks of the list have one name, nothing is used after it  *)
(* was freed before a dysk fails, and a failed dysk is deleted by the      *)
(* thread that failed it.                                                  *)
(***************************************************************************)
EXTENDS MCDyskBddLive, DyskBddProofs

OneCaller == \A p, q \in Callers : p = q

\* No two dysks of the list have one name, and the one that is being mounted
\* has a name that is not on the list.
NamesInv ==
  /\ NamesUnique
  /\ \A p \in Callers :
       ioctl[p].pc \in {"hook", "add"} =>
         \A i \in 1..Len(list) : obj[list[i]].name # obj[ioctl[p].d].name

\* Before the first failure the worker's thread is not in a deletion, and the
\* dysk a process works on without having taken it off the list is on it.
AloneInv ==
  someFailed \/
    /\ oops = "none"
    /\ wpc # "catastrophe"
    /\ \A p \in Callers :
         ioctl[p].pc \in {"mark", "unlink", "reply", "get"} => Listed(ioctl[p].d)

\* A dysk that is being mounted has not failed, but for one that takes
\* requests already and is not on the list yet.
MountingInv ==
  \A p \in Callers :
    (ioctl[p].pc \in {"hook", "add"} /\ status[ioctl[p].d] = "CATASTROPHE")
      => ioctl[p].pc = "add" /\ ioctl[p].d \in early

FailedInv == MountingInv /\ FailedIsBeingDeleted

-----------------------------------------------------------------------------
(***************************************************************************)
(* The list and the names of its dysks.                                    *)
(***************************************************************************)
\* A dysk of the list is an object with memory.
LEMMA ListedIsObject ==
  ASSUME BddInv, NEW i \in 1..Len(list)
  PROVE  list[i] \in Objects /\ list[i] # None /\ Listed(list[i]) /\ obj[list[i]].alloc
<1>1. list[i] \in Objects
  BY ElementOfSeq DEF BddInv, OtherTypes
<1> QED BY <1>1, NoneIsNoDysk DEF BddInv, WholeInv, Listed

\* What dysk_exist() finds has the name, and it finds one if there is one.
LEMMA FoundHasName ==
  ASSUME BddInv, NEW n
  PROVE  /\ dysk_exist(n) # None =>
              \E i \in 1..Len(list) : list[i] = dysk_exist(n) /\ obj[list[i]].name = n
         /\ \A i \in 1..Len(list) : obj[list[i]].name = n => dysk_exist(n) # None
<1> DEFINE at == {i \in 1..Len(list) : obj[list[i]].name = n}
<1>1. Len(list) \in Nat
  BY LenProperties DEF BddInv, OtherTypes
<1>2. at \in SUBSET Nat
  BY <1>1
<1>3. dysk_exist(n) = IF at = {} THEN None ELSE list[CHOOSE i \in at : \A j \in at : i <= j]
  BY DEF dysk_exist
<1>4. ASSUME at # {}
      PROVE  \E i \in at : list[i] = dysk_exist(n)
  <2>1. \E i \in at : \A j \in at : i <= j
    BY <1>2, <1>4, LeastOf
  <2> HIDE DEF at
  <2> QED BY <1>3, <1>4, <2>1
<1>5. CASE at = {}
  BY <1>3, <1>5
<1>6. CASE at # {}
  BY <1>4, <1>6, ListedIsObject
<1> QED BY <1>5, <1>6

\* With unique names it finds the dysk of the name.
LEMMA FoundByName ==
  ASSUME BddInv, NamesUnique, NEW d, Listed(d)
  PROVE  dysk_exist(obj[d].name) = d
<1>1. PICK i \in 1..Len(list) : list[i] = d
  BY DEF Listed
<1>2. dysk_exist(obj[d].name) # None
  BY <1>1, FoundHasName
<1>3. PICK j \in 1..Len(list) : list[j] = dysk_exist(obj[d].name) /\ obj[list[j]].name = obj[d].name
  BY <1>2, FoundHasName
<1> QED BY <1>1, <1>3 DEF NamesUnique

\* What is taken off the list is one dysk, once (list_del).
LEMMA OneIsUnlinked ==
  ASSUME BddInv, NEW k \in 1..Len(list), list' = RemoveAt(list, k)
  PROVE  /\ \A i \in 1..Len(list') : \E j \in 1..Len(list) : list'[i] = list[j] /\ j # k
         /\ \A i, j \in 1..Len(list') : list'[i] = list'[j] => i = j
         /\ \A d : Listed(d)' => Listed(d) /\ d # list[k]
<1>1. list \in Seq(Objects) /\ Len(list) \in Nat
  BY LenProperties DEF BddInv, OtherTypes
<1>2. /\ Len(list') = Len(list) - 1
      /\ \A i \in 1..(Len(list) - 1) : list'[i] = IF i < k THEN list[i] ELSE list[i + 1]
  BY <1>1, RemoveAtProperties
<1> DEFINE At(i) == IF i < k THEN i ELSE i + 1
<1>3. \A i \in 1..Len(list') : At(i) \in 1..Len(list) /\ At(i) # k /\ list'[i] = list[At(i)]
  BY <1>1, <1>2
<1>4. \A i, j \in 1..Len(list') : At(i) = At(j) => i = j
  BY <1>1, <1>2
<1> HIDE DEF At
<1>5. \A i, j \in 1..Len(list) : list[i] = list[j] => i = j
  BY DEF BddInv, OwnersInv
<1>6. \A i \in 1..Len(list') : list'[i] # list[k]
  BY <1>3, <1>5
<1>7. \A i \in 1..Len(list') : \E j \in 1..Len(list) : list'[i] = list[j] /\ j # k
  BY <1>3
<1>8. \A i, j \in 1..Len(list') : list'[i] = list'[j] => i = j
  BY <1>3, <1>4, <1>5
<1> QED BY <1>6, <1>7, <1>8 DEF Listed

-----------------------------------------------------------------------------
(***************************************************************************)
(* What the groups of steps do to the names, the list and the threads.     *)
(***************************************************************************)
\* No dysk that can be found or is being mounted gets another name.
NamesStay == \A d \in Objects : (Listed(d) \/ Mounting(d)) => obj'[d].name = obj[d].name

\* The worker outside a deletion by name.
WorkerAlone ==
  \/ WorkerMoves \/ Dropped \/ CatastropheOver
  \/ DelAgain \/ DelTeardown \/ DelFree
  \/ TransferRetry \/ TransferGoesOn \/ TransferEnds \/ TransferFails

\* One field of one object changes, and it is not the name.
LEMMA FieldChanges ==
  ASSUME BddInv, NEW d, NEW v,
         \/ obj' = [obj EXCEPT ![d].out = v] \/ obj' = [obj EXCEPT ![d].hooked = v]
         \/ obj' = obj
  PROVE  NamesStay
<1>1. obj \in [Objects -> Object]
  BY DEF BddInv, OtherTypes
<1>2. \A e \in Objects : obj'[e].name = obj[e].name
  BY <1>1 DEF Object
<1> QED BY <1>2 DEF NamesStay

\* The worker's steps, but for its deletions by name, find and unlink nothing.
LEMMA WorkerAloneKeeps ==
  ASSUME BddInv, WorkerAlone
  PROVE  /\ list' = list /\ oops' = oops /\ oops = "none" /\ NamesStay
         /\ \A p \in Callers : ioctl'[p] = ioctl[p]
<1>1. oops' = oops /\ oops = "none"
  BY DEF WorkerAlone, WorkerMoves, Dropped, CatastropheOver, DelAgain, DelTeardown, DelFree,
         TransferRetry, TransferGoesOn, TransferEnds, TransferFails, Quiet
<1>2. list' = list
  BY DEF WorkerAlone, WorkerMoves, Dropped, CatastropheOver, DelAgain, DelTeardown, DelFree,
         TransferRetry, TransferGoesOn, TransferEnds, TransferFails, bddVars
<1>3. \A p \in Callers : ioctl'[p] = ioctl[p]
  <2>1. ioctl \in [Threads -> Thread] /\ \A p \in Callers : p \in Threads /\ p # Kthread
    BY BddParametersAssumption DEF BddInv, ThreadsInv, Threads
  <2>2. CASE TransferFails \/ CatastropheOver
    <3>1. \E x : ioctl' = [ioctl EXCEPT ![Kthread] = x]
      BY <2>2 DEF TransferFails, CatastropheOver, Leaves
    <3> QED BY <2>1, <3>1
  <2>3. CASE ~(TransferFails \/ CatastropheOver)
    BY <2>3 DEF WorkerAlone, WorkerMoves, Dropped, DelAgain, DelTeardown, DelFree,
                TransferRetry, TransferGoesOn, TransferEnds, bddVars
  <2> QED BY <2>2, <2>3
<1>4. NamesStay
  <2>1. CASE WorkerMoves \/ DelAgain \/ TransferRetry \/ TransferGoesOn \/ TransferFails
    <3>1. obj' = obj
      BY <2>1 DEF WorkerMoves, DelAgain, TransferRetry, TransferGoesOn, TransferFails, bddVars
    <3> QED BY <3>1 DEF NamesStay
  <2>2. CASE Dropped \/ CatastropheOver
    BY <2>2, FieldChanges DEF Dropped, CatastropheOver, CleanUp, Ends
  <2>3. CASE TransferEnds
    BY <2>3, FieldChanges DEF TransferEnds, Ends
  <2>4. CASE DelTeardown
    BY <2>4, FieldChanges DEF DelTeardown
  <2>5. CASE DelFree
    <3> DEFINE d == dels[Current.state].d
    <3>1. Deleting /\ obj' = [obj EXCEPT ![d] = Blank]
      BY <2>5 DEF DelFree, FreeNow
    <3>2. ~Listed(d) /\ \A p \in Threads : Holding(p) => ioctl[p].d # d
      BY <3>1, DeleteTask
    <3>3. \A e \in Objects : e # d => obj'[e] = obj[e]
      BY <3>1
    <3> HIDE DEF d
    <3>4. ~Mounting(d)
      BY <3>2 DEF Mounting, Holding, Threads
    <3> QED BY <3>2, <3>3, <3>4 DEF NamesStay
  <2> QED BY <2>1, <2>2, <2>3, <2>4, <2>5 DEF WorkerAlone
<1> QED BY <1>1, <1>2, <1>3, <1>4

\* A deletion by name mounts nothing, renames nothing, and takes at most one
\* dysk off the list.
LEMMA DelPathKeeps ==
  ASSUME BddInv, NEW p \in Threads, DelPath(p)
  PROVE  /\ obj' = obj
         /\ list' = list \/ \E k \in 1..Len(list) : list[k] = ioctl[p].d /\ list' = RemoveAt(list, k)
         /\ \A q \in Threads : q # p => ioctl'[q] = ioctl[q]
         /\ ioctl'[p] = ioctl[p] \/ ioctl'[p].pc \notin {"hook", "add"}
<1>1. ioctl \in [Threads -> Thread]
  BY DEF BddInv, ThreadsInv
<1>2. CASE DelGivesUp(p) \/ DelFind(p)
  <2>1. \/ ioctl' = [ioctl EXCEPT ![p].pc = "done"] \/ ioctl' = [ioctl EXCEPT ![p] = Idle]
        \/ \E e : ioctl' = [ioctl EXCEPT ![p].pc = "mark", ![p].d = e]
    BY <1>2 DEF DelGivesUp, DelFind, Goes, Leaves
  <2>2. obj' = obj /\ list' = list
    BY <1>2 DEF DelGivesUp, DelFind
  <2> QED BY <1>1, <2>1, <2>2 DEF Idle, Thread
<1>3. CASE DelMark(p) \/ DelUnlink(p)
  <2>1. \/ ioctl' = [ioctl EXCEPT ![p].pc = "unlink"] \/ ioctl' = [ioctl EXCEPT ![p].pc = "queue"]
        \/ ioctl' = ioctl
    BY <1>3 DEF DelMark, DelUnlink, Goes, Breaks
  <2>2. /\ obj' = obj
        /\ list' = list \/ \E k \in 1..Len(list) : list[k] = ioctl[p].d /\ list' = RemoveAt(list, k)
    BY <1>3 DEF DelMark, DelUnlink, Breaks
  <2> QED BY <1>1, <2>1, <2>2 DEF Thread
<1>4. CASE \E s \in States : DelQueue(p, s)
  <2>1. ioctl' = [ioctl EXCEPT ![p].pc = "done"] \/ ioctl' = [ioctl EXCEPT ![p] = Idle]
    BY <1>4 DEF DelQueue, Goes, Leaves
  <2>2. obj' = obj /\ list' = list
    BY <1>4 DEF DelQueue
  <2> QED BY <1>1, <2>1, <2>2 DEF Idle, Thread
<1> QED BY <1>2, <1>3, <1>4 DEF DelPath

\* Requests and the clock know no names and unlink nothing.
LEMMA RequestsKeep ==
  ASSUME BddInv, Requests \/ Clock
  PROVE  NamesStay /\ UNCHANGED <<list, ioctl, status, oops, wpc>> /\ oops = "none"
<1>1. CASE Requests
  <2>1. PICK d \in Objects : Submit(d) \/ \E s \in States : Enqueue(d, s)
    BY <1>1 DEF Requests
  <2>2. CASE Submit(d)
    BY <2>2, FieldChanges DEF Submit, Quiet, workerVars, walk
  <2>3. CASE \E s \in States : Enqueue(d, s)
    BY <2>3, FieldChanges DEF Enqueue, Quiet, queue_w_task, walk
  <2> QED BY <2>1, <2>2, <2>3
<1>2. CASE Clock
  BY <1>2, FieldChanges DEF Clock, Tick, Quiet, bddVars, walk
<1> QED BY <1>1, <1>2

-----------------------------------------------------------------------------
(***************************************************************************)
(* Names.                                                                  *)
(***************************************************************************)
\* The list is shorter or the same, and no mount begins.
LEMMA NamesKept ==
  ASSUME BddInv, NamesInv, NamesStay,
         list' = list \/ \E k \in 1..Len(list) : list' = RemoveAt(list, k),
         \A p \in Callers :
           ioctl'[p].pc \in {"hook", "add"} =>
             ioctl[p].pc \in {"hook", "add"} /\ ioctl'[p].d = ioctl[p].d
  PROVE  NamesInv'
<1>1. /\ \A i \in 1..Len(list') : \E j \in 1..Len(list) : list'[i] = list[j]
      /\ \A i, j \in 1..Len(list') : list'[i] = list'[j] => i = j
  <2>1. CASE list' = list
    BY <2>1 DEF BddInv, OwnersInv
  <2>2. CASE \E k \in 1..Len(list) : list' = RemoveAt(list, k)
    BY <2>2, OneIsUnlinked
  <2> QED BY <2>1, <2>2
<1>2. \A i \in 1..Len(list) : list[i] \in Objects /\ obj'[list[i]].name = obj[list[i]].name
  BY ListedIsObject DEF NamesStay
<1>3. NamesUnique'
  <2>1. \A i, j \in 1..Len(list) : obj[list[i]].name = obj[list[j]].name => list[i] = list[j]
    BY DEF NamesInv, NamesUnique
  <2>2. \A i, j \in 1..Len(list') : obj'[list'[i]].name = obj'[list'[j]].name => list'[i] = list'[j]
    BY <1>1, <1>2, <2>1
  <2> QED BY <1>1, <2>2 DEF NamesUnique
<1>4. ASSUME NEW p \in Callers, ioctl'[p].pc \in {"hook", "add"}, NEW i \in 1..Len(list')
      PROVE  obj'[list'[i]].name # obj'[ioctl'[p].d].name
  <2>1. ioctl[p].pc \in {"hook", "add"} /\ ioctl'[p].d = ioctl[p].d
    BY <1>4
  <2>2. ioctl[p].d \in Objects /\ Mounting(ioctl[p].d)
    BY <2>1 DEF BddInv, ThreadsInv, Threads, Mounting
  <2>3. obj'[ioctl[p].d].name = obj[ioctl[p].d].name
    BY <2>2 DEF NamesStay
  <2>4. PICK j \in 1..Len(list) : list'[i] = list[j]
    BY <1>1
  <2> QED BY <1>2, <2>1, <2>3, <2>4 DEF NamesInv
<1> QED BY <1>3, <1>4 DEF NamesInv

\* One thread alone moves, to a place that is no mount.
LEMMA LeavesNoMount ==
  ASSUME BddInv, NEW p \in Callers, NEW x, ioctl' = [ioctl EXCEPT ![p] = x],
         x.pc \in {"hook", "add"} => ioctl[p].pc \in {"hook", "add"} /\ x.d = ioctl[p].d
  PROVE  \A q \in Callers :
           ioctl'[q].pc \in {"hook", "add"} =>
             ioctl[q].pc \in {"hook", "add"} /\ ioctl'[q].d = ioctl[q].d
<1>1. ioctl \in [Threads -> Thread] /\ Callers \subseteq Threads
  BY DEF BddInv, ThreadsInv, Threads
<1> QED BY <1>1

\* A process alone mounts under a name that is on the list, or on its way to
\* it, no more: it looks for the name, and nobody else mounts until its dysk is
\* listed (dysk_mount 480-487, dysk_add 272-280).
LEMMA CallerNames ==
  ASSUME OneCaller, BddInv, NamesInv, NEW p \in Callers, Caller(p)
  PROVE  NamesInv'
<1>1. /\ ioctl \in [Threads -> Thread] /\ p \in Threads /\ p # Kthread
      /\ obj \in [Objects -> Object] /\ list \in Seq(Objects) /\ Len(list) \in Nat
  BY BddParametersAssumption, LenProperties DEF BddInv, ThreadsInv, Threads, OtherTypes
<1>2. ASSUME NEW d \in Objects, NEW n \in Names, MountStart(p, d, n)
      PROVE  NamesInv'
  <2>1. /\ ~obj[d].alloc /\ dysk_exist(n) = None /\ list' = list
        /\ obj' = [obj EXCEPT ![d] = [Blank EXCEPT !.alloc = TRUE, !.name = n]]
        /\ ioctl' = [ioctl EXCEPT ![p] = [pc |-> "hook", name |-> n, d |-> d]]
    BY <1>2 DEF MountStart
  <2>2. /\ ioctl'[p].d = d /\ obj'[d].name = n
        /\ \A e \in Objects : e # d => obj'[e] = obj[e]
    BY <1>1, <2>1 DEF Blank
  <2>3. \A i \in 1..Len(list) : list[i] \in Objects /\ list[i] # d /\ obj[list[i]].name # n
    BY <2>1, ListedIsObject, FoundHasName
  <2>4. NamesUnique'
    BY <2>1, <2>2, <2>3 DEF NamesUnique, NamesInv
  <2>5. \A q \in Callers : q = p
    BY DEF OneCaller
  <2> QED BY <2>1, <2>2, <2>3, <2>4, <2>5 DEF NamesInv
<1>3. CASE MountHook(p)
  <2> DEFINE d == ioctl[p].d
             x == [ioctl[p] EXCEPT !.pc = "add"]
  <2>1. /\ list' = list /\ ioctl' = [ioctl EXCEPT ![p] = x] /\ ioctl[p].pc = "hook"
        /\ obj' = [obj EXCEPT ![d].slot = FirstFree, ![d].hooked = TRUE]
    BY <1>3 DEF MountHook, Goes
  <2>2. NamesStay
    BY <1>1, <2>1 DEF NamesStay, Object
  <2>3. x.pc \in {"hook", "add"} => ioctl[p].pc \in {"hook", "add"} /\ x.d = ioctl[p].d
    BY <1>1, <2>1 DEF Thread
  <2> HIDE DEF x
  <2> QED BY <2>1, <2>2, <2>3, LeavesNoMount, NamesKept
<1>4. CASE MountFails(p)
  <2> DEFINE d == ioctl[p].d
  <2>1. /\ list' = list /\ ioctl' = [ioctl EXCEPT ![p] = Idle] /\ ioctl[p].pc = "hook"
        /\ obj' = [obj EXCEPT ![d] = Blank]
    BY <1>4 DEF MountFails, Leaves
  <2>2. Holding(p) /\ ~Listed(d)
    BY <1>1, <2>1, HolderAlone DEF Holding
  <2>3. \A e \in Objects : e # d => obj'[e] = obj[e]
    BY <2>1
  <2>4. \A i \in 1..Len(list) : list[i] \in Objects /\ obj'[list[i]] = obj[list[i]]
    BY <2>2, <2>3, ListedIsObject
  <2>5. \A q \in Callers : q = p /\ ioctl'[q].pc = "idle"
    BY <1>1, <2>1 DEF OneCaller, Idle
  <2> QED BY <2>1, <2>4, <2>5 DEF NamesInv, NamesUnique
<1>5. CASE MountAdd(p)
  <2> DEFINE d == ioctl[p].d
             x == [ioctl[p] EXCEPT !.pc = "reply"]
  <2>1. /\ list' = <<d>> \o list /\ ioctl' = [ioctl EXCEPT ![p] = x] /\ ioctl[p].pc = "add"
        /\ obj' = obj
    BY <1>5 DEF MountAdd, Goes
  <2>2. d \in Objects /\ Holding(p)
    BY <1>1, <2>1, HolderAlone DEF Holding
  <2>3. /\ Len(list') = Len(list) + 1
        /\ \A i \in 1..Len(list') : list'[i] = IF i = 1 THEN d ELSE list[i - 1]
    <3>1. <<d>> \in Seq(Objects) /\ Len(<<d>>) = 1 /\ <<d>>[1] = d
      BY <2>2
    <3> QED BY <1>1, <2>1, <3>1, ConcatProperties
  <2>4. \A i \in 1..Len(list') : i # 1 => i - 1 \in 1..Len(list) /\ list'[i] = list[i - 1]
    BY <1>1, <2>3
  <2>5. \A i \in 1..Len(list) : obj[list[i]].name # obj[d].name
    BY <2>1 DEF NamesInv
  <2>6. NamesUnique'
    <3>1. SUFFICES ASSUME NEW i \in 1..Len(list'), NEW j \in 1..Len(list'),
                          obj[list'[i]].name = obj[list'[j]].name
                   PROVE  i = j
      BY <2>1 DEF NamesUnique
    <3>2. CASE i = 1 /\ j = 1
      BY <3>2
    <3>3. CASE i = 1 /\ j # 1
      BY <1>1, <2>3, <2>4, <2>5, <3>1, <3>3
    <3>4. CASE i # 1 /\ j = 1
      BY <1>1, <2>3, <2>4, <2>5, <3>1, <3>4
    <3>5. CASE i # 1 /\ j # 1
      <4>1. /\ i - 1 \in 1..Len(list) /\ j - 1 \in 1..Len(list)
            /\ obj[list[i - 1]].name = obj[list[j - 1]].name
        BY <2>4, <3>1, <3>5
      <4>2. \A k, m \in 1..Len(list) : obj[list[k]].name = obj[list[m]].name => k = m
        BY DEF NamesInv, NamesUnique
      <4>3. i - 1 = j - 1
        BY <4>1, <4>2
      <4> QED BY <1>1, <2>3, <4>3
    <3> QED BY <3>2, <3>3, <3>4, <3>5
  <2>7. \A q \in Callers : q = p /\ ioctl'[q].pc = "reply"
    BY <1>1, <2>1 DEF OneCaller, Thread
  <2> QED BY <2>6, <2>7 DEF NamesInv
<1>6. CASE Reply(p) \/ \E n \in Names : Unmount(p, n) \/ DyskGet(p, n)
  <2>1. /\ list' = list /\ obj' = obj
        /\ \/ ioctl' = ioctl
           \/ \E x \in {[pc |-> "find", name |-> n, d |-> None] : n \in Names}
                       \cup {[pc |-> "get", name |-> n, d |-> dysk_exist(n)] : n \in Names}
                       \cup {Idle} : ioctl' = [ioctl EXCEPT ![p] = x]
    BY <1>6 DEF Reply, Unmount, DyskGet, Breaks, Leaves
  <2>2. NamesStay
    BY <2>1 DEF NamesStay
  <2>3. CASE ioctl' = ioctl
    BY <2>1, <2>2, <2>3, NamesKept
  <2>4. ASSUME NEW x, x.pc \notin {"hook", "add"}, ioctl' = [ioctl EXCEPT ![p] = x]
        PROVE  NamesInv'
    BY <2>1, <2>2, <2>4, LeavesNoMount, NamesKept
  <2> QED BY <2>1, <2>3, <2>4 DEF Idle
<1>7. CASE DelPath(p)
  <2>1. /\ obj' = obj
        /\ list' = list \/ \E k \in 1..Len(list) : list' = RemoveAt(list, k)
        /\ \A q \in Threads : q # p => ioctl'[q] = ioctl[q]
        /\ ioctl'[p] = ioctl[p] \/ ioctl'[p].pc \notin {"hook", "add"}
    BY <1>1, <1>7, DelPathKeeps
  <2>2. NamesStay
    BY <2>1 DEF NamesStay
  <2>3. \A q \in Callers : q \in Threads
    BY DEF Threads
  <2>4. \A q \in Callers :
          ioctl'[q].pc \in {"hook", "add"} =>
            ioctl[q].pc \in {"hook", "add"} /\ ioctl'[q].d = ioctl[q].d
    BY <2>1, <2>3
  <2> QED BY <2>1, <2>2, <2>4, NamesKept
<1> QED BY <1>2, <1>3, <1>4, <1>5, <1>6, <1>7 DEF Caller

\* With one process every step keeps the names apart.
LEMMA NamesStep ==
  ASSUME OneCaller, BddInv, NamesInv, [BddNext]_vars
  PROVE  NamesInv'
<1>1. CASE WorkerAlone
  <2>1. list' = list /\ NamesStay /\ \A p \in Callers : ioctl'[p] = ioctl[p]
    BY <1>1, WorkerAloneKeeps
  <2> QED BY <2>1, NamesKept
<1>2. CASE DelPath(Kthread)
  <2>1. Kthread \in Threads /\ \A q \in Callers : q \in Threads /\ q # Kthread
    BY BddParametersAssumption DEF Threads
  <2>2. /\ obj' = obj
        /\ list' = list \/ \E k \in 1..Len(list) : list' = RemoveAt(list, k)
        /\ \A q \in Callers : ioctl'[q] = ioctl[q]
    BY <1>2, <2>1, DelPathKeeps
  <2>3. NamesStay
    BY <2>2 DEF NamesStay
  <2> QED BY <2>2, <2>3, NamesKept
<1>3. CASE \E p \in Callers : Caller(p)
  BY <1>3, CallerNames
<1>4. CASE Requests \/ Clock
  BY <1>4, RequestsKeep, NamesKept
<1>5. CASE UNCHANGED vars
  BY <1>5, NamesKept DEF vars, bddVars, NamesStay
<1> QED BY <1>1, <1>2, <1>3, <1>4, <1>5 DEF BddNext, BddWorker, WorkerAlone

LEMMA NamesHold ==
  ASSUME OneCaller
  PROVE  BddSpec => []NamesInv
<1>1. BddInit => NamesInv
  <2>1. BddInit => list = <<>> /\ \A p \in Callers : ioctl[p].pc = "idle"
    BY DEF BddInit, Threads, Idle
  <2> QED BY <2>1, EmptySeq DEF NamesInv, NamesUnique
<1>2. BddInv /\ NamesInv /\ [BddNext]_vars => NamesInv'
  BY NamesStep
<1> QED BY <1>1, <1>2, BddInvariance, PTL DEF BddSpec

\* With one process no two dysks of the list have one name, whatever fails and
\* is deleted: it takes two to break that (ioctl_cmds.md 24, dysk_mount
\* 480-487).
THEOREM OneCallerKeepsNames ==
  ASSUME OneCaller
  PROVE  BddSpec => []NamesUnique
<1>1. NamesInv => NamesUnique
  BY DEF NamesInv
<1> QED BY <1>1, NamesHold, PTL

-----------------------------------------------------------------------------
(***************************************************************************)
(* Before the first failure.                                               *)
(***************************************************************************)
LiveNext == LiveWorker \/ LiveEnvironment

\* The history variables see steps, and add none.
LEMMA LiveIsBdd ==
  ASSUME LiveNext
  PROVE  BddNext
  BY DEF LiveNext, LiveWorker, LiveEnvironment, BddNext

\* A process alone takes only its own dysk off the list: the one it reads or
\* deletes is on it until it does.
LEMMA CallerAlone ==
  ASSUME OneCaller, BddInv, AloneInv, ~someFailed, NEW p \in Callers, Caller(p)
  PROVE  /\ oops' = "none" /\ wpc' # "catastrophe"
         /\ \A q \in Callers :
              ioctl'[q].pc \in {"mark", "unlink", "reply", "get"} => Listed(ioctl[q].d)'
<1>1. /\ ioctl \in [Threads -> Thread] /\ p \in Threads /\ p # Kthread
      /\ list \in Seq(Objects) /\ Len(list) \in Nat
      /\ \A q \in Callers : q = p
  BY BddParametersAssumption, LenProperties DEF BddInv, ThreadsInv, Threads, OtherTypes, OneCaller
<1>2. /\ oops = "none" /\ wpc # "catastrophe"
      /\ ioctl[p].pc \in {"mark", "unlink", "reply", "get"} => Listed(ioctl[p].d)
  BY DEF AloneInv
<1>3. Listed(ioctl[p].d) => obj[ioctl[p].d].alloc
  BY ListedIsObject DEF Listed
<1>4. SUFFICES /\ oops' = "none" /\ wpc' # "catastrophe"
               /\ ioctl'[p].pc \in {"mark", "unlink", "reply", "get"} => Listed(ioctl[p].d)'
  BY <1>1
<1>5. ASSUME UNCHANGED workerVars \/ (\E d : Renew(d) \/ MarkDeleting(d)), oops' = oops,
             ioctl'[p].pc \notin {"mark", "unlink", "reply", "get"}
      PROVE  /\ oops' = "none" /\ wpc' # "catastrophe"
             /\ ioctl'[p].pc \in {"mark", "unlink", "reply", "get"} => Listed(ioctl[p].d)'
  BY <1>2, <1>5 DEF workerVars, walk, Renew, MarkDeleting
<1>6. CASE \/ \E d \in Objects, n \in Names : MountStart(p, d, n)
           \/ MountHook(p) \/ MountFails(p)
  <2>1. UNCHANGED workerVars \/ \E d : Renew(d) \/ MarkDeleting(d)
    BY <1>6 DEF MountStart, MountHook, MountFails, TakeSlot, workerVars
  <2>2. oops' = oops
    BY <1>6 DEF MountStart, MountHook, MountFails, Quiet
  <2>3. \E x : ioctl' = [ioctl EXCEPT ![p] = x] /\ x.pc \in {"hook", "add", "idle"}
    <3>1. CASE \E d \in Objects, n \in Names : MountStart(p, d, n)
      <4>1. PICK d \in Objects, n \in Names :
              ioctl' = [ioctl EXCEPT ![p] = [pc |-> "hook", name |-> n, d |-> d]]
        BY <3>1 DEF MountStart
      <4>2. [pc |-> "hook", name |-> n, d |-> d].pc = "hook"
        OBVIOUS
      <4> QED BY <4>1, <4>2
    <3>2. CASE MountHook(p)
      <4>1. ioctl' = [ioctl EXCEPT ![p] = [ioctl[p] EXCEPT !.pc = "add"]]
        BY <3>2 DEF MountHook, Goes
      <4>2. [ioctl[p] EXCEPT !.pc = "add"].pc = "add"
        BY <1>1 DEF Thread
      <4> QED BY <4>1, <4>2
    <3>3. CASE MountFails(p)
      <4>1. ioctl' = [ioctl EXCEPT ![p] = Idle] /\ Idle.pc = "idle"
        BY <3>3 DEF MountFails, Leaves, Idle
      <4> QED BY <4>1
    <3> QED BY <1>6, <3>1, <3>2, <3>3
  <2>4. ioctl'[p].pc \notin {"mark", "unlink", "reply", "get"}
    BY <1>1, <2>3
  <2> QED BY <1>5, <2>1, <2>2, <2>4
<1>7. CASE MountAdd(p)
  <2>1. /\ list' = <<ioctl[p].d>> \o list /\ ioctl[p].pc = "add" /\ oops' = oops /\ wpc' = wpc
        /\ ioctl' = [ioctl EXCEPT ![p].pc = "reply"]
    BY <1>7 DEF MountAdd, Goes, Quiet, workerVars, walk
  <2>2. ioctl'[p].d = ioctl[p].d /\ ioctl[p].d \in Objects
    BY <1>1, <2>1 DEF Thread, BddInv, ThreadsInv
  <2>3. 1 \in 1..Len(list') /\ list'[1] = ioctl[p].d
    <3>1. <<ioctl[p].d>> \in Seq(Objects) /\ Len(<<ioctl[p].d>>) = 1 /\ <<ioctl[p].d>>[1] = ioctl[p].d
      BY <2>2
    <3> QED BY <1>1, <2>1, <3>1, ConcatProperties
  <2> QED BY <1>2, <2>1, <2>2, <2>3 DEF Listed
<1>8. CASE Reply(p)
  <2>1. ioctl[p].pc \in {"reply", "get"}
    BY <1>8 DEF Reply
  <2>2. /\ Quiet /\ ioctl' = [ioctl EXCEPT ![p] = Idle] /\ UNCHANGED workerVars
    BY <1>2, <1>3, <1>8, <2>1 DEF Reply, Leaves
  <2>3. ioctl'[p].pc = "idle"
    BY <1>1, <2>2 DEF Idle
  <2> QED BY <1>5, <2>2, <2>3 DEF Quiet
<1>9. CASE \E n \in Names : Unmount(p, n)
  <2>1. /\ oops' = oops /\ UNCHANGED workerVars /\ ioctl'[p].pc = "find"
    BY <1>1, <1>9 DEF Unmount, Quiet
  <2> QED BY <1>5, <2>1
<1>10. CASE \E n \in Names : DyskGet(p, n)
  <2>1. PICK n \in Names : DyskGet(p, n)
    BY <1>10
  <2>2. /\ oops' = oops /\ wpc' = wpc /\ list' = list
        /\ dysk_exist(n) # None /\ ioctl'[p].d = dysk_exist(n)
    BY <1>1, <2>1 DEF DyskGet, Quiet, workerVars, walk
  <2>3. Listed(dysk_exist(n))
    BY <2>2, FoundIsListed
  <2> QED BY <1>2, <2>2, <2>3 DEF Listed
<1>11. CASE DelGivesUp(p)
  <2>1. /\ oops' = oops /\ UNCHANGED workerVars /\ ioctl'[p].pc = "idle"
    BY <1>1, <1>11 DEF DelGivesUp, Quiet, Leaves, Idle
  <2> QED BY <1>5, <2>1
<1>12. CASE DelFind(p)
  <2> DEFINE e == dysk_exist(ioctl[p].name)
  <2>1. /\ oops' = oops /\ wpc' = wpc /\ list' = list /\ e # None
        /\ ioctl' = [ioctl EXCEPT ![p].pc = "mark", ![p].d = e]
    BY <1>12 DEF DelFind, Quiet, workerVars, walk
  <2>2. ioctl'[p].d = e
    BY <1>1, <2>1 DEF Thread
  <2>3. Listed(e)
    BY <2>1, FoundIsListed
  <2> QED BY <1>2, <2>1, <2>2, <2>3 DEF Listed
<1>13. CASE DelMark(p)
  <2>1. ioctl[p].pc = "mark"
    BY <1>13 DEF DelMark
  <2>2. /\ oops' = oops /\ MarkDeleting(ioctl[p].d) /\ list' = list
        /\ ioctl' = [ioctl EXCEPT ![p].pc = "unlink"]
    BY <1>2, <1>3, <1>13, <2>1 DEF DelMark, Quiet, Goes
  <2>3. ioctl'[p].d = ioctl[p].d
    BY <1>1, <2>2 DEF Thread
  <2> QED BY <1>2, <2>1, <2>2, <2>3 DEF Listed, MarkDeleting, walk
<1>14. CASE DelUnlink(p)
  <2>1. ioctl[p].pc = "unlink"
    BY <1>14 DEF DelUnlink
  <2>2. oops' = oops /\ UNCHANGED workerVars /\ ioctl' = [ioctl EXCEPT ![p].pc = "queue"]
    BY <1>2, <1>14, <2>1 DEF DelUnlink, Quiet, Goes
  <2>3. ioctl'[p].pc = "queue"
    BY <1>1, <2>2 DEF Thread
  <2> QED BY <1>5, <2>2, <2>3
<1>15. CASE \E s \in States : DelQueue(p, s)
  <2>1. oops' = oops /\ wpc' = wpc /\ ioctl'[p].pc = "idle"
    BY <1>1, <1>15 DEF DelQueue, Quiet, Leaves, Idle, queue_w_task, walk
  <2> QED BY <1>2, <2>1
<1> QED BY <1>6, <1>7, <1>8, <1>9, <1>10, <1>11, <1>12, <1>13, <1>14, <1>15 DEF Caller, DelPath

\* Before the first failure the worker's thread stays out of
\* dysk_catastrophe(): entering it is the failure.
LEMMA WorkerUnfailed ==
  ASSUME BddInv, wpc # "catastrophe", BddWorker, ~(wpc = "exec" /\ wpc' = "catastrophe")
  PROVE  WorkerAlone /\ wpc' # "catastrophe"
<1>1. ioctl[Kthread].pc = "idle"
  BY DEF BddInv, ThreadsInv, Idle
<1>2. ~DelPath(Kthread)
  BY <1>1 DEF DelPath, DelGivesUp, DelFind, DelMark, DelUnlink, DelQueue
<1>3. WorkerAlone
  BY <1>2 DEF BddWorker, WorkerAlone
<1>4. wpc' # "catastrophe"
  <2>1. CASE WorkerMoves \/ Dropped
    <3>1. CASE BeginPass \/ StartExec
      BY <3>1 DEF BeginPass, StartExec
    <3>2. CASE Yield
      BY <3>2 DEF Yield, workerVars, walk
    <3>3. CASE SkipThrottled \/ Stay \/ Cancel \/ Expire
      <4>1. \E p : GoTo(p)
        BY <3>3 DEF SkipThrottled, Stay, Cancel, Expire, Keep, Dequeue
      <4> QED BY <4>1 DEF GoTo
    <3> QED BY <2>1, <3>1, <3>2, <3>3 DEF WorkerMoves, Dropped
  <2>2. CASE CatastropheOver
    BY <2>2 DEF CatastropheOver, CatastropheReturn
  <2>3. CASE \/ DelAgain \/ DelTeardown \/ DelFree
             \/ TransferRetry \/ TransferGoesOn \/ TransferEnds \/ TransferFails
    <3>1. wpc = "exec"
      BY <2>3 DEF DelAgain, DelTeardown, DelFree, Deleting, TransferRetry, TransferGoesOn,
                  TransferEnds, TransferFails, Transferring
    <3> QED BY <3>1
  <2> QED BY <1>3, <2>1, <2>2, <2>3 DEF WorkerAlone
<1> QED BY <1>3, <1>4

\* Nothing goes wrong before a dysk fails.
LEMMA AloneStep ==
  ASSUME OneCaller, BddInv, AloneInv, LiveNext
  PROVE  AloneInv'
<1>1. SUFFICES ASSUME ~someFailed'
               PROVE  AloneInv'
  BY DEF AloneInv
<1>2. ~someFailed
  BY <1>1 DEF LiveNext, LiveWorker, LiveEnvironment
<1>3. /\ oops = "none" /\ wpc # "catastrophe"
      /\ \A p \in Callers : ioctl[p].pc \in {"mark", "unlink", "reply", "get"} => Listed(ioctl[p].d)
  BY <1>2 DEF AloneInv
<1>4. CASE LiveWorker
  <2>1. BddWorker /\ ~(wpc = "exec" /\ wpc' = "catastrophe")
    BY <1>1, <1>4 DEF LiveWorker
  <2>2. WorkerAlone /\ wpc' # "catastrophe"
    BY <1>3, <2>1, WorkerUnfailed
  <2>3. list' = list /\ oops' = oops /\ \A p \in Callers : ioctl'[p] = ioctl[p]
    BY <2>2, WorkerAloneKeeps
  <2> QED BY <1>3, <2>2, <2>3 DEF AloneInv, Listed
<1>5. CASE \E p \in Callers : Caller(p)
  BY <1>2, <1>5, CallerAlone DEF AloneInv
<1>6. CASE Requests \/ Clock
  <2>1. UNCHANGED <<list, ioctl, oops, wpc>>
    BY <1>6, RequestsKeep
  <2> QED BY <1>3, <2>1 DEF AloneInv, Listed
<1> QED BY <1>4, <1>5, <1>6 DEF LiveNext, LiveEnvironment

\* The steps of the run with history variables are steps of the life cycle.
LEMMA LiveImplementsBdd == FairBddSpec => BddSpec
<1>1. LiveInit => BddInit
  BY DEF LiveInit
<1>2. [LiveWorker \/ LiveEnvironment]_liveVars => [BddNext]_vars
  BY LiveIsBdd DEF LiveNext, liveVars
<1> QED BY <1>1, <1>2, PTL DEF FairBddSpec, BddSpec

\* A process alone never uses a dysk that was freed and never unlinks one that
\* is off the list, however it mounts, unmounts and looks, before a dysk
\* fails (dysk_mount 509, dysk_get, dysk_del 226-244).
THEOREM OneCallerIsSafe ==
  ASSUME OneCaller
  PROVE  FairBddSpec => []MisuseNeedsFailure
<1>1. LiveInit => AloneInv
  <2>1. LiveInit => oops = "none" /\ wpc = "pass" /\ \A p \in Callers : ioctl[p].pc = "idle"
    BY DEF LiveInit, BddInit, Init, Threads, Idle
  <2> QED BY <2>1 DEF AloneInv
<1>2. BddInv /\ AloneInv /\ [LiveWorker \/ LiveEnvironment]_liveVars => AloneInv'
  <2>1. ASSUME BddInv, AloneInv, LiveNext
        PROVE  AloneInv'
    BY <2>1, AloneStep
  <2>2. ASSUME AloneInv, UNCHANGED liveVars
        PROVE  AloneInv'
    BY <2>2 DEF AloneInv, Listed, liveVars, vars, bddVars, workerVars, walk
  <2> QED BY <2>1, <2>2 DEF LiveNext
<1>3. AloneInv => MisuseNeedsFailure
  BY DEF AloneInv, MisuseNeedsFailure
<1> QED BY <1>1, <1>2, <1>3, LiveImplementsBdd, BddInvariance, PTL DEF FairBddSpec


-----------------------------------------------------------------------------
(***************************************************************************)
(* After a failure.                                                        *)
(***************************************************************************)
Failed(d) == status[d] = "CATASTROPHE"

\* Only the worker's thread fails a dysk, and it was in no deletion.
NoneFails == \A d \in Objects : Failed(d)' => Failed(d)

\* A dysk that can be found or is being mounted has memory: it is not taken for
\* another one.
LEMMA EarlyStays ==
  ASSUME BddInv, early' = {d \in early : obj'[d].alloc => obj[d].alloc}, NEW d \in early,
         Listed(d) \/ Mounting(d)
  PROVE  d \in early'
<1>1. obj[d].alloc
  <2>1. CASE Listed(d)
    BY <2>1, ListedIsObject DEF Listed
  <2>2. CASE Mounting(d)
    BY <2>2 DEF Mounting, BddInv, WholeInv, Threads
  <2> QED BY <2>1, <2>2
<1> QED BY <1>1

\* A mount that goes on is of the same dysk.
MountsGoOn ==
  \A p \in Callers :
    ioctl'[p].pc \in {"hook", "add"} =>
      /\ ioctl[p].pc \in {"hook", "add"} /\ ioctl'[p].d = ioctl[p].d
      /\ ioctl[p].pc = "add" => ioctl'[p].pc = "add"

LEMMA MountingKept ==
  ASSUME BddInv, MountingInv, NoneFails, MountsGoOn,
         \A d \in early : Mounting(d) => d \in early'
  PROVE  MountingInv'
<1>1. SUFFICES ASSUME NEW p \in Callers, ioctl'[p].pc \in {"hook", "add"},
                      status'[ioctl'[p].d] = "CATASTROPHE"
               PROVE  ioctl'[p].pc = "add" /\ ioctl'[p].d \in early'
  BY DEF MountingInv
<1>2. /\ ioctl[p].pc \in {"hook", "add"} /\ ioctl'[p].d = ioctl[p].d
      /\ ioctl[p].pc = "add" => ioctl'[p].pc = "add"
  BY <1>1 DEF MountsGoOn
<1>3. ioctl[p].d \in Objects /\ Mounting(ioctl[p].d)
  BY <1>2 DEF BddInv, ThreadsInv, Threads, Mounting
<1>4. status[ioctl[p].d] = "CATASTROPHE"
  BY <1>1, <1>2, <1>3 DEF NoneFails, Failed
<1> QED BY <1>1, <1>2, <1>3, <1>4 DEF MountingInv

LEMMA FailedKept ==
  ASSUME FailedIsBeingDeleted, NoneFails, oops = "none",
         ioctl'[Kthread] = ioctl[Kthread],
         \A d \in Objects : Listed(d)' => Listed(d) /\ obj'[d].name = obj[d].name,
         \A d \in early : Listed(d) => d \in early'
  PROVE  FailedIsBeingDeleted'
<1>1. SUFFICES ASSUME NEW d \in Objects, d \notin early', Listed(d)', Failed(d)'
               PROVE  \/ ioctl'[Kthread].pc = "find" /\ ioctl'[Kthread].name = obj'[d].name
                      \/ ioctl'[Kthread].pc \in {"mark", "unlink"} /\ ioctl'[Kthread].d = d
  BY DEF FailedIsBeingDeleted, Failed
<1>2. Listed(d) /\ obj'[d].name = obj[d].name /\ d \notin early /\ Failed(d)
  BY <1>1 DEF NoneFails
<1> QED BY <1>2 DEF FailedIsBeingDeleted, Failed


\* The worker that fails no dysk and leaves dysk_catastrophe() only when its
\* dysk is off the list keeps what is said of the failed ones.
LEMMA WorkerKeepsFailed ==
  ASSUME BddInv, FailedInv, LiveWorker, WorkerAlone, ~TransferFails
  PROVE  FailedInv'
<1>1. /\ list' = list /\ oops = "none" /\ NamesStay
      /\ \A p \in Callers : ioctl'[p] = ioctl[p]
  BY WorkerAloneKeeps
<1>2. status' = status
  BY DEF WorkerAlone, WorkerMoves, Dropped, CatastropheOver, DelAgain, DelTeardown, DelFree, FreeNow,
         TransferRetry, TransferGoesOn, TransferEnds, BeginPass, Yield, SkipThrottled, StartExec, Stay,
         Cancel, Expire, CatastropheReturn, ExecRetry, ExecDone, ExecThrottle, workerVars
<1>3. \A d \in early : d \in early'
  BY DEF LiveWorker
<1>4. NoneFails
  BY <1>2 DEF NoneFails, Failed
<1>5. MountingInv'
  BY <1>1, <1>3, <1>4, MountingKept DEF FailedInv, MountsGoOn
<1>6. \A d \in Objects : Listed(d)' => Listed(d) /\ obj'[d].name = obj[d].name
  BY <1>1 DEF Listed, NamesStay
<1>7. FailedIsBeingDeleted'
  <2>1. CASE CatastropheOver
    <3>1. ioctl[Kthread].pc = "done"
      BY <2>1 DEF CatastropheOver
    <3>2. \A d \in Objects \ early : ~(Listed(d) /\ Failed(d))
      BY <1>1, <3>1 DEF FailedInv, FailedIsBeingDeleted, Failed
    <3>3. \A d \in Objects \ early' : ~(Listed(d)' /\ Failed(d)')
      BY <1>3, <1>4, <1>6, <3>2 DEF NoneFails
    <3> QED BY <3>3 DEF FailedIsBeingDeleted, Failed
  <2>2. CASE ~CatastropheOver
    <3>1. ioctl' = ioctl
      BY <2>2 DEF WorkerAlone, WorkerMoves, Dropped, DelAgain, DelTeardown, DelFree,
                  TransferRetry, TransferGoesOn, TransferEnds, bddVars
    <3> QED BY <1>1, <1>3, <1>4, <1>6, <3>1, FailedKept DEF FailedInv
  <2> QED BY <2>1, <2>2
<1> QED BY <1>5, <1>7 DEF FailedInv

\* The dysk that fails is the only one, and is deleted by its name; if it is
\* not on the list yet it failed early (dysk_catastrophe 842-858).
LEMMA FailureIsDeleted ==
  ASSUME BddInv, FailedInv, LiveWorker, TransferFails
  PROVE  FailedInv'
<1> DEFINE c == Current.d
<1>1. /\ wpc = "exec" /\ wpc' = "catastrophe" /\ Current.fn # "del"
      /\ list' = list /\ obj' = obj /\ oops = "none"
      /\ status' = [status EXCEPT ![c] = "CATASTROPHE"]
      /\ ioctl' = [ioctl EXCEPT ![Kthread] = [pc |-> "find", name |-> obj[c].name, d |-> None]]
  BY DEF TransferFails, Transferring, ExecCatastrophe, Quiet
<1>2. early' = IF Adding(c) THEN early \cup {c} ELSE early
  BY <1>1 DEF LiveWorker
<1>3. /\ c \in Objects /\ obj[c].out \in 1..MaxRequests
  BY <1>1, TaskIsWaitedFor
<1>4. /\ ioctl \in [Threads -> Thread] /\ ioctl[Kthread].pc = "idle"
      /\ Kthread \in Threads /\ \A p \in Callers : p \in Threads /\ p # Kthread
  BY <1>1, BddParametersAssumption DEF BddInv, ThreadsInv, Idle, Threads
<1> HIDE DEF c
<1>5. /\ \A p \in Callers : ioctl'[p] = ioctl[p]
      /\ ioctl'[Kthread].pc = "find" /\ ioctl'[Kthread].name = obj[c].name
  BY <1>1, <1>4
<1>6. \A d : (d # c /\ status'[d] = "CATASTROPHE") => status[d] = "CATASTROPHE"
  BY <1>1 DEF BddInv
<1>7. MountingInv'
  <2>1. SUFFICES ASSUME NEW p \in Callers, ioctl[p].pc \in {"hook", "add"},
                        status'[ioctl[p].d] = "CATASTROPHE"
                 PROVE  ioctl[p].pc = "add" /\ ioctl[p].d \in early'
    BY <1>5 DEF MountingInv
  <2>2. CASE ioctl[p].d = c
    <3>1. ioctl[p].pc # "hook"
      BY <1>3, <1>4, <2>2 DEF BddInv, WholeInv
    <3> QED BY <1>2, <2>1, <2>2, <3>1 DEF Adding
  <2>3. CASE ioctl[p].d # c
    BY <1>2, <1>6, <2>1, <2>3 DEF FailedInv, MountingInv
  <2> QED BY <2>2, <2>3
<1>8. FailedIsBeingDeleted'
  <2>1. SUFFICES ASSUME NEW d \in Objects, d \notin early', Listed(d), status'[d] = "CATASTROPHE"
                 PROVE  ioctl'[Kthread].pc = "find" /\ ioctl'[Kthread].name = obj[d].name
    BY <1>1 DEF FailedIsBeingDeleted, Listed
  <2>2. CASE d # c
    BY <1>1, <1>2, <1>4, <1>6, <2>1, <2>2 DEF FailedInv, FailedIsBeingDeleted
  <2> QED BY <1>5, <2>2
<1> QED BY <1>7, <1>8 DEF FailedInv

\* The thread that failed a dysk finds that one by its name, marks it and takes
\* it off the list (dysk_del 226-244).
LEMMA KthreadKeepsFailed ==
  ASSUME BddInv, NamesInv, FailedInv, LiveWorker, DelPath(Kthread)
  PROVE  FailedInv'
<1>1. /\ Kthread \in Threads /\ \A p \in Callers : p \in Threads /\ p # Kthread
      /\ ioctl \in [Threads -> Thread] /\ status \in [Dysks -> Statuses]
  BY BddParametersAssumption, IInvParts DEF Threads, BddInv, ThreadsInv, FieldsInv
<1>2. /\ obj' = obj /\ \A p \in Callers : ioctl'[p] = ioctl[p]
      /\ list' = list \/ \E k \in 1..Len(list) : list[k] = ioctl[Kthread].d /\ list' = RemoveAt(list, k)
  BY <1>1, DelPathKeeps
<1>3. \A d : Listed(d)' => Listed(d)
  BY <1>2, OneIsUnlinked DEF Listed
<1>4. \A d \in early : d \in early'
  BY DEF LiveWorker
<1>5. NoneFails
  <2>1. status' = status \/ \E d : status' = [status EXCEPT ![d] = "DELETING"]
    BY DEF DelPath, DelGivesUp, DelFind, DelMark, DelUnlink, DelQueue, Breaks, MarkDeleting,
           queue_w_task, workerVars
  <2> QED BY <1>1, <2>1, NoneIsNoDysk DEF NoneFails, Failed
<1>6. MountingInv'
  BY <1>2, <1>4, <1>5, MountingKept DEF FailedInv, MountsGoOn
<1>7. FailedIsBeingDeleted'
  <2>1. SUFFICES ASSUME NEW d \in Objects, d \notin early', oops' = "none", Listed(d)', Failed(d)'
                 PROVE  \/ ioctl'[Kthread].pc = "find" /\ ioctl'[Kthread].name = obj[d].name
                        \/ ioctl'[Kthread].pc \in {"mark", "unlink"} /\ ioctl'[Kthread].d = d
    BY <1>2 DEF FailedIsBeingDeleted, Failed
  <2>2. Listed(d) /\ Failed(d) /\ d \notin early /\ d # None /\ obj[d].alloc
    BY <1>3, <1>4, <1>5, <2>1, ListedIsObject DEF NoneFails, Listed
  <2>3. oops = "none"
    BY DEF DelPath, DelGivesUp, DelFind, DelMark, DelUnlink, DelQueue, Quiet, Breaks
  <2>4. \/ ioctl[Kthread].pc = "find" /\ ioctl[Kthread].name = obj[d].name
        \/ ioctl[Kthread].pc \in {"mark", "unlink"} /\ ioctl[Kthread].d = d
    BY <2>2, <2>3 DEF FailedInv, FailedIsBeingDeleted, Failed
  <2>5. CASE ioctl[Kthread].pc = "find"
    <3>1. dysk_exist(ioctl[Kthread].name) = d
      BY <2>2, <2>4, <2>5, FoundByName DEF NamesInv
    <3>2. ioctl' = [ioctl EXCEPT ![Kthread].pc = "mark", ![Kthread].d = d]
      BY <2>2, <2>5, <3>1 DEF DelPath, DelGivesUp, DelFind, DelMark, DelUnlink, DelQueue
    <3> QED BY <1>1, <3>2 DEF Thread
  <2>6. CASE ioctl[Kthread].pc = "mark"
    <3>1. DelMark(Kthread) /\ ioctl[Kthread].d = d
      BY <2>4, <2>6 DEF DelPath, DelGivesUp, DelFind, DelMark, DelUnlink, DelQueue
    <3>2. MarkDeleting(d)
      BY <2>2, <2>3, <3>1 DEF DelMark
    <3>3. status'[d] = "DELETING"
      BY <1>1, <3>2, NoneIsNoDysk DEF MarkDeleting
    <3> QED BY <2>1, <3>3 DEF Failed
  <2>7. CASE ioctl[Kthread].pc = "unlink"
    <3>1. DelUnlink(Kthread) /\ ioctl[Kthread].d = d
      BY <2>4, <2>7 DEF DelPath, DelGivesUp, DelFind, DelMark, DelUnlink, DelQueue
    <3>2. PICK k \in 1..Len(list) : list[k] = d /\ list' = RemoveAt(list, k)
      BY <2>2, <3>1 DEF DelUnlink
    <3>3. ~Listed(d)'
      BY <3>2, OneIsUnlinked
    <3> QED BY <2>1, <3>3
  <2> QED BY <2>4, <2>5, <2>6, <2>7
<1> QED BY <1>6, <1>7 DEF FailedInv


\* No caller fails a dysk: a mount renews one, and a deletion or a slot past the
\* array marks one as being deleted.
LEMMA CallersFailNothing ==
  ASSUME BddInv, NEW p \in Callers, Caller(p)
  PROVE  NoneFails /\ oops = "none" /\ ioctl'[Kthread] = ioctl[Kthread]
<1>1. /\ ioctl \in [Threads -> Thread] /\ Kthread \in Threads /\ p # Kthread
      /\ status \in [Dysks -> Statuses]
  BY BddParametersAssumption, IInvParts DEF BddInv, ThreadsInv, FieldsInv, Threads
<1>2. status' = status \/ \E d : Renew(d) \/ MarkDeleting(d)
  BY DEF Caller, MountStart, MountHook, MountFails, MountAdd, Reply, Unmount, DyskGet, DelPath,
         DelGivesUp, DelFind, DelMark, DelUnlink, DelQueue, Breaks, TakeSlot, queue_w_task,
         workerVars
<1>3. NoneFails
  <2>1. \/ status' = status
        \/ \E d : status' = [status EXCEPT ![d] = "OK"] \/ status' = [status EXCEPT ![d] = "DELETING"]
    BY <1>2 DEF Renew, MarkDeleting
  <2> QED BY <1>1, <2>1, NoneIsNoDysk DEF NoneFails, Failed
<1>4. oops = "none"
  BY DEF Caller, MountStart, MountHook, MountFails, MountAdd, Reply, Unmount, DyskGet, DelPath,
         DelGivesUp, DelFind, DelMark, DelUnlink, DelQueue, Breaks, Quiet
<1>5. ioctl' = ioctl \/ \E x : ioctl' = [ioctl EXCEPT ![p] = x]
  BY DEF Caller, MountStart, MountHook, MountFails, MountAdd, Reply, Unmount, DyskGet, DelPath,
         DelGivesUp, DelFind, DelMark, DelUnlink, DelQueue, Breaks, Goes, Leaves
<1> QED BY <1>1, <1>3, <1>4, <1>5

\* A process mounts what has not failed, but for a dysk that failed early, and
\* what it takes off the list nobody finds (dysk_add 272-280, dysk_del 226-244).
LEMMA CallerKeepsFailed ==
  ASSUME OneCaller, BddInv, FailedInv, NEW p \in Callers, Caller(p),
         early' = {d \in early : obj'[d].alloc => obj[d].alloc}
  PROVE  FailedInv'
<1>1. /\ ioctl \in [Threads -> Thread] /\ p \in Threads /\ p # Kthread
      /\ obj \in [Objects -> Object] /\ list \in Seq(Objects) /\ Len(list) \in Nat
      /\ status \in [Dysks -> Statuses]
  BY BddParametersAssumption, LenProperties, IInvParts
     DEF BddInv, ThreadsInv, Threads, OtherTypes, FieldsInv
<1>2. NoneFails /\ oops = "none" /\ ioctl'[Kthread] = ioctl[Kthread]
  BY CallersFailNothing
<1>3. \A d \in early : (Listed(d) \/ Mounting(d)) => d \in early'
  BY EarlyStays
<1>4. \A q \in Callers : q = p
  BY DEF OneCaller
<1>5. ASSUME \A d \in Objects : Listed(d)' => Listed(d) /\ obj'[d].name = obj[d].name,
             MountsGoOn
      PROVE  FailedInv'
  BY <1>2, <1>3, <1>5, MountingKept, FailedKept DEF FailedInv
<1>6. ASSUME NEW d \in Objects, NEW n \in Names, MountStart(p, d, n)
      PROVE  FailedInv'
  <2>1. /\ ~obj[d].alloc /\ list' = list
        /\ obj' = [obj EXCEPT ![d] = [Blank EXCEPT !.alloc = TRUE, !.name = n]]
        /\ ioctl' = [ioctl EXCEPT ![p] = [pc |-> "hook", name |-> n, d |-> d]]
        /\ (status[d] = "OK" /\ status' = status) \/ Renew(d)
    BY <1>6 DEF MountStart, workerVars
  <2>2. ioctl'[p].d = d /\ \A e \in Objects : e # d => obj'[e] = obj[e]
    BY <1>1, <2>1
  <2>3. status'[d] = "OK"
    BY <1>1, <2>1, NoneIsNoDysk DEF Renew
  <2>4. MountingInv'
    BY <1>4, <2>2, <2>3 DEF MountingInv
  <2>5. \A e \in Objects : Listed(e)' => Listed(e) /\ obj'[e].name = obj[e].name
    BY <2>1, <2>2, ListedIsObject DEF Listed
  <2> QED BY <1>2, <1>3, <2>4, <2>5, FailedKept DEF FailedInv
<1>7. CASE MountHook(p)
  <2> DEFINE d == ioctl[p].d
  <2>1. /\ list' = list /\ ioctl' = [ioctl EXCEPT ![p].pc = "add"] /\ ioctl[p].pc = "hook"
        /\ obj' = [obj EXCEPT ![d].slot = FirstFree, ![d].hooked = TRUE]
    BY <1>7 DEF MountHook, Goes
  <2>2. \A e \in Objects : obj'[e].name = obj[e].name
    BY <1>1, <2>1 DEF Object
  <2>3. MountsGoOn
    BY <1>1, <1>4, <2>1 DEF MountsGoOn, Thread
  <2> QED BY <1>5, <2>1, <2>2, <2>3 DEF Listed
<1>8. CASE MountFails(p)
  <2> DEFINE d == ioctl[p].d
  <2>1. /\ list' = list /\ ioctl' = [ioctl EXCEPT ![p] = Idle] /\ ioctl[p].pc = "hook"
        /\ obj' = [obj EXCEPT ![d] = Blank]
    BY <1>8 DEF MountFails, Leaves
  <2>2. ~Listed(d)
    BY <1>1, <2>1, HolderAlone DEF Holding
  <2>3. \A e \in Objects : Listed(e)' => Listed(e) /\ obj'[e].name = obj[e].name
    BY <2>1, <2>2 DEF Listed
  <2>4. MountsGoOn
    BY <1>1, <1>4, <2>1 DEF MountsGoOn, Idle
  <2> QED BY <1>5, <2>3, <2>4
<1>9. CASE MountAdd(p)
  <2> DEFINE d == ioctl[p].d
  <2>1. /\ list' = <<d>> \o list /\ ioctl' = [ioctl EXCEPT ![p].pc = "reply"] /\ ioctl[p].pc = "add"
        /\ obj' = obj
    BY <1>9 DEF MountAdd, Goes
  <2>2. d \in Objects /\ Mounting(d)
    BY <1>1, <2>1, HolderAlone DEF Holding, Mounting
  <2>3. Failed(d) => d \in early'
    BY <1>3, <2>1, <2>2 DEF FailedInv, MountingInv, Failed
  <2>4. \A e \in Objects : Listed(e)' => Listed(e) \/ e = d
    <3>1. <<d>> \in Seq(Objects) /\ Len(<<d>>) = 1 /\ <<d>>[1] = d
      BY <2>2
    <3>2. /\ Len(list') = Len(list) + 1
          /\ \A i \in 1..Len(list') : list'[i] = IF i = 1 THEN d ELSE list[i - 1]
      BY <1>1, <2>1, <3>1, ConcatProperties
    <3>3. \A i \in 1..Len(list') : list'[i] # d => i - 1 \in 1..Len(list) /\ list'[i] = list[i - 1]
      BY <1>1, <3>2
    <3> QED BY <3>3 DEF Listed
  <2>5. MountingInv'
    BY <1>1, <1>4, <2>1 DEF MountingInv, Thread
  <2>6. FailedIsBeingDeleted'
    <3>1. SUFFICES ASSUME NEW e \in Objects, e \notin early', Listed(e)', Failed(e)'
                   PROVE  \/ ioctl'[Kthread].pc = "find" /\ ioctl'[Kthread].name = obj'[e].name
                          \/ ioctl'[Kthread].pc \in {"mark", "unlink"} /\ ioctl'[Kthread].d = e
      BY DEF FailedIsBeingDeleted, Failed
    <3>2. Failed(e)
      BY <1>2, <3>1 DEF NoneFails
    <3>3. Listed(e) /\ e \notin early
      BY <1>3, <2>3, <2>4, <3>1, <3>2
    <3> QED BY <1>2, <2>1, <3>2, <3>3 DEF FailedInv, FailedIsBeingDeleted, Failed
  <2> QED BY <2>5, <2>6 DEF FailedInv
<1>10. CASE Reply(p) \/ \E n \in Names : Unmount(p, n) \/ DyskGet(p, n)
  <2>1. /\ list' = list /\ obj' = obj
        /\ \/ ioctl' = ioctl
           \/ \E x \in {[pc |-> "find", name |-> n, d |-> None] : n \in Names}
                       \cup {[pc |-> "get", name |-> n, d |-> dysk_exist(n)] : n \in Names}
                       \cup {Idle} : ioctl' = [ioctl EXCEPT ![p] = x]
    BY <1>10 DEF Reply, Unmount, DyskGet, Breaks, Leaves
  <2>2. CASE ioctl' = ioctl
    BY <1>5, <2>1, <2>2 DEF Listed, MountsGoOn
  <2>3. ASSUME NEW x, x.pc \notin {"hook", "add"}, ioctl' = [ioctl EXCEPT ![p] = x]
        PROVE  FailedInv'
    <3>1. ioctl'[p].pc \notin {"hook", "add"}
      BY <1>1, <2>3
    <3> QED BY <1>4, <1>5, <2>1, <3>1 DEF Listed, MountsGoOn
  <2> QED BY <2>1, <2>2, <2>3 DEF Idle
<1>11. CASE DelPath(p)
  <2>1. /\ obj' = obj
        /\ list' = list \/ \E k \in 1..Len(list) : list' = RemoveAt(list, k)
        /\ ioctl'[p] = ioctl[p] \/ ioctl'[p].pc \notin {"hook", "add"}
    BY <1>1, <1>11, DelPathKeeps
  <2>2. \A d \in Objects : Listed(d)' => Listed(d)
    BY <2>1, OneIsUnlinked DEF Listed
  <2>3. MountsGoOn
    BY <1>4, <2>1 DEF MountsGoOn
  <2> QED BY <1>5, <2>1, <2>2, <2>3
<1> QED BY <1>6, <1>7, <1>8, <1>9, <1>10, <1>11 DEF Caller

\* Every step keeps what is said of the failed dysks.
LEMMA FailedStep ==
  ASSUME OneCaller, BddInv, NamesInv, FailedInv, LiveNext
  PROVE  FailedInv'
<1>1. CASE LiveWorker
  <2>1. CASE TransferFails
    BY <1>1, <2>1, FailureIsDeleted
  <2>2. CASE DelPath(Kthread)
    BY <1>1, <2>2, KthreadKeepsFailed
  <2>3. CASE WorkerAlone /\ ~TransferFails
    BY <1>1, <2>3, WorkerKeepsFailed
  <2>4. BddWorker
    BY <1>1 DEF LiveWorker
  <2> QED BY <2>1, <2>2, <2>3, <2>4 DEF BddWorker, WorkerAlone
<1>2. CASE LiveEnvironment
  <2>1. early' = {d \in early : obj'[d].alloc => obj[d].alloc}
    BY <1>2 DEF LiveEnvironment
  <2>2. CASE \E p \in Callers : Caller(p)
    BY <2>1, <2>2, CallerKeepsFailed
  <2>3. CASE Requests \/ Clock
    <3>1. NamesStay /\ UNCHANGED <<list, ioctl, status>> /\ oops = "none"
      BY <2>3, RequestsKeep
    <3>2. NoneFails /\ MountsGoOn
      BY <3>1 DEF NoneFails, Failed, MountsGoOn
    <3>3. \A d \in Objects : Listed(d)' => Listed(d) /\ obj'[d].name = obj[d].name
      BY <3>1 DEF Listed, NamesStay
    <3>4. \A d \in early : (Listed(d) \/ Mounting(d)) => d \in early'
      BY <2>1, EarlyStays
    <3> QED BY <3>1, <3>2, <3>3, <3>4, MountingKept, FailedKept DEF FailedInv
  <2> QED BY <1>2, <2>2, <2>3 DEF LiveEnvironment
<1> QED BY <1>1, <1>2 DEF LiveNext

\* A failed dysk that can be found is about to be deleted by the thread that
\* failed it, unless it failed before its mount listed it; and with one process
\* the deletion by name hits that dysk and no other (dysk_catastrophe 842-858,
\* dysk_del 226-244).
THEOREM FailedIsDeleted ==
  ASSUME OneCaller
  PROVE  FairBddSpec => []FailedIsBeingDeleted
<1>1. LiveInit => FailedInv
  <2>1. LiveInit => list = <<>> /\ \A p \in Callers : ioctl[p].pc = "idle"
    BY DEF LiveInit, BddInit, Threads, Idle
  <2> QED BY <2>1, EmptySeq DEF FailedInv, MountingInv, FailedIsBeingDeleted, Listed
<1>2. BddInv /\ NamesInv /\ FailedInv /\ [LiveWorker \/ LiveEnvironment]_liveVars => FailedInv'
  <2>1. ASSUME BddInv, NamesInv, FailedInv, LiveNext
        PROVE  FailedInv'
    BY <2>1, FailedStep
  <2>2. ASSUME FailedInv, UNCHANGED liveVars
        PROVE  FailedInv'
    BY <2>2 DEF FailedInv, MountingInv, FailedIsBeingDeleted, Listed, liveVars, vars, bddVars,
                workerVars
  <2> QED BY <2>1, <2>2 DEF LiveNext
<1>3. FailedInv => FailedIsBeingDeleted
  BY DEF FailedInv
<1>4. BddSpec => []NamesInv
  BY NamesHold
<1> QED BY <1>1, <1>2, <1>3, <1>4, LiveImplementsBdd, BddInvariance, PTL DEF FairBddSpec
=============================================================================
