----------------------------- MODULE NodeProofs -----------------------------
(***************************************************************************)
(* Proofs about ModuleLife and NodeClient, for any processes, dysks,       *)
(* leases and numbers of loads: what the module leaves behind and what of  *)
(* it can go wrong, and who may write to the blob.                         *)
(***************************************************************************)
EXTENDS NodeClient, SequenceTheorems, FiniteSetTheorems, TLAPS

(***************************************************************************)
(* Where the loader is.                                                    *)
(***************************************************************************)
\* The place of each resource in the init; `unload' goes through them in the
\* opposite order, so that this is also how many steps are left to it when
\* the resource is freed.
Place ==
  [az_slab |-> 1, dysk_major |-> 2, endpoint_major |-> 3, class |-> 4,
   device |-> 5, tasks_slab |-> 6, head |-> 7, worker_thread |-> 8]

Steps == {"az_slab", "dysk_major", "endpoint_major", "class", "device", "publish",
          "tasks_slab", "head", "worker_thread", "kthread_stop", "working",
          "free_az_slab", "free_dysk_major", "free_endpoint_major", "free_class",
          "free_device", "free_tasks_slab", "free_head"}

Tearing == sent \/ failed # "none"

Whole == IF Tearing THEN ScriptAfter(failed) ELSE InitSteps

\* The loader has the last steps of a whole script left.
ScriptInv ==
  /\ script \in Seq(Steps)
  /\ Len(script) <= Len(Whole)
  /\ \A i \in 1..Len(script) : script[i] = Whole[Len(Whole) - Len(script) + i]

\* The init: what it passed is there, and nothing else.  Before the first one
\* there is no endpoint.
LoadingInv ==
  ~Tearing =>
    /\ \A r \in Resources :
         ptr[r] = IF script # <<>> /\ Len(script) + Place[r] <= 9 THEN "live" ELSE "null"
    /\ script = <<>> => fds = {}

\* A module that was loaded: all is there until its step of `unload', the
\* thread until it was waited for, and nobody has the endpoint open once
\* `unload' began.
LoadedInv ==
  sent =>
    /\ failed = "none"
    /\ ptr["worker_thread"] = "live"
    /\ \A r \in DOMAIN FreeSteps :
         ptr[r] = "live" <=> (Loaded \/ Len(script) >= Place[r])
    /\ ~Loaded =>
         /\ fds = {}
         /\ Len(script) <= 8 => stop
         /\ Len(script) <= 7 => thread \in {"gone", "never"}

\* What the clean-up of the part that failed has freed before `unload' frees
\* it again.
FreedFirst(r) ==
  \/ failed \in {"class", "device"} /\ r \in {"device", "class", "endpoint_major"} /\ Len(script) < Place[r] + 7
  \/ failed = "head" /\ r \in {"head", "tasks_slab"} /\ Len(script) < Place[r] + 4

\* A failed init: what comes behind the failed step was never made, what
\* comes before it is there until it is freed, once or twice.
FailedInv ==
  failed # "none" =>
    /\ ptr[failed] = IF failed \in ErrorPointer THEN "error" ELSE "null"
    /\ \A r \in Resources :
         /\ Place[r] > Place[failed] => ptr[r] = "null"
         /\ Len(script) < Place[r] => ptr[r] # "live"
         /\ ptr[r] = "dead" => Len(script) < Place[r] \/ FreedFirst(r)
    /\ failed = "worker_thread" => Len(script) = 13

\* A slab is kept by the kernel only in `unload', for a deletion that nobody
\* does any more.
KeptInv ==
  \A r \in Resources : ptr[r] = "kept" =>
    /\ r = "tasks_slab" /\ sent /\ Len(script) <= 5
    /\ Held(IF Gone THEN {"lost"} ELSE {"deleting"}) # {}

\* The dysks: none is whole when the module is gone, and the count follows
\* them from when it was reset.
DysksInv ==
  /\ Gone => Held({"reading", "mounted", "deleting"}) = {}
  /\ ~sent /\ ~Gone => Held({"reading", "mounted"}) = early
  /\ ~sent => Held({"deleting"}) = {} /\ count = Cardinality(early)
  /\ sent /\ ~Gone =>
       count = Cardinality(Held({"reading", "mounted", "deleting"})) - 1 - Cardinality(early)

LifeTypes ==
  /\ failed \in Resources \cup {"none"}
  /\ ptr \in [Resources -> {"null", "error", "live", "dead", "kept"}]
  /\ thread \in {"none", "ready", "runs", "gone", "never"}
  /\ thread = "none" <=> ptr["worker_thread"] # "live"
  /\ stop \in BOOLEAN /\ working \in BOOLEAN /\ sent \in BOOLEAN
  /\ count \in (-1 - Cardinality(Dysks))..Cardinality(Dysks)
  /\ dysk \in [Dysks -> Places]
  /\ inside \in [Callers -> Dysks \cup {None}]
  /\ fds \subseteq Callers /\ disks \subseteq Dysks /\ early \subseteq Dysks
  /\ loads \in 0..MaxLoads
  /\ oops \in {"none", "no_worker", "destroyed_twice", "stops_an_error", "code_is_gone"}

LifeInv ==
  /\ LifeTypes /\ ScriptInv /\ LoadingInv /\ LoadedInv /\ FailedInv /\ DysksInv
  /\ KeptInv /\ TroubleExplained

-----------------------------------------------------------------------------
(***************************************************************************)
(* The leases.                                                             *)
(***************************************************************************)
\* A lease that a mount took for itself is in the hands of its command until
\* it is mounted, and of its dysk from then on.
OwnLease(p)  == cmd[p].pc = "leased" /\ ~cmd[p].given /\ cmd[p].id # 0
OwnDysk(d)   == ~def[d].given /\ def[d].id # 0

\* Every lease anybody knows was issued, and no two have one of their own.
LeasesInv ==
  /\ lease <= issued
  /\ \A n \in others : n <= issued
  /\ \A p \in Callers : cmd[p].id <= issued /\ (OwnLease(p) => cmd[p].id \notin others)
  /\ \A d \in Dysks : def[d].id <= issued /\ (OwnDysk(d) => def[d].id \notin others)
  /\ \A p, q \in Callers : OwnLease(p) /\ OwnLease(q) /\ p # q => cmd[p].id # cmd[q].id
  /\ \A d, e \in Dysks : OwnDysk(d) /\ OwnDysk(e) /\ d # e => def[d].id # def[e].id
  /\ \A p \in Callers, d \in Dysks : OwnLease(p) /\ OwnDysk(d) => cmd[p].id # def[d].id

ClientTypes ==
  /\ lease \in Leases /\ issued \in Leases
  /\ others \subseteq Leases
  /\ cmd \in [Callers -> Command]
  /\ def \in [Dysks -> [id : Leases, given : BOOLEAN]]

\* A command that runs has the endpoint open.
CommandsInv ==
  \A p \in Callers : cmd[p].pc # "idle" => p \in fds

NodeInv == LifeInv /\ sent /\ ClientTypes /\ CommandsInv /\ LeasesInv


-----------------------------------------------------------------------------
(***************************************************************************)
(* The scripts.                                                            *)
(***************************************************************************)
\* The dysks can be counted.
LEMMA DysksFinite == IsFiniteSet(Dysks) /\ Cardinality(Dysks) \in Nat
BY LifeParametersAssumption, FS_CardinalityType

LEMMA ResourcesAre ==
  /\ Resources = {"az_slab", "dysk_major", "endpoint_major", "class", "device",
                  "tasks_slab", "head", "worker_thread"}
  /\ DOMAIN FreeSteps = Resources \ {"worker_thread"}
BY DEF Resources, ToSet, InitSteps, FreeSteps

\* The parts of a script are sequences of steps.
LEMMA PartsAre ==
  /\ InitSteps \in Seq(Steps) /\ WorkerTeardown \in Seq(Steps)
  /\ EndpointStop \in Seq(Steps) /\ Unload \in Seq(Steps)
<1>1. /\ InitSteps \in Seq(Steps)
      /\ WorkerTeardown \in Seq(Steps) /\ EndpointStop \in Seq(Steps)
  BY DEF InitSteps, WorkerTeardown, EndpointStop, Steps
<1>2. <<"free_dysk_major", "free_az_slab">> \in Seq(Steps)
  BY DEF Steps
<1>3. Unload \in Seq(Steps)
  BY <1>1, <1>2, ConcatProperties DEF Unload
<1> QED BY <1>1, <1>3

\* W is a script that ends as `unload' does.
EndsAsUnload(W, k) ==
  /\ W \in Seq(Steps) /\ Len(W) = k + 9
  /\ W[k + 1] = "kthread_stop" /\ W[k + 2] = "working"
  /\ W[k + 3] = "free_head" /\ W[k + 4] = "free_tasks_slab"
  /\ W[k + 5] = "free_device" /\ W[k + 6] = "free_class"
  /\ W[k + 7] = "free_endpoint_major" /\ W[k + 8] = "free_dysk_major"
  /\ W[k + 9] = "free_az_slab"

LEMMA UnloadIs == EndsAsUnload(Unload, 0)
<1>1. /\ Len(Unload) = 9
      /\ Unload[1] = "kthread_stop" /\ Unload[2] = "working"
      /\ Unload[3] = "free_head" /\ Unload[4] = "free_tasks_slab"
  BY DEF Unload, WorkerTeardown, EndpointStop
<1>2. /\ Unload[5] = "free_device" /\ Unload[6] = "free_class"
      /\ Unload[7] = "free_endpoint_major" /\ Unload[8] = "free_dysk_major"
      /\ Unload[9] = "free_az_slab"
  BY DEF Unload, WorkerTeardown, EndpointStop
<1> QED BY <1>1, <1>2, PartsAre DEF EndsAsUnload

LEMMA UnloadBehind ==
  ASSUME NEW s \in Seq(Steps), NEW k \in Nat, Len(s) = k
  PROVE  /\ EndsAsUnload(s \o Unload, k)
         /\ \A i \in 1..k : (s \o Unload)[i] = s[i]
<1>1. PICK l \in Nat : l = 9
  OBVIOUS
<1>2. Unload \in Seq(Steps) /\ Len(Unload) = l
  BY <1>1, UnloadIs DEF EndsAsUnload
<1>3. /\ s \o Unload \in Seq(Steps)
      /\ Len(s \o Unload) = k + l
      /\ \A i \in 1..k : (s \o Unload)[i] = s[i]
      /\ \A i \in 1..l : (s \o Unload)[k + i] = Unload[i]
  <2> DEFINE t == Unload
  <2>1. t \in Seq(Steps) /\ Len(t) = l
    BY <1>2
  <2> HIDE DEF t
  <2>2. /\ s \o t \in Seq(Steps)
        /\ Len(s \o t) = k + l
        /\ \A i \in 1..k : (s \o t)[i] = s[i]
        /\ \A i \in 1..l : (s \o t)[k + i] = t[i]
    BY <2>1
  <2> QED BY <2>2 DEF t
<1>4. \A i \in Nat : i # 0 /\ i <= l => (s \o Unload)[k + i] = Unload[i]
  BY <1>3
<1>5. \A i \in {1, 2, 3, 4, 5, 6, 7, 8, 9} : (s \o Unload)[k + i] = Unload[i]
  <2>1. TAKE i \in {1, 2, 3, 4, 5, 6, 7, 8, 9}
  <2>2. i \in Nat /\ i # 0 /\ i <= 9
    OBVIOUS
  <2> QED BY ONLY <2>2, <1>1, <1>4
<1>6. s \o Unload \in Seq(Steps) /\ Len(s \o Unload) = k + 9
  BY <1>1, <1>3
<1>7. EndsAsUnload(s \o Unload, k)
  <2> DEFINE W == s \o Unload
  <2>1. W \in Seq(Steps) /\ Len(W) = k + 9
    BY <1>6
  <2>2. /\ W[k + 1] = Unload[1] /\ W[k + 2] = Unload[2] /\ W[k + 3] = Unload[3]
        /\ W[k + 4] = Unload[4] /\ W[k + 5] = Unload[5] /\ W[k + 6] = Unload[6]
        /\ W[k + 7] = Unload[7] /\ W[k + 8] = Unload[8] /\ W[k + 9] = Unload[9]
    BY <1>5
  <2> HIDE DEF W
  <2>3. EndsAsUnload(W, k)
    BY <2>1, <2>2, UnloadIs DEF EndsAsUnload
  <2> QED BY <2>3 DEF W
<1> QED BY <1>3, <1>7

\* A failed step is cleaned up by its part, and then by all of `unload'.
LEMMA CleanUpIs ==
  ASSUME NEW s \in Resources \cup {"none"}
  PROVE  CleanUpAfter(s) = IF s \in {"class", "device"} THEN EndpointStop
                           ELSE IF s \in {"tasks_slab", "head", "worker_thread"}
                                  THEN WorkerTeardown ELSE <<>>
BY DEF CleanUpAfter


\* What runs before `unload': nothing, or the clean-up of a part.
EndpointFirst == Tearing /\ failed \in {"class", "device"}
WorkerFirst   == Tearing /\ failed \in {"tasks_slab", "head", "worker_thread"}

LEMMA WholeIs ==
  ASSUME LifeTypes
  PROVE  /\ ~Tearing => Whole = InitSteps
         /\ EndpointFirst => /\ EndsAsUnload(Whole, 3)
                             /\ Whole[1] = "free_device" /\ Whole[2] = "free_class"
                             /\ Whole[3] = "free_endpoint_major"
         /\ WorkerFirst => /\ EndsAsUnload(Whole, 4)
                           /\ Whole[1] = "kthread_stop" /\ Whole[2] = "working"
                           /\ Whole[3] = "free_head" /\ Whole[4] = "free_tasks_slab"
         /\ Tearing /\ ~EndpointFirst /\ ~WorkerFirst => EndsAsUnload(Whole, 0)
<1>1. failed \in Resources \cup {"none"}
  BY DEF LifeTypes
<1>2. ~Tearing => Whole = InitSteps
  BY DEF Whole
<1>3. ASSUME EndpointFirst
      PROVE  /\ EndsAsUnload(Whole, 3)
             /\ Whole[1] = "free_device" /\ Whole[2] = "free_class"
             /\ Whole[3] = "free_endpoint_major"
  <2>1. Whole = EndpointStop \o Unload
    BY <1>1, <1>3, CleanUpIs DEF Whole, ScriptAfter, EndpointFirst
  <2>2. PICK k \in Nat : k = 3
    OBVIOUS
  <2>3. EndpointStop \in Seq(Steps) /\ Len(EndpointStop) = k
    BY <2>2, PartsAre DEF EndpointStop
  <2>4. EndsAsUnload(Whole, k) /\ \A i \in 1..k : Whole[i] = EndpointStop[i]
    BY ONLY <2>1, <2>3, UnloadBehind, k \in Nat
  <2>5. Whole[1] = EndpointStop[1] /\ Whole[2] = EndpointStop[2] /\ Whole[3] = EndpointStop[3]
    BY <2>2, <2>4
  <2> QED BY <2>2, <2>4, <2>5 DEF EndpointStop
<1>4. ASSUME WorkerFirst
      PROVE  /\ EndsAsUnload(Whole, 4)
             /\ Whole[1] = "kthread_stop" /\ Whole[2] = "working"
             /\ Whole[3] = "free_head" /\ Whole[4] = "free_tasks_slab"
  <2>1. Whole = WorkerTeardown \o Unload
    BY <1>1, <1>4, CleanUpIs DEF Whole, ScriptAfter, WorkerFirst
  <2>2. PICK k \in Nat : k = 4
    OBVIOUS
  <2>3. WorkerTeardown \in Seq(Steps) /\ Len(WorkerTeardown) = k
    BY <2>2, PartsAre DEF WorkerTeardown
  <2>4. EndsAsUnload(Whole, k) /\ \A i \in 1..k : Whole[i] = WorkerTeardown[i]
    BY ONLY <2>1, <2>3, UnloadBehind, k \in Nat
  <2>5. /\ Whole[1] = WorkerTeardown[1] /\ Whole[2] = WorkerTeardown[2]
        /\ Whole[3] = WorkerTeardown[3] /\ Whole[4] = WorkerTeardown[4]
    BY <2>2, <2>4
  <2> QED BY <2>2, <2>4, <2>5 DEF WorkerTeardown
<1>5. ASSUME Tearing, ~EndpointFirst, ~WorkerFirst
      PROVE  EndsAsUnload(Whole, 0)
  <2>1. Whole = <<>> \o Unload
    BY <1>1, <1>5, CleanUpIs DEF Whole, ScriptAfter, EndpointFirst, WorkerFirst
  <2>2. Whole = Unload
    BY ONLY <2>1, PartsAre, ConcatEmptySeq
  <2> QED BY <2>2, UnloadIs
<1> QED BY <1>2, <1>3, <1>4, <1>5

\* How long a script is.
LEMMA WholeLen ==
  ASSUME LifeTypes
  PROVE  /\ Whole \in Seq(Steps)
         /\ EndpointFirst => Len(Whole) = 12
         /\ WorkerFirst => Len(Whole) = 13
         /\ ~EndpointFirst /\ ~WorkerFirst => Len(Whole) = 9
<1>1. CASE ~Tearing
  <2>1. Whole = InitSteps /\ Len(InitSteps) = 9
    BY <1>1, WholeIs DEF InitSteps
  <2> QED BY <1>1, <2>1, PartsAre DEF EndpointFirst, WorkerFirst
<1>2. CASE EndpointFirst
  BY <1>2, WholeIs DEF EndsAsUnload, EndpointFirst, WorkerFirst
<1>3. CASE WorkerFirst
  BY <1>3, WholeIs DEF EndsAsUnload, EndpointFirst, WorkerFirst
<1>4. CASE Tearing /\ ~EndpointFirst /\ ~WorkerFirst
  BY <1>4, WholeIs DEF EndsAsUnload
<1> QED BY <1>1, <1>2, <1>3, <1>4

\* Which step is next, by how many are left.
LEMMA NextStep ==
  ASSUME LifeTypes, ScriptInv, script # <<>>
  PROVE  /\ Len(script) \in Nat /\ Len(script) # 0 /\ Len(script) <= Len(Whole)
         /\ Head(script) = Whole[Len(Whole) - Len(script) + 1]
         /\ Last(script) = Whole[Len(Whole)]
<1>1. script \in Seq(Steps) /\ Whole \in Seq(Steps) /\ Len(script) <= Len(Whole)
  BY WholeLen DEF ScriptInv
<1>2. Len(script) \in Nat /\ Len(script) # 0 /\ Len(Whole) \in Nat
  BY <1>1
<1>3. Head(script) = script[1] /\ Last(script) = script[Len(script)]
  BY <1>1 DEF Last
<1>4. 1 \in 1..Len(script) /\ Len(script) \in 1..Len(script)
  BY <1>2
<1>5. script[1] = Whole[Len(Whole) - Len(script) + 1]
  BY <1>4 DEF ScriptInv
<1>6. script[Len(script)] = Whole[Len(Whole) - Len(script) + Len(script)]
  BY <1>4 DEF ScriptInv
<1>7. Len(Whole) - Len(script) + Len(script) = Len(Whole)
  BY <1>2
<1> QED BY <1>1, <1>2, <1>3, <1>5, <1>6, <1>7


LEMMA UnloadingIsTearing ==
  ASSUME LifeTypes, ScriptInv
  PROVE  Unloading <=> (Tearing /\ script # <<>>)
<1>1. CASE script = <<>>
  BY <1>1 DEF Unloading
<1>2. CASE script # <<>> /\ ~Tearing
  <2>1. Last(script) = InitSteps[Len(InitSteps)]
    BY <1>2, NextStep, WholeIs
  <2>2. Last(script) = "publish"
    BY <2>1 DEF InitSteps
  <2> QED BY <1>2, <2>2 DEF Unloading
<1>3. CASE script # <<>> /\ Tearing
  <2>1. Last(script) = Whole[Len(Whole)]
    BY <1>3, NextStep
  <2>2. Whole[Len(Whole)] = "free_az_slab"
    BY <1>3, WholeIs DEF EndsAsUnload
  <2> QED BY <1>3, <2>1, <2>2 DEF Unloading
<1> QED BY <1>1, <1>2, <1>3

\* In the init the next step says how many are left, and none of the
\* clean-up is among them.
LEMMA InitPlaces ==
  ASSUME LifeTypes, ScriptInv, script # <<>>, ~Tearing
  PROVE  /\ Head(script) \in Resources => Len(script) + Place[Head(script)] = 10
         /\ Head(script) = "publish" => Len(script) = 1
         /\ Head(script) \notin {"kthread_stop", "working"}
         /\ \A r \in DOMAIN FreeSteps : Head(script) # FreeSteps[r]
<1>1. PICK n \in Nat : n = Len(script)
  BY NextStep
<1>2. n # 0 /\ n <= 9 /\ Head(script) = InitSteps[9 - n + 1]
  BY <1>1, NextStep, WholeIs DEF InitSteps
<1>3. n \in {1, 2, 3, 4, 5, 6, 7, 8, 9} /\ Head(script) = InitSteps[10 - n]
  BY <1>2
<1>4. /\ Head(script) \in Resources => n + Place[Head(script)] = 10
      /\ Head(script) = "publish" => n = 1
      /\ Head(script) \notin {"kthread_stop", "working"}
  BY <1>3, ResourcesAre DEF InitSteps, Place
<1>5. \A r \in DOMAIN FreeSteps : Head(script) # FreeSteps[r]
  BY <1>3, ResourcesAre DEF InitSteps, FreeSteps
<1> QED BY <1>1, <1>4, <1>5

\* The steps of `unload', by how many are left.
UnloadTable(n, s) ==
  \/ n = 9 /\ s = "kthread_stop"
  \/ n = 8 /\ s = "working"
  \/ n = 7 /\ s = "free_head"
  \/ n = 6 /\ s = "free_tasks_slab"
  \/ n = 5 /\ s = "free_device"
  \/ n = 4 /\ s = "free_class"
  \/ n = 3 /\ s = "free_endpoint_major"
  \/ n = 2 /\ s = "free_dysk_major"
  \/ n = 1 /\ s = "free_az_slab"

LEMMA UnloadPlaces ==
  ASSUME NEW k \in Nat, EndsAsUnload(Whole, k), NEW n \in Nat, n # 0, n <= 9
  PROVE  UnloadTable(n, Whole[k + 9 - n + 1])
<1>1. n = 1 \/ n = 2 \/ n = 3 \/ n = 4 \/ n = 5 \/ n = 6 \/ n = 7 \/ n = 8 \/ n = 9
  OBVIOUS
<1>2. /\ n = 1 => k + 9 - n + 1 = k + 9
      /\ n = 2 => k + 9 - n + 1 = k + 8
      /\ n = 3 => k + 9 - n + 1 = k + 7
      /\ n = 4 => k + 9 - n + 1 = k + 6
      /\ n = 5 => k + 9 - n + 1 = k + 5
      /\ n = 6 => k + 9 - n + 1 = k + 4
      /\ n = 7 => k + 9 - n + 1 = k + 3
      /\ n = 8 => k + 9 - n + 1 = k + 2
      /\ n = 9 => k + 9 - n + 1 = k + 1
  OBVIOUS
<1> QED BY <1>1, <1>2 DEF EndsAsUnload, UnloadTable

\* In a clean-up it says how many are left too, but for the part that runs
\* twice.
StepPlaced(n, s) ==
  /\ s \notin Resources \cup {"publish"}
  /\ s = "kthread_stop" => n = 9 \/ (n = 13 /\ WorkerFirst)
  /\ s = "working" => n = 8 \/ (n = 12 /\ WorkerFirst)
  /\ \A r \in DOMAIN FreeSteps : s = FreeSteps[r] =>
       \/ n = Place[r]
       \/ n = Place[r] + 7 /\ EndpointFirst /\ r \in {"device", "class", "endpoint_major"}
       \/ n = Place[r] + 4 /\ WorkerFirst /\ r \in {"head", "tasks_slab"}

LEMMA UnloadPlaced ==
  ASSUME NEW n, NEW s, UnloadTable(n, s)
  PROVE  StepPlaced(n, s)
<1>1. s \notin Resources \cup {"publish"}
  BY ResourcesAre DEF UnloadTable
<1>2. (s = "kthread_stop" => n = 9) /\ (s = "working" => n = 8)
  BY DEF UnloadTable
<1>3. \A r \in DOMAIN FreeSteps : s = FreeSteps[r] => n = Place[r]
  BY ResourcesAre DEF UnloadTable, FreeSteps, Place
<1> QED BY <1>1, <1>2, <1>3 DEF StepPlaced

LEMMA EndpointPlaced ==
  ASSUME EndpointFirst, NEW n, NEW s,
         \/ n = 12 /\ s = "free_device"
         \/ n = 11 /\ s = "free_class"
         \/ n = 10 /\ s = "free_endpoint_major"
  PROVE  StepPlaced(n, s)
<1>1. s \notin Resources \cup {"publish"}
  BY ResourcesAre
<1>2. s # "kthread_stop" /\ s # "working"
  OBVIOUS
<1>3. \A r \in DOMAIN FreeSteps : s = FreeSteps[r] =>
        n = Place[r] + 7 /\ r \in {"device", "class", "endpoint_major"}
  BY ResourcesAre DEF FreeSteps, Place
<1> QED BY <1>1, <1>2, <1>3 DEF StepPlaced

LEMMA WorkerPlaced ==
  ASSUME WorkerFirst, NEW n, NEW s,
         \/ n = 13 /\ s = "kthread_stop"
         \/ n = 12 /\ s = "working"
         \/ n = 11 /\ s = "free_head"
         \/ n = 10 /\ s = "free_tasks_slab"
  PROVE  StepPlaced(n, s)
<1>1. s \notin Resources \cup {"publish"}
  BY ResourcesAre
<1>2. (s = "kthread_stop" => n = 13) /\ (s = "working" => n = 12)
  OBVIOUS
<1>3. \A r \in DOMAIN FreeSteps : s = FreeSteps[r] =>
        n = Place[r] + 4 /\ r \in {"head", "tasks_slab"}
  BY ResourcesAre DEF FreeSteps, Place
<1> QED BY <1>1, <1>2, <1>3 DEF StepPlaced

LEMMA TearPlaces ==
  ASSUME LifeTypes, ScriptInv, script # <<>>, Tearing
  PROVE  StepPlaced(Len(script), Head(script))
<1>1. PICK n \in Nat : n = Len(script)
  BY NextStep
<1>2. n # 0 /\ n <= Len(Whole) /\ Head(script) = Whole[Len(Whole) - n + 1]
  BY <1>1, NextStep
<1>3. CASE EndpointFirst
  <2>1. Len(Whole) = 12 /\ EndsAsUnload(Whole, 3)
    BY <1>3, WholeLen, WholeIs
  <2>2. CASE n <= 9
    <3>1. UnloadTable(n, Whole[3 + 9 - n + 1])
      BY <2>1, <2>2, <1>2, UnloadPlaces
    <3>2. Len(Whole) - n + 1 = 3 + 9 - n + 1
      BY <2>1
    <3> QED BY <1>1, <1>2, <3>1, <3>2, UnloadPlaced
  <2>3. CASE ~(n <= 9)
    <3>1. n = 12 \/ n = 11 \/ n = 10
      BY <2>1, <2>3, <1>2
    <3>2. \/ n = 12 /\ Head(script) = "free_device"
          \/ n = 11 /\ Head(script) = "free_class"
          \/ n = 10 /\ Head(script) = "free_endpoint_major"
      BY <1>2, <1>3, <2>1, <3>1, WholeIs
    <3> QED BY <1>1, <1>3, <3>2, EndpointPlaced
  <2> QED BY <2>2, <2>3
<1>4. CASE WorkerFirst
  <2>1. Len(Whole) = 13 /\ EndsAsUnload(Whole, 4)
    BY <1>4, WholeLen, WholeIs
  <2>2. CASE n <= 9
    <3>1. UnloadTable(n, Whole[4 + 9 - n + 1])
      BY <2>1, <2>2, <1>2, UnloadPlaces
    <3>2. Len(Whole) - n + 1 = 4 + 9 - n + 1
      BY <2>1
    <3> QED BY <1>1, <1>2, <3>1, <3>2, UnloadPlaced
  <2>3. CASE ~(n <= 9)
    <3>1. n = 13 \/ n = 12 \/ n = 11 \/ n = 10
      BY <2>1, <2>3, <1>2
    <3>2. \/ n = 13 /\ Head(script) = "kthread_stop"
          \/ n = 12 /\ Head(script) = "working"
          \/ n = 11 /\ Head(script) = "free_head"
          \/ n = 10 /\ Head(script) = "free_tasks_slab"
      BY <1>2, <1>4, <2>1, <3>1, WholeIs
    <3> QED BY <1>1, <1>4, <3>2, WorkerPlaced
  <2> QED BY <2>2, <2>3
<1>5. CASE ~EndpointFirst /\ ~WorkerFirst
  <2>1. Len(Whole) = 9 /\ EndsAsUnload(Whole, 0)
    BY <1>5, WholeLen, WholeIs
  <2>2. UnloadTable(n, Whole[0 + 9 - n + 1])
    BY <2>1, <1>2, UnloadPlaces
  <2>3. Len(Whole) - n + 1 = 0 + 9 - n + 1
    BY <2>1
  <2> QED BY <1>1, <1>2, <2>2, <2>3, UnloadPlaced
<1> QED BY <1>3, <1>4, <1>5

\* A step that is done leaves the script with one less.
LEMMA StepIsDone ==
  ASSUME LifeTypes, ScriptInv, script # <<>>, script' = Tail(script), Whole' = Whole
  PROVE  ScriptInv' /\ Len(script') = Len(script) - 1
<1>1. script \in Seq(Steps) /\ Whole \in Seq(Steps)
  BY WholeLen DEF ScriptInv
<1>2. /\ script' \in Seq(Steps) /\ Len(script') = Len(script) - 1
      /\ \A i \in 1..Len(script') : script'[i] = script[i + 1]
  BY <1>1
<1> QED BY <1>1, <1>2 DEF ScriptInv

\* A new script is whole.
LEMMA ScriptStarts ==
  ASSUME Whole' \in Seq(Steps), script' = Whole'
  PROVE  ScriptInv'
BY DEF ScriptInv


LEMMA ScriptAfterIs ==
  ASSUME NEW s \in Resources \cup {"none"}
  PROVE  /\ ScriptAfter(s) \in Seq(Steps)
         /\ Len(ScriptAfter(s)) >= 9
         /\ s = "worker_thread" => Len(ScriptAfter(s)) = 13
<1>1. CASE s \in {"class", "device"}
  <2>1. ScriptAfter(s) = EndpointStop \o Unload
    BY <1>1, CleanUpIs DEF ScriptAfter
  <2>2. PICK k \in Nat : k = 3
    OBVIOUS
  <2>3. EndpointStop \in Seq(Steps) /\ Len(EndpointStop) = k
    BY <2>2, PartsAre DEF EndpointStop
  <2>4. EndsAsUnload(ScriptAfter(s), k)
    BY ONLY <2>1, <2>3, UnloadBehind, k \in Nat
  <2> QED BY <1>1, <2>2, <2>4 DEF EndsAsUnload
<1>2. CASE s \in {"tasks_slab", "head", "worker_thread"}
  <2>1. ScriptAfter(s) = WorkerTeardown \o Unload
    BY <1>2, CleanUpIs DEF ScriptAfter
  <2>2. PICK k \in Nat : k = 4
    OBVIOUS
  <2>3. WorkerTeardown \in Seq(Steps) /\ Len(WorkerTeardown) = k
    BY <2>2, PartsAre DEF WorkerTeardown
  <2>4. EndsAsUnload(ScriptAfter(s), k)
    BY ONLY <2>1, <2>3, UnloadBehind, k \in Nat
  <2> QED BY <2>2, <2>4 DEF EndsAsUnload
<1>3. CASE s \notin {"class", "device", "tasks_slab", "head", "worker_thread"}
  <2>1. ScriptAfter(s) = <<>> \o Unload
    BY <1>3, CleanUpIs DEF ScriptAfter
  <2>2. ScriptAfter(s) = Unload
    BY ONLY <2>1, PartsAre, ConcatEmptySeq
  <2> QED BY <1>3, <2>2, UnloadIs DEF EndsAsUnload
<1> QED BY <1>1, <1>2, <1>3

-----------------------------------------------------------------------------
(***************************************************************************)
(* The steps of the loader.                                                *)
(***************************************************************************)
\* As long as the kernel is in no trouble there is none to explain.
LEMMA NoTrouble == ASSUME oops' = "none" PROVE TroubleExplained'
BY DEF TroubleExplained

\* Trouble stops everything else.
LEMMA BreaksOk ==
  ASSUME LifeInv, NEW why \in {"no_worker", "destroyed_twice", "stops_an_error", "code_is_gone"},
         Breaks(why),
         why = "destroyed_twice" => failed \in {"device", "head"},
         why = "stops_an_error" => failed = "worker_thread",
         why = "no_worker" => ~sent,
         why = "code_is_gone" => (Held({"stranded"}) # {} \/ failed # "none")
  PROVE  LifeInv'
<1>1. /\ oops' = why
      /\ UNCHANGED <<script, failed, ptr, stop, working, sent, loads, thread, count,
                     dysk, fds, inside, disks, early>>
  BY DEF Breaks, loader, users
<1>2. TroubleExplained'
  BY <1>1 DEF TroubleExplained, Held
<1>3. LifeTypes'
  BY <1>1 DEF LifeInv, LifeTypes
<1>4. ScriptInv'
  BY <1>1 DEF LifeInv, ScriptInv, Whole, Tearing
<1>5. LoadingInv' /\ LoadedInv'
  BY <1>1 DEF LifeInv, LoadingInv, LoadedInv, Tearing, Loaded
<1>6. FailedInv'
  BY <1>1 DEF LifeInv, FailedInv, FreedFirst
<1>7. DysksInv'
  BY <1>1 DEF LifeInv, DysksInv, Held, Gone, Loaded
<1>8. KeptInv'
  BY <1>1 DEF LifeInv, KeptInv, Held, Gone, Loaded
<1> QED BY <1>2, <1>3, <1>4, <1>5, <1>6, <1>7, <1>8 DEF LifeInv

\* Where nothing was kept.
LEMMA NothingKept ==
  ASSUME LifeInv, ~sent \/ Len(script) > 5 \/ CanQueue
  PROVE  \A r \in Resources : ptr[r] # "kept"
<1>1. Len(script) \in Nat
  BY DEF LifeInv, ScriptInv
<1> QED BY <1>1 DEF LifeInv, KeptInv, CanQueue

LEMMA InitStepOk ==
  ASSUME LifeInv, InitStep
  PROVE  LifeInv'
<1> DEFINE s == Head(script)
<1>1. /\ oops' = "none" /\ script # <<>> /\ s \in Resources
      /\ ptr' = [ptr EXCEPT ![s] = "live"]
      /\ working' = (working \/ s = "head")
      /\ thread' = IF s = "worker_thread" THEN "ready" ELSE thread
      /\ script' = Tail(script)
      /\ UNCHANGED <<failed, stop, sent, count, dysk, fds, inside, disks, early, loads>>
  BY DEF InitStep, Quiet, users
<1>2. ~Tearing
  BY <1>1, TearPlaces DEF LifeInv, StepPlaced
<1>3. Len(script) + Place[s] = 10 /\ Len(script) \in Nat
  BY <1>1, <1>2, InitPlaces, NextStep DEF LifeInv
<1>4. ScriptInv' /\ Len(script') = Len(script) - 1
  BY <1>1, StepIsDone DEF LifeInv, Whole, Tearing
<1>5. script' # <<>>
  <2>1. Place[s] \in Nat /\ Place[s] <= 8
    BY <1>1, ResourcesAre DEF Place
  <2>2. Len(script') # 0
    BY <1>3, <1>4, <2>1
  <2> QED BY <2>2
<1>6. LoadingInv'
  <2>1. \A r \in Resources :
          ptr[r] = IF Len(script) + Place[r] <= 9 THEN "live" ELSE "null"
    BY <1>1, <1>2 DEF LifeInv, LoadingInv
  <2>2. \A r \in Resources : Place[r] \in Nat /\ (Place[r] = Place[s] => r = s)
    BY <1>1, ResourcesAre DEF Place
  <2>3. \A r \in Resources :
          ptr'[r] = IF Len(script') + Place[r] <= 9 THEN "live" ELSE "null"
    BY <1>1, <1>3, <1>4, <2>1, <2>2 DEF LifeInv, LifeTypes
  <2> QED BY <1>5, <2>3 DEF LoadingInv
<1>7. LifeTypes'
  <2>1. thread' = "none" <=> ptr'["worker_thread"] # "live"
    BY <1>1, ResourcesAre DEF LifeInv, LifeTypes
  <2> QED BY <1>1, <2>1 DEF LifeInv, LifeTypes
<1>8. ~sent' /\ failed' = "none"
  BY <1>1, <1>2 DEF Tearing
<1>9. DysksInv'
  BY <1>1, <1>5, <1>8 DEF LifeInv, DysksInv, Gone, Loaded, Held
<1>10. LoadedInv' /\ FailedInv'
  BY <1>8 DEF LoadedInv, FailedInv
<1>11. KeptInv'
  <2>1. \A r \in Resources : ptr[r] # "kept"
    BY <1>1, <1>8, NothingKept
  <2>2. \A r \in Resources : ptr'[r] # "kept"
    BY <1>1, <2>1 DEF LifeInv, LifeTypes
  <2> QED BY <2>2 DEF KeptInv
<1> QED BY <1>1, <1>4, <1>6, <1>7, <1>9, <1>10, <1>11, NoTrouble DEF LifeInv

LEMMA InitFailsOk ==
  ASSUME LifeInv, InitFails
  PROVE  LifeInv'
<1> DEFINE s == Head(script)
<1>1. /\ oops' = "none" /\ script # <<>> /\ s \in Resources
      /\ failed' = s
      /\ ptr' = [ptr EXCEPT ![s] = IF s \in ErrorPointer THEN "error" ELSE "null"]
      /\ script' = ScriptAfter(s)
      /\ UNCHANGED <<thread, stop, working, sent, count, dysk, fds, inside, disks, early, loads>>
  BY DEF InitFails, Quiet, users
<1>2. ~Tearing /\ ~sent'
  BY <1>1, TearPlaces DEF LifeInv, StepPlaced, Tearing
<1>3. Len(script) + Place[s] = 10 /\ Len(script) \in Nat
  BY <1>1, <1>2, InitPlaces, NextStep DEF LifeInv
<1>4. /\ script' \in Seq(Steps) /\ Len(script') >= 9
      /\ s = "worker_thread" => Len(script') = 13
  BY <1>1, ScriptAfterIs
<1>5. failed' # "none" /\ Tearing'
  BY <1>1, ResourcesAre DEF Tearing
<1>6. ScriptInv'
  BY <1>1, <1>4, <1>5, ScriptStarts DEF Whole
<1>7. script' # <<>>
  BY <1>4
<1>8. \A r \in Resources :
        ptr[r] = IF Len(script) + Place[r] <= 9 THEN "live" ELSE "null"
  BY <1>1, <1>2 DEF LifeInv, LoadingInv
<1>9. ptr["worker_thread"] # "live"
  <2>1. "worker_thread" \in Resources /\ Place["worker_thread"] = 8
    BY ResourcesAre DEF Place
  <2>2. Place[s] \in Nat /\ Place[s] <= 8
    BY <1>1, ResourcesAre DEF Place
  <2>3. ~(Len(script) + 8 <= 9)
    BY <1>3, <2>2
  <2>4. ptr["worker_thread"] = "null"
    BY <1>8, <2>1, <2>3
  <2> QED BY <2>4
<1>10. LifeTypes'
  <2>1. ptr'["worker_thread"] # "live"
    BY <1>1, <1>9, ResourcesAre DEF LifeInv, LifeTypes
  <2>2. thread' = "none"
    BY <1>1, <1>9 DEF LifeInv, LifeTypes
  <2>3. ptr' \in [Resources -> {"null", "error", "live", "dead", "kept"}]
    BY <1>1 DEF LifeInv, LifeTypes
  <2> QED BY <1>1, <2>1, <2>2, <2>3 DEF LifeInv, LifeTypes
<1>11. FailedInv'
  <2>1. ptr'[failed'] = IF failed' \in ErrorPointer THEN "error" ELSE "null"
    BY <1>1 DEF LifeInv, LifeTypes
  <2>2. ASSUME NEW r \in Resources
        PROVE  /\ Place[r] > Place[s] => ptr'[r] = "null"
               /\ Place[r] <= 8 /\ Place[r] \in Nat
               /\ ptr'[r] # "dead"
    <3>1. Place[r] \in Nat /\ Place[r] <= 8 /\ Place[s] \in Nat
      BY <1>1, ResourcesAre DEF Place
    <3> QED BY <1>1, <1>3, <1>8, <3>1 DEF LifeInv, LifeTypes
  <2>3. \A r \in Resources : ~(Len(script') < Place[r])
    BY <1>4, <2>2
  <2> QED BY <1>1, <1>4, <2>1, <2>2, <2>3 DEF FailedInv
<1>12. DysksInv'
  BY <1>1, <1>2, <1>7 DEF LifeInv, DysksInv, Gone, Loaded, Held
<1>13. LoadingInv' /\ LoadedInv'
  BY <1>2, <1>5 DEF LoadingInv, LoadedInv
<1>14. KeptInv'
  <2>1. \A r \in Resources : ptr[r] # "kept"
    BY <1>1, <1>2, NothingKept
  <2>2. \A r \in Resources : ptr'[r] # "kept"
    BY <1>1, <2>1 DEF LifeInv, LifeTypes
  <2> QED BY <2>2 DEF KeptInv
<1> QED BY <1>1, <1>6, <1>10, <1>11, <1>12, <1>13, <1>14, NoTrouble DEF LifeInv


LEMMA PublishOk ==
  ASSUME LifeInv, Publish
  PROVE  LifeInv'
<1>1. /\ oops' = "none" /\ script # <<>> /\ Head(script) = "publish"
      /\ sent' = TRUE /\ count' = -1 /\ script' = Tail(script)
      /\ UNCHANGED <<failed, ptr, thread, stop, working, dysk, fds, inside, disks, early, loads>>
  BY DEF Publish, At, Quiet, users
<1>2. ~Tearing /\ ~sent /\ failed = "none" /\ Len(script) = 1
  <2>1. ~Tearing
    BY <1>1, TearPlaces DEF LifeInv, StepPlaced
  <2> QED BY <1>1, <2>1, InitPlaces DEF LifeInv, Tearing
<1>3. script' = <<>>
  <2>1. script \in Seq(Steps)
    BY DEF LifeInv, ScriptInv
  <2> QED BY <1>1, <1>2, <2>1
<1>4. \A r \in Resources : ptr'[r] = "live"
  <2>1. \A r \in Resources : Place[r] \in Nat /\ 1 + Place[r] <= 9
    BY ResourcesAre DEF Place
  <2>2. \A r \in Resources : ptr[r] = IF Len(script) + Place[r] <= 9 THEN "live" ELSE "null"
    BY <1>1, <1>2 DEF LifeInv, LoadingInv
  <2> QED BY <1>1, <1>2, <2>1, <2>2
<1>5. Loaded' /\ ~Gone'
  BY <1>1, <1>3, <1>4, ResourcesAre DEF Loaded, Gone
<1>6. ScriptInv'
  <2>1. Whole' = ScriptAfter("none")
    BY <1>1, <1>2 DEF Whole, Tearing
  <2>2. Whole' \in Seq(Steps) /\ script' \in Seq(Steps) /\ Len(script') = 0
    BY <1>3, <2>1, ScriptAfterIs
  <2>3. Len(script') <= Len(Whole') /\ 1..Len(script') = {}
    BY <2>2
  <2> QED BY <2>2, <2>3 DEF ScriptInv
<1>7. DysksInv'
  <2>1. ~Gone
    BY <1>1 DEF Gone
  <2>2. Held({"reading", "mounted"}) = early /\ Held({"deleting"}) = {}
    BY <1>2, <2>1 DEF LifeInv, DysksInv
  <2>3. Held({"reading", "mounted", "deleting"}) = early
    BY <2>2 DEF Held
  <2>4. Held({"reading", "mounted", "deleting"})' = early'
    BY <1>1, <2>3 DEF Held
  <2>5. Cardinality(early') \in Nat
    BY <1>1, LifeParametersAssumption, FS_Subset, FS_CardinalityType DEF LifeInv, LifeTypes
  <2>6. count' = Cardinality(Held({"reading", "mounted", "deleting"})') - 1 - Cardinality(early')
    BY <1>1, <2>4, <2>5
  <2> QED BY <1>1, <1>5, <2>6 DEF DysksInv
<1>8. LifeTypes'
  <2>1. Cardinality(Dysks) \in Nat
    BY DysksFinite
  <2>2. count' \in (-1 - Cardinality(Dysks))..Cardinality(Dysks)
    BY <1>1, <2>1
  <2> QED BY <1>1, <2>2 DEF LifeInv, LifeTypes
<1>9. LoadedInv'
  BY <1>1, <1>2, <1>4, <1>5, ResourcesAre DEF LoadedInv
<1>10. LoadingInv' /\ FailedInv'
  BY <1>1, <1>2 DEF LoadingInv, FailedInv, Tearing
<1>11. KeptInv'
  BY <1>4 DEF KeptInv
<1> QED BY <1>1, <1>6, <1>7, <1>8, <1>9, <1>10, <1>11, NoTrouble DEF LifeInv

\* Where the pointer to the thread is an error, and what it is otherwise.
LEMMA ThreadPointer ==
  ASSUME LifeInv, failed # "none"
  PROVE  /\ ptr["worker_thread"] # "live"
         /\ ptr["worker_thread"] = "error" => failed = "worker_thread"
         /\ thread = "none"
         /\ ~sent
<1>1. failed \in Resources /\ "worker_thread" \in Resources
  BY ResourcesAre DEF LifeInv, LifeTypes
<1>2. failed # "worker_thread" => Place["worker_thread"] > Place[failed]
  BY <1>1, ResourcesAre DEF Place
<1>3. failed # "worker_thread" => ptr["worker_thread"] = "null"
  BY <1>1, <1>2 DEF LifeInv, FailedInv
<1>4. failed = "worker_thread" => ptr["worker_thread"] = "error"
  BY <1>1 DEF LifeInv, FailedInv, ErrorPointer
<1> QED BY <1>3, <1>4 DEF LifeInv, LifeTypes, LoadedInv

\* The loader passes a step of a clean-up that frees nothing.
LEMMA PassOk ==
  ASSUME LifeInv, script # <<>>, Tearing, script' = Tail(script), oops' = "none",
         UNCHANGED <<failed, ptr, thread, working, sent, count, dysk, fds, inside, disks,
                     early, loads>>,
         stop' \in BOOLEAN, stop => stop',
         NEW n \in Nat, Len(script) = n,
         n = 8 \/ n = 9 \/ ((n = 12 \/ n = 13) /\ WorkerFirst /\ failed # "worker_thread"),
         sent => stop', sent /\ n = 8 => thread \in {"gone", "never"}
  PROVE  LifeInv'
<1>1. ScriptInv' /\ Len(script') = n - 1
  BY StepIsDone DEF LifeInv, Whole, Tearing
<1>2. script' # <<>>
  <2>1. Len(script') # 0
    BY <1>1
  <2> QED BY <2>1
<1>3. \A r \in Resources : Place[r] \in Nat /\ Place[r] <= 8 /\ (Place[r] = 8 => r = "worker_thread")
  BY ResourcesAre DEF Place
<1>4. LoadedInv'
  <2>1. ASSUME sent
        PROVE  /\ failed = "none" /\ ptr["worker_thread"] = "live" /\ fds = {}
               /\ \A r \in DOMAIN FreeSteps : ptr[r] = "live" <=> Len(script) >= Place[r]
    BY <2>1 DEF LifeInv, LoadedInv, Loaded
  <2>2. ASSUME sent
        PROVE  n = 9 \/ n = 8
    BY <2>1, <2>2 DEF WorkerFirst
  <2>3. ASSUME sent, NEW r \in DOMAIN FreeSteps
        PROVE  Len(script) >= Place[r] /\ Len(script') >= Place[r]
    <3>1. Place[r] \in Nat /\ Place[r] <= 7
      BY <1>3, <2>3, ResourcesAre
    <3> QED BY <1>1, <2>2, <2>3, <3>1
  <2>4. ASSUME sent
        PROVE  Len(script') <= 7 => thread' \in {"gone", "never"}
    BY <1>1, <2>2, <2>4
  <2> QED BY <1>2, <2>1, <2>3, <2>4 DEF LoadedInv, Loaded
<1>5. FailedInv'
  <2>1. ASSUME failed # "none"
        PROVE  FailedInv'
    <3>1. /\ ptr[failed] = IF failed \in ErrorPointer THEN "error" ELSE "null"
          /\ \A r \in Resources :
               /\ Place[r] > Place[failed] => ptr[r] = "null"
               /\ Len(script) < Place[r] => ptr[r] # "live"
               /\ ptr[r] = "dead" => Len(script) < Place[r] \/ FreedFirst(r)
          /\ failed # "worker_thread"
      BY <2>1 DEF LifeInv, FailedInv
    <3>2. \A r \in Resources : Len(script') < Place[r] => ptr[r] # "live"
      <4>1. SUFFICES ASSUME NEW r \in Resources, Len(script') < Place[r]
                     PROVE  ptr[r] # "live"
        OBVIOUS
      <4>3. PICK p \in Nat : p = Place[r] /\ p <= 8
        BY <1>3
      <4>4. n - 1 < p /\ n >= 8
        BY <1>1, <4>1, <4>3
      <4>5. Place[r] = 8
        BY <4>3, <4>4
      <4>6. r = "worker_thread"
        BY <1>3, <4>5
      <4> QED BY <2>1, <4>6, ThreadPointer
    <3>3. \A r \in Resources : ptr[r] = "dead" => Len(script') < Place[r] \/ FreedFirst(r)'
      <4>1. \A r \in Resources : Len(script) < Place[r] => Len(script') < Place[r]
        BY <1>1, <1>3
      <4>2. \A r \in Resources : FreedFirst(r) => FreedFirst(r)'
        BY <1>1, <1>3 DEF FreedFirst
      <4> QED BY <3>1, <4>1, <4>2
    <3> QED BY <3>1, <3>2, <3>3 DEF FailedInv
  <2> QED BY <2>1 DEF FailedInv
<1>6. DysksInv'
  BY <1>2 DEF LifeInv, DysksInv, Gone, Held
<1>7. LoadingInv'
  BY DEF LoadingInv, Tearing
<1>8. LifeTypes'
  BY DEF LifeInv, LifeTypes
<1>9. KeptInv'
  <2>1. Len(script) > 5
    OBVIOUS
  <2>2. \A r \in Resources : ptr'[r] # "kept"
    BY <2>1, NothingKept
  <2> QED BY <2>2 DEF KeptInv
<1> QED BY <1>1, <1>4, <1>5, <1>6, <1>7, <1>8, <1>9, NoTrouble DEF LifeInv


LEMMA KthreadStopOk ==
  ASSUME LifeInv, KthreadStop
  PROVE  LifeInv'
<1>1. script # <<>> /\ Head(script) = "kthread_stop"
  BY DEF KthreadStop, At
<1>2. Tearing
  BY <1>1, InitPlaces DEF LifeInv
<1>3. PICK n \in Nat : Len(script) = n
  BY <1>1, NextStep DEF LifeInv
<1>4. n = 9 \/ (n = 13 /\ WorkerFirst)
  BY <1>1, <1>2, <1>3, TearPlaces DEF LifeInv, StepPlaced
<1>5. CASE ptr["worker_thread"] = "error"
  <2>1. failed # "none"
    BY <1>2, <1>5 DEF LifeInv, LoadedInv, Tearing
  <2>2. failed = "worker_thread" /\ Breaks("stops_an_error")
    BY <1>5, <2>1, ThreadPointer DEF KthreadStop
  <2> QED BY <2>2, BreaksOk
<1>6. CASE ptr["worker_thread"] # "error"
  <2>1. /\ oops' = "none" /\ script' = Tail(script)
        /\ stop' = (stop \/ ptr["worker_thread"] = "live")
        /\ UNCHANGED <<failed, ptr, thread, working, sent, count, dysk, fds, inside, disks,
                       early, loads>>
    BY <1>6 DEF KthreadStop, Quiet, users
  <2>2. sent => stop'
    BY <2>1 DEF LifeInv, LoadedInv
  <2>3. failed # "worker_thread"
    BY <1>6, ResourcesAre DEF LifeInv, FailedInv, ErrorPointer
  <2>4. stop' \in BOOLEAN /\ (stop => stop')
    BY <2>1 DEF LifeInv, LifeTypes
  <2> QED BY <1>1, <1>2, <1>3, <1>4, <2>1, <2>2, <2>3, <2>4, PassOk
<1> QED BY <1>5, <1>6

LEMMA WaitForWorkerOk ==
  ASSUME LifeInv, WaitForWorker
  PROVE  LifeInv'
<1>1. /\ script # <<>> /\ Head(script) = "working"
      /\ stop => thread \in {"gone", "never"}
      /\ oops' = "none" /\ script' = Tail(script)
      /\ UNCHANGED <<failed, ptr, thread, stop, working, sent, count, dysk, fds, inside, disks,
                     early, loads>>
  BY DEF WaitForWorker, At, Quiet, users
<1>2. Tearing
  BY <1>1, InitPlaces DEF LifeInv
<1>3. PICK n \in Nat : Len(script) = n
  BY <1>1, NextStep DEF LifeInv
<1>4. n = 8 \/ (n = 12 /\ WorkerFirst)
  BY <1>1, <1>2, <1>3, TearPlaces DEF LifeInv, StepPlaced
<1>5. n = 12 => failed # "worker_thread"
  <2>1. failed = "worker_thread" => Len(script) = 13
    BY DEF LifeInv, FailedInv
  <2> QED BY <1>3, <2>1
<1>6. sent => stop
  <2>1. sent => failed = "none" /\ ~Loaded /\ (~Loaded => (Len(script) <= 8 => stop))
    BY <1>1 DEF LifeInv, LoadedInv, Loaded
  <2>2. sent => n = 8
    BY <1>4, <2>1 DEF WorkerFirst
  <2> QED BY <1>3, <2>1, <2>2
<1> QED BY <1>1, <1>2, <1>3, <1>4, <1>5, <1>6, PassOk DEF LifeInv, LifeTypes

\* Where a clean-up frees what is already dead, or what it needs is: only
\* after a failure that makes it run twice over something that was there.
LEMMA DeadIsExplained ==
  ASSUME LifeInv, script # <<>>, Tearing, NEW r \in DOMAIN FreeSteps,
         Head(script) = FreeSteps[r], UsesDead(r)
  PROVE  failed \in {"device", "head"}
<1>1. PICK n \in Nat : Len(script) = n
  BY NextStep DEF LifeInv
<1>2. \/ n = Place[r]
      \/ n = Place[r] + 7 /\ EndpointFirst /\ r \in {"device", "class", "endpoint_major"}
      \/ n = Place[r] + 4 /\ WorkerFirst /\ r \in {"head", "tasks_slab"}
  BY <1>1, TearPlaces DEF LifeInv, StepPlaced
<1>3. failed # "none"
  <2>1. SUFFICES ASSUME sent PROVE FALSE
    BY DEF Tearing
  <2>2. failed = "none" /\ ~Loaded
    BY <2>1 DEF LifeInv, LoadedInv, Loaded
  <2>3. n = Place[r]
    BY <1>2, <2>2 DEF EndpointFirst, WorkerFirst
  <2>4. \A q \in DOMAIN FreeSteps : ptr[q] = "live" <=> n >= Place[q]
    BY <1>1, <2>1, <2>2 DEF LifeInv, LoadedInv
  <2>5. ptr[r] = "live" /\ (r = "device" => ptr["class"] = "live")
        /\ (r = "head" => ptr["tasks_slab"] = "live")
    BY <2>3, <2>4, ResourcesAre DEF Place
  <2> QED BY <2>5 DEF UsesDead, Tolerated
<1>4. failed \in Resources
  BY <1>3 DEF LifeInv, LifeTypes
<1>5. /\ ptr[failed] = IF failed \in ErrorPointer THEN "error" ELSE "null"
      /\ \A q \in Resources :
           /\ Place[q] > Place[failed] => ptr[q] = "null"
           /\ ptr[q] = "dead" => n < Place[q] \/ FreedFirst(q)
      /\ failed = "worker_thread" => n = 13
  BY <1>1, <1>3 DEF LifeInv, FailedInv
<1>6. failed # "worker_thread"
  BY <1>2, <1>5, ResourcesAre DEF Place
<1>7. CASE ~Tolerated(r) /\ r # "device"
  <2>1. ptr[r] = "dead" /\ r \notin {"endpoint_major", "dysk_major", "device"}
    BY <1>7 DEF Tolerated
  <2>2. FreedFirst(r)
    BY <1>2, <1>5, <2>1, ResourcesAre DEF Place
  <2>3. failed = "class" => r # "class"
    BY <1>5, <2>1 DEF ErrorPointer
  <2> QED BY <2>1, <2>2, <2>3 DEF FreedFirst
<1>8. CASE r = "device" /\ ptr["device"] # "null" /\ ptr["class"] = "dead"
  <2>1. FreedFirst("class")
    BY <1>2, <1>5, <1>8, ResourcesAre DEF Place
  <2>2. failed # "class"
    BY <1>5, <1>8, ResourcesAre DEF Place
  <2> QED BY <2>1, <2>2 DEF FreedFirst
<1>9. CASE r = "head" /\ ptr["head"] # "null" /\ ptr["tasks_slab"] = "dead"
  <2>1. FreedFirst("tasks_slab")
    BY <1>2, <1>5, <1>9, ResourcesAre DEF Place
  <2> QED BY <2>1 DEF FreedFirst
<1> QED BY <1>7, <1>8, <1>9 DEF UsesDead


LEMMA FreeResourceOk ==
  ASSUME LifeInv, FreeResource
  PROVE  LifeInv'
<1>1. PICK r \in DOMAIN FreeSteps :
        /\ script # <<>> /\ Head(script) = FreeSteps[r]
        /\ IF UsesDead(r) THEN Breaks("destroyed_twice")
           ELSE /\ oops' = "none"
                /\ ptr' = [ptr EXCEPT ![r] = Freed(r)]
                /\ script' = Tail(script)
                /\ dysk' = IF Tail(script) # <<>> THEN dysk ELSE [d \in Dysks |-> Abandoned(d)]
                /\ UNCHANGED <<failed, thread, stop, working, sent, count, fds, inside, disks,
                               early, loads>>
  BY DEF FreeResource, At, Quiet
<1>2. Tearing
  BY <1>1, InitPlaces DEF LifeInv
<1>3. CASE UsesDead(r)
  <2>1. failed \in {"device", "head"} /\ Breaks("destroyed_twice")
    BY <1>1, <1>2, <1>3, DeadIsExplained
  <2> QED BY <2>1, BreaksOk
<1>4. ASSUME ~UsesDead(r) PROVE LifeInv'
  <2>1. /\ oops' = "none"
        /\ ptr' = [ptr EXCEPT ![r] = Freed(r)]
        /\ script' = Tail(script)
        /\ dysk' = IF script' # <<>> THEN dysk ELSE [d \in Dysks |-> Abandoned(d)]
        /\ UNCHANGED <<failed, thread, stop, working, sent, count, fds, inside, disks,
                       early, loads>>
    BY <1>1, <1>4
  <2>2. PICK n \in Nat : Len(script) = n /\ n # 0
    BY <1>1, NextStep DEF LifeInv
  <2>3. \/ n = Place[r]
        \/ n = Place[r] + 7 /\ EndpointFirst /\ r \in {"device", "class", "endpoint_major"}
        \/ n = Place[r] + 4 /\ WorkerFirst /\ r \in {"head", "tasks_slab"}
    BY <1>1, <1>2, <2>2, TearPlaces DEF LifeInv, StepPlaced
  <2>4. ScriptInv' /\ Len(script') = n - 1
    BY <1>1, <1>2, <2>1, <2>2, StepIsDone DEF LifeInv, Whole, Tearing
  <2>5. script' = <<>> => n = 1
    BY <2>2, <2>4
  <2>6. \A q \in Resources : Place[q] \in Nat /\ Place[q] # 0 /\ Place[q] <= 8
    BY ResourcesAre DEF Place
  <2>7. r \in Resources /\ r # "worker_thread"
        /\ \A q \in Resources : Place[q] = Place[r] => q = r
    BY ResourcesAre DEF Place
  <2>8. n = 1 => r = "az_slab"
    BY <2>3, <2>6, <2>7, ResourcesAre DEF Place
  <2>9. /\ \A q \in Resources : q # r => ptr'[q] = ptr[q]
        /\ ptr'[r] = Freed(r)
        /\ ptr'[r] = IF ptr[r] # "live" THEN ptr[r]
                     ELSE IF r = "tasks_slab" /\ Held({"deleting"}) # {} THEN "kept" ELSE "dead"
        /\ ptr' \in [Resources -> {"null", "error", "live", "dead", "kept"}]
    BY <2>1, <2>7 DEF LifeInv, LifeTypes, Freed
  <2>10. sent => /\ failed = "none" /\ ptr["worker_thread"] = "live" /\ fds = {}
                 /\ \A q \in DOMAIN FreeSteps : ptr[q] = "live" <=> n >= Place[q]
                 /\ n <= 8 => stop
                 /\ n <= 7 => thread \in {"gone", "never"}
    BY <1>1, <2>2 DEF LifeInv, LoadedInv, Loaded
  <2>11. sent => n = Place[r]
    BY <2>3, <2>10 DEF EndpointFirst, WorkerFirst
  <2>12. script' = <<>> => ptr'["az_slab"] # "live"
    BY <2>5, <2>8, <2>9
  <2>13. ~Loaded' /\ ~Loaded
    BY <1>1, <2>12 DEF Loaded
  <2>14. LoadedInv'
    <3>1. ASSUME sent, NEW q \in DOMAIN FreeSteps
          PROVE  ptr'[q] = "live" <=> n - 1 >= Place[q]
      <4>1. q \in Resources
        BY ResourcesAre
      <4>2. Place[q] = n => q = r
        BY <2>7, <2>11, <3>1, <4>1
      <4>3. Place[q] \in Nat /\ Place[r] = n
        BY <2>6, <2>11, <3>1, <4>1
      <4>4. ptr[q] = "live" <=> n >= Place[q]
        BY <2>10, <3>1
      <4>5. CASE q = r
        <5>1. n >= Place[q] /\ ~(n - 1 >= Place[q])
          BY <4>3, <4>5
        <5> QED BY <2>9, <4>4, <4>5, <5>1
      <4>6. CASE q # r
        <5>1. n >= Place[q] <=> n - 1 >= Place[q]
          BY <4>2, <4>3, <4>6
        <5> QED BY <2>9, <4>1, <4>4, <4>6, <5>1
      <4> QED BY <4>5, <4>6
    <3>2. sent => /\ n <= 7
                  /\ ptr'["worker_thread"] = "live"
      BY <2>3, <2>7, <2>9, <2>10, <2>11, ResourcesAre DEF Place
    <3> QED BY <2>1, <2>4, <2>10, <2>13, <3>1, <3>2 DEF LoadedInv
  <2>15. FailedInv'
    <3>1. SUFFICES ASSUME failed # "none" PROVE FailedInv'
      BY <2>1 DEF FailedInv
    <3>2. failed \in Resources
      BY <3>1 DEF LifeInv, LifeTypes
    <3>3. /\ ptr[failed] = IF failed \in ErrorPointer THEN "error" ELSE "null"
          /\ \A q \in Resources :
               /\ Place[q] > Place[failed] => ptr[q] = "null"
               /\ n < Place[q] => ptr[q] # "live"
               /\ ptr[q] = "dead" => n < Place[q] \/ FreedFirst(q)
          /\ failed = "worker_thread" => n = 13
      BY <2>2, <3>1 DEF LifeInv, FailedInv
    <3>4. failed # "worker_thread"
      BY <2>3, <2>6, <3>3, ResourcesAre DEF Place
    <3>5. ptr'[failed] = IF failed \in ErrorPointer THEN "error" ELSE "null"
      BY <2>9, <3>2, <3>3
    <3>6. \A q \in Resources : Place[q] > Place[failed] => ptr'[q] = "null"
      BY <2>9, <3>3
    <3>7. ASSUME NEW q \in Resources, n - 1 < Place[q]
          PROVE  ptr'[q] # "live"
      <4>1. n < Place[q] \/ n = Place[q]
        BY <2>6, <3>7
      <4>2. CASE n < Place[q]
        BY <2>9, <3>3, <4>2
      <4>3. CASE n = Place[q]
        <5>1. n = Place[r] \/ q = "worker_thread"
          BY <2>3, <4>3, ResourcesAre DEF Place
        <5>2. q = "worker_thread" => ptr[q] # "live"
          BY <3>1, ThreadPointer
        <5> QED BY <2>7, <2>9, <4>3, <5>1, <5>2
      <4> QED BY <4>1, <4>2, <4>3
    <3>8. ASSUME NEW q \in Resources, ptr'[q] = "dead"
          PROVE  n - 1 < Place[q] \/ FreedFirst(q)'
      <4>1. CASE ptr[q] = "dead"
        <5>1. n < Place[q] => n - 1 < Place[q]
          BY <2>6
        <5>2. FreedFirst(q) => FreedFirst(q)'
          BY <2>1, <2>2, <2>4, <2>6 DEF FreedFirst
        <5> QED BY <3>3, <4>1, <5>1, <5>2
      <4>2. CASE ptr[q] # "dead"
        <5>1. q = r /\ ptr[r] = "live"
          BY <2>9, <3>8, <4>2
        <5>2. n = Place[q] => n - 1 < Place[q]
          BY <2>6
        <5>3. ASSUME n = Place[r] + 7, EndpointFirst, r \in {"device", "class", "endpoint_major"}
              PROVE  FreedFirst(q)'
          <6>1. Len(script') < Place[r] + 7
            BY <2>4, <2>6, <2>7, <5>3
          <6> QED BY <2>1, <5>1, <5>3, <6>1 DEF FreedFirst, EndpointFirst
        <5>4. ASSUME n = Place[r] + 4, WorkerFirst, r \in {"head", "tasks_slab"}
              PROVE  FreedFirst(q)'
          <6>1. Len(script') < Place[r] + 4
            BY <2>4, <2>6, <2>7, <5>4
          <6>2. failed = "tasks_slab" => Place["head"] > Place[failed] /\ ptr["tasks_slab"] = "null"
            BY <3>3, ResourcesAre DEF Place, ErrorPointer
          <6>3. failed # "tasks_slab"
            BY <3>3, <5>1, <5>4, <6>2, ResourcesAre
          <6>4. failed = "head"
            BY <3>4, <5>4, <6>3 DEF WorkerFirst
          <6> QED BY <2>1, <5>1, <5>4, <6>1, <6>4 DEF FreedFirst
        <5> QED BY <2>3, <5>1, <5>2, <5>3, <5>4
      <4> QED BY <4>1, <4>2
    <3> QED BY <2>1, <2>4, <3>4, <3>5, <3>6, <3>7, <3>8 DEF FailedInv
  <2>16. DysksInv'
    <3>1. ~Gone
      BY <1>1 DEF Gone
    <3>2. CASE script' # <<>>
      BY <2>1, <3>1, <3>2 DEF LifeInv, DysksInv, Gone, Loaded, Held
    <3>3. CASE script' = <<>>
      <4>1. \A d \in Dysks : dysk'[d] \in {"none", "lost", "stranded"}
        BY <2>1, <3>3 DEF Abandoned
      <4>2. Held({"reading", "mounted", "deleting"})' = {} /\ Held({"deleting"})' = {}
        BY <4>1 DEF Held
      <4>3. Gone'
        BY <2>13, <3>3 DEF Gone
      <4> QED BY <2>1, <4>2, <4>3 DEF LifeInv, DysksInv
    <3> QED BY <3>2, <3>3
  <2>17. LifeTypes'
    <3>1. dysk' \in [Dysks -> Places]
      BY <2>1 DEF LifeInv, LifeTypes, Places, Abandoned
    <3>2. ptr'["worker_thread"] = ptr["worker_thread"]
      BY <2>7, <2>9, ResourcesAre
    <3> QED BY <2>1, <2>9, <3>1, <3>2 DEF LifeInv, LifeTypes
  <2>18. LoadingInv'
    BY <1>2, <2>1 DEF LoadingInv, Tearing
  <2>19. KeptInv'
    <3>1. SUFFICES ASSUME NEW q \in Resources, ptr'[q] = "kept"
                   PROVE  /\ q = "tasks_slab" /\ sent' /\ Len(script') <= 5
                          /\ Held(IF Gone THEN {"lost"} ELSE {"deleting"})' # {}
      BY DEF KeptInv
    <3>2. q = "tasks_slab" /\ sent /\ n - 1 <= 5 /\ Held({"deleting"}) # {}
      <4>1. ~Gone
        BY <1>1 DEF Gone
      <4>2. CASE ptr[q] = "kept"
        BY <2>2, <4>1, <4>2 DEF LifeInv, KeptInv
      <4>3. CASE ptr[q] # "kept"
        <5>1. q = r /\ r = "tasks_slab" /\ Held({"deleting"}) # {}
          BY <2>9, <3>1, <4>3
        <5>2. sent
          BY <5>1 DEF LifeInv, DysksInv
        <5>3. n = 6
          BY <2>11, <5>1, <5>2 DEF Place
        <5> QED BY <5>1, <5>2, <5>3
      <4> QED BY <4>2, <4>3
    <3>3. PICK d \in Dysks : dysk[d] = "deleting"
      BY <3>2 DEF Held
    <3>4. dysk'[d] = IF script' # <<>> THEN "deleting" ELSE "lost"
      BY <2>1, <3>3 DEF Abandoned
    <3>5. Gone' <=> script' = <<>>
      BY <2>13 DEF Gone
    <3>6. Held(IF Gone THEN {"lost"} ELSE {"deleting"})' # {}
      BY <3>4, <3>5 DEF Held
    <3> QED BY <2>1, <2>4, <3>2, <3>6
  <2> QED BY <2>1, <2>4, <2>14, <2>15, <2>16, <2>17, <2>18, <2>19, NoTrouble DEF LifeInv
<1> QED BY <1>3, <1>4


-----------------------------------------------------------------------------
(***************************************************************************)
(* The steps of the thread and of the processes.                           *)
(***************************************************************************)
\* The loader does nothing.
Stands == UNCHANGED <<script, failed, ptr, stop, sent, loads>>

LEMMA LoaderStands ==
  ASSUME LifeInv, Stands, oops' = "none",
         (sent /\ ~Loaded) \/ (~Tearing /\ script = <<>>) => fds' = fds,
         thread \in {"gone", "never"} => thread' = thread
  PROVE  /\ ScriptInv' /\ LoadingInv' /\ LoadedInv' /\ FailedInv' /\ TroubleExplained'
         /\ Loaded' = Loaded /\ Gone' = Gone
<1>1. Loaded' = Loaded /\ Gone' = Gone
  BY DEF Stands, Loaded, Gone
<1>2. ScriptInv'
  BY DEF LifeInv, ScriptInv, Whole, Tearing, Stands
<1>3. LoadingInv'
  BY DEF LifeInv, LoadingInv, Tearing, Stands
<1>4. LoadedInv'
  BY <1>1 DEF LifeInv, LoadedInv, Stands
<1>5. FailedInv'
  BY DEF LifeInv, FailedInv, FreedFirst, Stands
<1> QED BY <1>1, <1>2, <1>3, <1>4, <1>5, NoTrouble

LEMMA LifeTypesStand ==
  ASSUME LifeInv, Stands, oops' = "none",
         thread' \in {"none", "ready", "runs", "gone", "never"},
         thread' = "none" <=> thread = "none",
         working' \in BOOLEAN,
         count' \in (-1 - Cardinality(Dysks))..Cardinality(Dysks),
         dysk' \in [Dysks -> Places],
         inside' \in [Callers -> Dysks \cup {None}],
         fds' \subseteq Callers, disks' \subseteq Dysks, early' \subseteq Dysks
  PROVE  LifeTypes'
BY DEF LifeInv, LifeTypes, Stands

\* The module is there as long as its thread has work, which it finds its
\* memory for.
LEMMA RunsWithMemory ==
  ASSUME LifeInv, thread \in {"ready", "runs"}
  PROVE  ~Gone /\ CanQueue
<1>1. ptr["worker_thread"] = "live" /\ failed = "none"
  BY ThreadPointer DEF LifeInv, LifeTypes
<1>2. CASE sent
  <2>1. Loaded \/ ~(Len(script) <= 7)
    BY <1>2 DEF LifeInv, LoadedInv
  <2>2. ~Gone
    <3>1. script = <<>> => Len(script) <= 7
      OBVIOUS
    <3> QED BY <2>1, <3>1 DEF Gone
  <2>3. Loaded \/ (Len(script) >= Place["tasks_slab"] /\ Len(script) >= Place["head"])
    <3>1. Place["tasks_slab"] = 6 /\ Place["head"] = 7
      BY DEF Place
    <3>2. Len(script) \in Nat
      BY DEF LifeInv, ScriptInv
    <3> QED BY <2>1, <3>1, <3>2
  <2>4. "tasks_slab" \in DOMAIN FreeSteps /\ "head" \in DOMAIN FreeSteps
    BY ResourcesAre
  <2>5. ptr["tasks_slab"] = "live" /\ ptr["head"] = "live"
    BY <1>2, <2>3, <2>4 DEF LifeInv, LoadedInv
  <2> QED BY <2>2, <2>5 DEF CanQueue
<1>3. CASE ~sent
  <2>1. \A r \in Resources :
          ptr[r] = IF script # <<>> /\ Len(script) + Place[r] <= 9 THEN "live" ELSE "null"
    BY <1>1, <1>3 DEF LifeInv, LoadingInv, Tearing
  <2>2. script # <<>> /\ Len(script) + 8 <= 9
    BY <1>1, <2>1, ResourcesAre DEF Place
  <2>3. Len(script) \in Nat
    BY DEF LifeInv, ScriptInv
  <2>4. \A r \in {"tasks_slab", "head"} : r \in Resources /\ Len(script) + Place[r] <= 9
    BY <2>2, <2>3, ResourcesAre DEF Place
  <2>5. ptr["tasks_slab"] = "live" /\ ptr["head"] = "live"
    BY <2>1, <2>2, <2>4
  <2> QED BY <2>2, <2>5 DEF CanQueue, Gone
<1> QED BY <1>2, <1>3

LEMMA DysksStand ==
  ASSUME LifeInv, Stands, UNCHANGED <<dysk, count, early>>, Gone' = Gone
  PROVE  DysksInv' /\ KeptInv'
BY DEF LifeInv, DysksInv, KeptInv, Held, Stands

LEMMA QuietStepsOk ==
  ASSUME LifeInv,
         \/ ThreadStarts \/ ThreadStops
         \/ \E p \in Callers : Open(p) \/ Close(p)
         \/ \E d \in Dysks : OpenDisk(d) \/ CloseDisk(d)
         \/ UNCHANGED lifeVars /\ oops = "none"
  PROVE  LifeInv'
<1>1. Stands /\ oops' = "none" /\ UNCHANGED <<dysk, count, early, inside>>
  BY DEF ThreadStarts, ThreadStops, Open, Close, OpenDisk, CloseDisk, Quiet, Stands, loader,
         users, lifeVars
<1>2. /\ thread' \in {"none", "ready", "runs", "gone", "never"}
      /\ thread' = "none" <=> thread = "none"
      /\ thread \in {"gone", "never"} => thread' = thread
      /\ working' \in BOOLEAN
  BY DEF ThreadStarts, ThreadStops, Working, Open, Close, OpenDisk, CloseDisk, loader, lifeVars,
         LifeInv, LifeTypes
<1>3. fds' \subseteq Callers /\ disks' \subseteq Dysks
  BY DEF ThreadStarts, ThreadStops, Open, Close, OpenDisk, CloseDisk, users, lifeVars,
         LifeInv, LifeTypes
<1>4. (~Tearing /\ script = <<>>) => fds' = fds
  <2>1. SUFFICES ASSUME ~Tearing, script = <<>> PROVE fds' = fds
    OBVIOUS
  <2>2. ptr["device"] = "null" /\ fds = {}
    BY <2>1, ResourcesAre DEF LifeInv, LoadingInv
  <2> QED BY <2>2 DEF ThreadStarts, ThreadStops, Open, Close, OpenDisk, CloseDisk, users, lifeVars,
             Calls
<1>5. sent /\ ~Loaded => fds' = fds
  <2>1. SUFFICES ASSUME sent, ~Loaded PROVE fds' = fds
    OBVIOUS
  <2>2. fds = {} /\ failed = "none"
    BY <2>1 DEF LifeInv, LoadedInv
  <2>3. ASSUME NEW p \in Callers, Open(p)
        PROVE  FALSE
    <3>1. ptr["device"] = "live" /\ ~Unloading
      BY <2>2, <2>3 DEF Open
    <3>2. script = <<>>
      BY <2>1, <3>1, UnloadingIsTearing DEF LifeInv, Tearing
    <3>3. Len(script) = 0 /\ "device" \in DOMAIN FreeSteps /\ Place["device"] = 5
      BY <3>2, ResourcesAre DEF Place
    <3>4. ptr["device"] # "live"
      BY <2>1, <3>3 DEF LifeInv, LoadedInv
    <3> QED BY <3>1, <3>4
  <2> QED BY <2>2, <2>3 DEF ThreadStarts, ThreadStops, Close, OpenDisk, CloseDisk, users, lifeVars,
             Calls
<1>6. ScriptInv' /\ LoadingInv' /\ LoadedInv' /\ FailedInv' /\ TroubleExplained' /\ Gone' = Gone
  BY <1>1, <1>2, <1>4, <1>5, LoaderStands
<1>7. LifeTypes'
  BY <1>1, <1>2, <1>3, LifeTypesStand DEF LifeInv, LifeTypes
<1>8. DysksInv' /\ KeptInv'
  BY <1>1, <1>6, DysksStand
<1> QED BY <1>6, <1>7, <1>8 DEF LifeInv


\* The dysks that have a slot.
WithSlot == Held({"reading", "mounted", "deleting"})

LEMMA CountIsSmall ==
  ASSUME NEW A \in SUBSET Dysks, NEW B \in SUBSET Dysks
  PROVE  /\ Cardinality(A) \in Nat /\ Cardinality(B) \in Nat
         /\ Cardinality(A) \in (-1 - Cardinality(Dysks))..Cardinality(Dysks)
         /\ Cardinality(A) - 1 - Cardinality(B) \in (-1 - Cardinality(Dysks))..Cardinality(Dysks)
<1>1. /\ IsFiniteSet(A) /\ Cardinality(A) <= Cardinality(Dysks)
      /\ IsFiniteSet(B) /\ Cardinality(B) <= Cardinality(Dysks)
  BY LifeParametersAssumption, FS_Subset
<1>2. Cardinality(A) \in Nat /\ Cardinality(B) \in Nat /\ Cardinality(Dysks) \in Nat
  BY <1>1, LifeParametersAssumption, FS_CardinalityType
<1> QED BY <1>1, <1>2

\* A step that gives a dysk a slot, takes it away, or moves it on.
LEMMA OneDyskMoves ==
  ASSUME LifeInv, Stands, oops' = "none", ~Gone, UNCHANGED <<thread, working, fds, disks>>,
         inside' \in [Callers -> Dysks \cup {None}],
         NEW d \in Dysks, NEW place \in {"none", "reading", "mounted", "deleting", "hung"},
         CanQueue,
         dysk' = [dysk EXCEPT ![d] = place], dysk[d] # place,
         dysk[d] \in {"none", "reading", "mounted", "deleting"},
         count' = count + (IF dysk[d] = "none" THEN 1 ELSE IF place \in {"none", "hung"} THEN -1 ELSE 0),
         early' = IF dysk[d] = "none" /\ ~sent THEN early \cup {d} ELSE early,
         dysk[d] = "none" => place = "reading",
         place = "deleting" => sent, place \in {"none", "hung"} => dysk[d] = "deleting"
  PROVE  LifeInv'
<1> DEFINE W == WithSlot
           E == early
<1>1. /\ ScriptInv' /\ LoadingInv' /\ LoadedInv' /\ FailedInv' /\ TroubleExplained'
      /\ Gone' = Gone
  BY LoaderStands
<1>2. /\ W \in SUBSET Dysks /\ E \in SUBSET Dysks /\ WithSlot' \in SUBSET Dysks
      /\ early' \in SUBSET Dysks
  BY DEF WithSlot, Held, LifeInv, LifeTypes
<1>3. /\ IsFiniteSet(W) /\ Cardinality(W) \in Nat
      /\ IsFiniteSet(E) /\ Cardinality(E) \in Nat
  BY <1>2, LifeParametersAssumption, FS_Subset, FS_CardinalityType
<1>4. /\ dysk' \in [Dysks -> Places]
      /\ dysk'[d] = place /\ \A e \in Dysks : e # d => dysk'[e] = dysk[e]
  BY DEF LifeInv, LifeTypes, Places
<1>5. WithSlot' = IF dysk[d] = "none" THEN W \cup {d} ELSE IF place \in {"none", "hung"} THEN W \ {d} ELSE W
  BY <1>4 DEF WithSlot, Held, LifeInv, LifeTypes
<1>6. d \in W <=> dysk[d] # "none"
  BY DEF WithSlot, Held
<1>7. Cardinality(WithSlot')
        = Cardinality(W) + (IF dysk[d] = "none" THEN 1 ELSE IF place \in {"none", "hung"} THEN -1 ELSE 0)
  <2>1. Cardinality(W \cup {d}) = IF d \in W THEN Cardinality(W) ELSE Cardinality(W) + 1
    BY <1>3, FS_AddElement
  <2>2. Cardinality(W \ {d}) = IF d \in W THEN Cardinality(W) - 1 ELSE Cardinality(W)
    BY <1>3, FS_RemoveElement
  <2>3. CASE dysk[d] = "none"
    BY <1>3, <1>5, <1>6, <2>1, <2>3
  <2>4. CASE dysk[d] # "none" /\ place \in {"none", "hung"}
    BY <1>3, <1>5, <1>6, <2>2, <2>4
  <2>5. CASE dysk[d] # "none" /\ place \notin {"none", "hung"}
    BY <1>3, <1>5, <2>5
  <2> QED BY <2>3, <2>4, <2>5
<1>8. sent' = sent /\ KeptInv'
  <2>1. \A r \in Resources : ptr'[r] # "kept"
    BY NothingKept DEF Stands
  <2> QED BY <2>1 DEF KeptInv, Stands
<1>9. CASE sent
  <2>1. count = Cardinality(W) - 1 - Cardinality(E)
    BY <1>9 DEF LifeInv, DysksInv, WithSlot
  <2>2. count' = Cardinality(WithSlot') - 1 - Cardinality(early')
    BY <1>3, <1>7, <1>9, <2>1
  <2>3. count' \in (-1 - Cardinality(Dysks))..Cardinality(Dysks)
    BY ONLY <1>2, <2>2, CountIsSmall
  <2>4. LifeTypes'
    BY <1>2, <1>4, <2>3, LifeTypesStand DEF LifeInv, LifeTypes
  <2>5. DysksInv'
    BY <1>1, <1>8, <1>9, <2>2 DEF DysksInv, WithSlot
  <2> QED BY <1>1, <1>8, <2>4, <2>5 DEF LifeInv
<1>10. CASE ~sent
  <2>1. Held({"reading", "mounted"}) = E /\ Held({"deleting"}) = {} /\ count = Cardinality(E)
    BY <1>10 DEF LifeInv, DysksInv
  <2>2. dysk[d] # "deleting" /\ place # "deleting"
    BY <1>10, <2>1 DEF Held
  <2>3. place \notin {"none", "hung"}
    BY <2>2
  <2>4. Held({"reading", "mounted"})' = early'
    BY <1>4, <1>10, <2>1, <2>2, <2>3 DEF Held
  <2>5. Held({"deleting"})' = {}
    BY <1>4, <2>1, <2>2 DEF Held
  <2>6. count' = Cardinality(early')
    <3>1. Cardinality(E \cup {d}) = IF d \in E THEN Cardinality(E) ELSE Cardinality(E) + 1
      BY <1>3, FS_AddElement
    <3>2. dysk[d] = "none" => d \notin E
      BY <2>1 DEF Held
    <3>3. CASE dysk[d] = "none"
      BY <1>3, <1>10, <2>1, <3>1, <3>2, <3>3
    <3>4. CASE dysk[d] # "none"
      BY <1>3, <2>1, <2>3, <3>4
    <3> QED BY <3>3, <3>4
  <2>7. count' \in (-1 - Cardinality(Dysks))..Cardinality(Dysks)
    BY ONLY <1>2, <2>6, CountIsSmall
  <2>8. LifeTypes'
    BY <1>2, <1>4, <2>7, LifeTypesStand DEF LifeInv, LifeTypes
  <2>9. DysksInv'
    BY <1>1, <1>8, <1>10, <2>4, <2>5, <2>6 DEF DysksInv
  <2> QED BY <1>1, <1>8, <2>8, <2>9 DEF LifeInv
<1> QED BY <1>9, <1>10


LEMMA ThreadRunsOk ==
  ASSUME LifeInv, ThreadRuns
  PROVE  LifeInv'
<1>1. /\ oops' = "none" /\ thread = "runs"
      /\ Stands /\ UNCHANGED <<thread, working, fds, disks, early>>
  BY DEF ThreadRuns, Working, Quiet, Stands, loader
<1>2. ~Gone /\ CanQueue
  BY <1>1, RunsWithMemory
<1>3. PICK d \in Dysks :
        \/ /\ dysk[d] = "reading"
           /\ dysk' = [dysk EXCEPT ![d] = "mounted"]
           /\ inside' = [p \in Callers |-> IF inside[p] = d THEN None ELSE inside[p]]
           /\ UNCHANGED count
        \/ /\ dysk[d] = "deleting"
           /\ dysk' = [dysk EXCEPT ![d] = "none"]
           /\ count' = count - 1
           /\ UNCHANGED inside
  BY DEF ThreadRuns
<1>4. inside' \in [Callers -> Dysks \cup {None}] /\ count \in Int
  <2>1. Cardinality(Dysks) \in Nat
    BY DysksFinite
  <2> QED BY <1>3, <2>1 DEF LifeInv, LifeTypes
<1>5. CASE dysk[d] = "reading"
  <2> DEFINE place == "mounted"
  <2>1. dysk' = [dysk EXCEPT ![d] = place] /\ count' = count + 0
    BY <1>3, <1>4, <1>5
  <2> QED BY <1>1, <1>2, <1>4, <1>5, <2>1, OneDyskMoves
<1>6. CASE dysk[d] = "deleting"
  <2> DEFINE place == "none"
  <2>1. dysk' = [dysk EXCEPT ![d] = place] /\ count' = count + (-1)
    BY <1>3, <1>4, <1>6
  <2> QED BY <1>1, <1>2, <1>4, <1>6, <2>1, OneDyskMoves
<1> QED BY <1>3, <1>5, <1>6

LEMMA ThreadHangsOk ==
  ASSUME LifeInv, ThreadHangs
  PROVE  LifeInv'
<1>1. PICK d \in disks : dysk[d] = "deleting" /\ dysk' = [dysk EXCEPT ![d] = "hung"]
  BY DEF ThreadHangs
<1>2. /\ oops' = "none" /\ thread = "runs" /\ count' = count - 1
      /\ Stands /\ UNCHANGED <<thread, working, fds, inside, disks, early>>
  BY DEF ThreadHangs, Working, Quiet, Stands, loader
<1>3. ~Gone /\ CanQueue
  BY <1>2, RunsWithMemory
<1>4. d \in Dysks /\ inside' \in [Callers -> Dysks \cup {None}] /\ count \in Int
  <2>1. Cardinality(Dysks) \in Nat
    BY DysksFinite
  <2> QED BY <1>2, <2>1 DEF LifeInv, LifeTypes
<1> DEFINE place == "hung"
<1>5. dysk' = [dysk EXCEPT ![d] = place] /\ count' = count + (-1)
  BY <1>1, <1>2, <1>4
<1> QED BY <1>1, <1>2, <1>3, <1>4, <1>5, OneDyskMoves

\* The memory of the worker is there once the init is over.
LEMMA SentHasMemory ==
  ASSUME LifeInv, sent, NEW p \in fds, ~Gone
  PROVE  CanQueue
<1>1. Loaded
  BY DEF LifeInv, LoadedInv
<1> QED BY <1>1, ResourcesAre DEF LifeInv, LoadedInv, CanQueue

LEMMA MountOk ==
  ASSUME LifeInv, NEW p \in Callers, NEW d \in Dysks, Mount(p, d)
  PROVE  LifeInv'
<1>1. p \in fds /\ ~Gone /\ dysk[d] = "none"
  BY DEF Mount, Calls
<1>2. CASE ~CanQueue
  <2>1. ~sent
    BY <1>1, <1>2, SentHasMemory
  <2>2. Breaks("no_worker")
    BY <1>2 DEF Mount
  <2> QED BY <2>1, <2>2, BreaksOk
<1>3. CASE CanQueue
  <2>1. /\ oops' = "none"
        /\ dysk' = [dysk EXCEPT ![d] = "reading"]
        /\ inside' = [inside EXCEPT ![p] = d]
        /\ count' = count + 1
        /\ early' = IF sent THEN early ELSE early \cup {d}
        /\ Stands /\ UNCHANGED <<thread, working, fds, disks>>
    BY <1>3 DEF Mount, Quiet, Stands, loader
  <2>2. inside' \in [Callers -> Dysks \cup {None}]
    BY <2>1 DEF LifeInv, LifeTypes
  <2> QED BY <1>1, <1>3, <2>1, <2>2, OneDyskMoves
<1> QED BY <1>2, <1>3

LEMMA DeleteOk ==
  ASSUME LifeInv, NEW d \in Dysks, Delete(d), ~Gone, sent => CanQueue
  PROVE  LifeInv'
<1>1. CASE ~sent
  <2>1. Breaks("no_worker")
    BY <1>1 DEF Delete
  <2> QED BY <1>1, <2>1, BreaksOk
<1>2. CASE sent
  <2>1. /\ oops' = "none" /\ dysk[d] = "mounted"
        /\ dysk' = [dysk EXCEPT ![d] = "deleting"]
        /\ Stands /\ UNCHANGED <<thread, working, count, fds, inside, disks, early>>
    BY <1>2 DEF Delete, Quiet, Stands, loader
  <2>2. inside' \in [Callers -> Dysks \cup {None}] /\ count \in Int
    <3>1. Cardinality(Dysks) \in Nat
      BY DysksFinite
    <3> QED BY <2>1, <3>1 DEF LifeInv, LifeTypes
  <2>3. count' = count + 0
    BY <2>1, <2>2
  <2> QED BY <1>2, <2>1, <2>2, <2>3, OneDyskMoves
<1> QED BY <1>1, <1>2

LEMMA CallGoneOk ==
  ASSUME LifeInv, CallGone
  PROVE  LifeInv'
<1>1. Breaks("code_is_gone") /\ ((Gone /\ fds # {}) \/ Held({"stranded"}) # {})
  BY DEF CallGone
<1>2. ASSUME Gone, fds # {}, failed = "none"
      PROVE  FALSE
  <2>1. ~sent
    BY <1>2 DEF LifeInv, LoadedInv, Gone
  <2> QED BY <1>2, <2>1 DEF LifeInv, LoadingInv, Tearing, Gone
<1> QED BY <1>1, <1>2, BreaksOk


LEMMA RmmodOk ==
  ASSUME LifeInv, Rmmod
  PROVE  LifeInv'
<1>1. /\ oops' = "none" /\ Loaded /\ fds = {} /\ script' = Unload
      /\ UNCHANGED <<failed, ptr, thread, stop, working, sent, count, dysk, fds, inside, disks,
                     early, loads>>
  BY DEF Rmmod, Quiet, users
<1>2. sent /\ failed = "none" /\ Tearing
  BY <1>1 DEF Loaded, LifeInv, LoadedInv, Tearing
<1>3. PICK n \in Nat : n = 9
  OBVIOUS
<1>4. script' \in Seq(Steps) /\ Len(script') = n
  BY <1>1, <1>3, UnloadIs DEF EndsAsUnload
<1>5. Whole' = Unload
  <2>1. Whole' = <<>> \o Unload
    BY <1>1, <1>2, CleanUpIs DEF Whole, Tearing, ScriptAfter
  <2> QED BY ONLY <2>1, PartsAre, ConcatEmptySeq
<1>6. ScriptInv'
  BY <1>1, <1>4, <1>5, ScriptStarts
<1>7. script' # <<>>
  BY <1>3, <1>4
<1>8. ~Loaded' /\ ~Gone' /\ ~Gone
  BY <1>1, <1>7 DEF Loaded, Gone
<1>9. LoadedInv'
  <2>1. \A r \in DOMAIN FreeSteps : Place[r] \in Nat /\ Place[r] <= 7
    BY ResourcesAre DEF Place
  <2>2. \A r \in DOMAIN FreeSteps : n >= Place[r] /\ ptr'[r] = "live"
    BY <1>1, <1>2, <1>3, <2>1 DEF LifeInv, LoadedInv
  <2>3. ~(n <= 8) /\ ~(n <= 7)
    BY <1>3
  <2> QED BY <1>1, <1>2, <1>4, <1>8, <2>2, <2>3 DEF LifeInv, LoadedInv
<1>10. DysksInv'
  BY <1>1, <1>2, <1>8 DEF LifeInv, DysksInv, Held
<1>11. LifeTypes'
  BY <1>1 DEF LifeInv, LifeTypes
<1>12. LoadingInv' /\ FailedInv'
  BY <1>1, <1>2 DEF LoadingInv, FailedInv, Tearing
<1>13. KeptInv'
  <2>1. CanQueue
    BY <1>1, <1>2, ResourcesAre DEF LifeInv, LoadedInv, CanQueue
  <2>2. \A r \in Resources : ptr'[r] # "kept"
    BY <1>1, <2>1, NothingKept
  <2> QED BY <2>2 DEF KeptInv
<1> QED BY <1>1, <1>6, <1>9, <1>10, <1>11, <1>12, <1>13, NoTrouble DEF LifeInv

LEMMA InsmodOk ==
  ASSUME LifeInv, Insmod
  PROVE  LifeInv'
<1>1. /\ oops' = "none" /\ Gone /\ fds = {} /\ loads < MaxLoads /\ loads' = loads + 1
      /\ script' = InitSteps /\ failed' = "none"
      /\ ptr' = [r \in Resources |-> "null"]
      /\ thread' = "none" /\ stop' = FALSE /\ working' = FALSE
      /\ count' = 0 /\ sent' = FALSE /\ early' = {}
      /\ dysk' = [d \in Dysks |-> IF dysk[d] = "lost" THEN "none" ELSE dysk[d]]
      /\ UNCHANGED <<fds, inside, disks>>
  BY DEF Insmod, Quiet
<1>2. ~Tearing' /\ Whole' = InitSteps
  BY <1>1 DEF Tearing, Whole
<1>3. ScriptInv'
  BY <1>1, <1>2, PartsAre, ScriptStarts
<1>4. PICK n \in Nat : n = 9
  OBVIOUS
<1>5. Len(script') = n /\ script' # <<>>
  BY <1>1, <1>4 DEF InitSteps
<1>6. LoadingInv'
  <2>1. \A r \in Resources : ~(n + Place[r] <= 9)
    BY <1>4, ResourcesAre DEF Place
  <2> QED BY <1>1, <1>5, <2>1 DEF LoadingInv
<1>7. DysksInv'
  <2>1. WithSlot = {}
    BY <1>1 DEF LifeInv, DysksInv, WithSlot
  <2>2. Held({"reading", "mounted"})' = {} /\ Held({"deleting"})' = {}
    BY <1>1, <2>1 DEF WithSlot, Held
  <2>3. Cardinality(early') = 0
    BY <1>1, FS_EmptySet
  <2>4. ~Gone'
    BY <1>5 DEF Gone
  <2> QED BY <1>1, <2>2, <2>3, <2>4 DEF DysksInv
<1>8. LifeTypes'
  <2>1. Cardinality(Dysks) \in Nat
    BY DysksFinite
  <2>2. count' \in (-1 - Cardinality(Dysks))..Cardinality(Dysks)
    BY <1>1, <2>1
  <2>3. loads' \in 0..MaxLoads
    BY <1>1, LifeParametersAssumption DEF LifeInv, LifeTypes
  <2>4. ptr'["worker_thread"] = "null"
    BY <1>1, ResourcesAre
  <2>5. ptr' \in [Resources -> {"null", "error", "live", "dead", "kept"}]
    BY <1>1
  <2>6. dysk' \in [Dysks -> Places]
    BY <1>1 DEF LifeInv, LifeTypes, Places
  <2> QED BY <1>1, <2>2, <2>3, <2>4, <2>5, <2>6 DEF LifeInv, LifeTypes
<1>9. LoadedInv' /\ FailedInv' /\ KeptInv'
  BY <1>1 DEF LoadedInv, FailedInv, KeptInv
<1> QED BY <1>1, <1>3, <1>6, <1>7, <1>8, <1>9, NoTrouble DEF LifeInv

-----------------------------------------------------------------------------
(***************************************************************************)
(* The life of the module.                                                 *)
(***************************************************************************)
\* The process that calls is in the module's code, and so is its thread.
LEMMA StepKeepsLifeInv ==
  ASSUME LifeInv, [LifeNext]_lifeVars
  PROVE  LifeInv'
<1>1. CASE UNCHANGED lifeVars
  <2>1. /\ UNCHANGED <<script, failed, ptr, thread, stop, working, sent, loads, count,
                       dysk, fds, inside, disks, early, oops>>
    BY <1>1 DEF lifeVars, loader, users
  <2>2. LifeTypes' /\ TroubleExplained' /\ DysksInv' /\ KeptInv'
    BY <2>1 DEF LifeInv, LifeTypes, TroubleExplained, DysksInv, KeptInv, Held, Gone, Loaded
  <2>3. ScriptInv' /\ LoadingInv' /\ LoadedInv' /\ FailedInv'
    BY <2>1 DEF LifeInv, ScriptInv, Whole, LoadingInv, LoadedInv, FailedInv, FreedFirst, Tearing,
            Loaded
  <2> QED BY <2>2, <2>3 DEF LifeInv
<1>2. CASE LoaderStep
  BY <1>2, InitStepOk, InitFailsOk, PublishOk, KthreadStopOk, WaitForWorkerOk, FreeResourceOk
     DEF LoaderStep
<1>3. CASE ThreadStep
  BY <1>3, QuietStepsOk, ThreadRunsOk, ThreadHangsOk DEF ThreadStep
<1>4. CASE UserStep
  <2>1. CASE Insmod \/ Rmmod \/ CallGone
    BY <2>1, InsmodOk, RmmodOk, CallGoneOk
  <2>2. ASSUME NEW p \in Callers, Open(p) \/ Close(p)
        PROVE  LifeInv'
    BY <2>2, QuietStepsOk
  <2>3. ASSUME NEW p \in Callers, NEW d \in Dysks, Mount(p, d) \/ Unmount(p, d)
        PROVE  LifeInv'
    BY <2>3, MountOk, DeleteOk, SentHasMemory DEF Unmount, Calls
  <2>4. ASSUME NEW d \in Dysks, ThreadFails(d)
        PROVE  LifeInv'
    BY <2>4, DeleteOk, RunsWithMemory DEF ThreadFails, Working
  <2>5. ASSUME NEW d \in Dysks, OpenDisk(d) \/ CloseDisk(d)
        PROVE  LifeInv'
    BY <2>5, QuietStepsOk
  <2> QED BY <1>4, <2>1, <2>2, <2>3, <2>4, <2>5 DEF UserStep
<1> QED BY <1>1, <1>2, <1>3, <1>4 DEF LifeNext


LEMMA LifeInitInv == ASSUME LifeInit PROVE LifeInv
<1>1. ~Tearing /\ script = <<>> /\ Gone
  BY DEF LifeInit, Tearing, Gone, Loaded
<1>2. ScriptInv
  <2>1. Whole = InitSteps /\ script \in Seq(Steps) /\ Len(script) = 0
    BY <1>1 DEF Whole
  <2>2. Len(script) <= Len(Whole) /\ 1..Len(script) = {}
    BY <2>1, PartsAre
  <2> QED BY <2>1, <2>2 DEF ScriptInv
<1>3. LoadingInv /\ LoadedInv /\ FailedInv /\ KeptInv /\ TroubleExplained
  BY <1>1 DEF LifeInit, LoadingInv, LoadedInv, FailedInv, KeptInv, TroubleExplained
<1>4. DysksInv
  <2>1. WithSlot = {} /\ Held({"deleting"}) = {} /\ Cardinality(early) = 0
    BY FS_EmptySet DEF LifeInit, WithSlot, Held
  <2> QED BY <1>1, <2>1 DEF LifeInit, DysksInv, WithSlot
<1>5. LifeTypes
  <2>1. Cardinality(Dysks) \in Nat
    BY DysksFinite
  <2>2. count \in (-1 - Cardinality(Dysks))..Cardinality(Dysks)
    BY <2>1 DEF LifeInit
  <2>3. ptr["worker_thread"] = "null"
    BY ResourcesAre DEF LifeInit
  <2>4. loads \in 0..MaxLoads
    BY LifeParametersAssumption DEF LifeInit
  <2> QED BY <2>2, <2>3, <2>4 DEF LifeInit, LifeTypes, Places
<1> QED BY <1>2, <1>3, <1>4, <1>5 DEF LifeInv

\* The invariant holds in every reachable state.
LEMMA LifeInvariance == LifeSpec => []LifeInv
<1>1. LifeInit => LifeInv
  BY LifeInitInv
<1>2. LifeInv /\ [LifeNext]_lifeVars => LifeInv'
  BY StepKeepsLifeInv
<1> QED BY <1>1, <1>2, PTL DEF LifeSpec

\* What the invariant says of a module that is gone, of the thread and of the
\* count.
LEMMA LifeInvImplies ==
  ASSUME LifeInv
  PROVE  LeftIsOfDysks /\ ThreadHasMemory /\ CountMatches /\ TroubleExplained
<1>1. LeftIsOfDysks
  <2>0. /\ \A r \in Resources : ptr[r] = "kept" => r = "tasks_slab"
        /\ Gone /\ ptr["tasks_slab"] = "kept" => Held({"lost"}) # {} /\ failed = "none"
    BY ResourcesAre DEF LifeInv, KeptInv, LoadedInv
  <2>1. SUFFICES ASSUME Gone
                 PROVE  /\ \A r \in DOMAIN FreeSteps : ptr[r] # "live"
                        /\ thread \in {"none", "gone", "never"}
    BY <2>0, ResourcesAre DEF LeftIsOfDysks
  <2>2. script = <<>> /\ ~Loaded
    BY <2>1 DEF Gone
  <2>3. PICK n \in Nat : n = 0
    OBVIOUS
  <2>4. Len(script) = n
    BY <2>2, <2>3
  <2>5. \A r \in DOMAIN FreeSteps : r \in Resources /\ n < Place[r]
    BY <2>3, ResourcesAre DEF Place
  <2>6. CASE sent
    <3>1. \A r \in DOMAIN FreeSteps : ~(n >= Place[r]) /\ n <= 7
      BY <2>3, <2>5, ResourcesAre DEF Place
    <3>2. "az_slab" \in DOMAIN FreeSteps
      BY ResourcesAre
    <3> QED BY <2>2, <2>4, <2>6, <3>1, <3>2 DEF LifeInv, LoadedInv
  <2>7. CASE ~sent /\ failed = "none"
    <3>1. \A r \in Resources : ptr[r] = "null"
      BY <2>2, <2>7 DEF LifeInv, LoadingInv, Tearing
    <3> QED BY <2>5, <3>1, ResourcesAre DEF LifeInv, LifeTypes
  <2>8. CASE failed # "none"
    <3>1. \A r \in DOMAIN FreeSteps : ptr[r] # "live"
      BY <2>4, <2>5, <2>8 DEF LifeInv, FailedInv
    <3> QED BY <2>8, <3>1, ThreadPointer
  <2> QED BY <2>6, <2>7, <2>8
<1>2. ThreadHasMemory
  BY RunsWithMemory DEF ThreadHasMemory
<1>3. CountMatches
  <2>1. Loaded => sent /\ ~Gone
    BY DEF Loaded, Gone
  <2> QED BY <2>1 DEF LifeInv, DysksInv, CountMatches
<1> QED BY <1>1, <1>2, <1>3 DEF LifeInv

\* Whichever step of the init failed, and however often the module is loaded
\* and unloaded with whatever processes using it: when it is gone its thread
\* runs no more and nothing of its own is left, and the kernel keeps the
\* worker's slab only for a deletion that was queued when a module that was
\* loaded went (_init_module 1012-1040, unload 992-1003, dysk_worker_teardown
\* 234-238).  The disks of mounted dysks are not among what is given back.
THEOREM OnlyDysksLeave == LifeSpec => []LeftIsOfDysks
<1>1. LifeInv => LeftIsOfDysks
  BY LifeInvImplies
<1> QED BY <1>1, LifeInvariance, PTL

\* The list of what can go wrong in the life of the module is complete
\* (endpoint_stop, dysk_worker_teardown, dysk_add, io_release).
THEOREM AllTroubleIsExplained == LifeSpec => []TroubleExplained
<1>1. LifeInv => TroubleExplained
  BY LifeInvImplies
<1> QED BY <1>1, LifeInvariance, PTL

\* The slab and the head of the worker's list are there whenever its thread
\* runs (dysk_worker_teardown 218-239).
THEOREM MemoryOutlivesThread == LifeSpec => []ThreadHasMemory
<1>1. LifeInv => ThreadHasMemory
  BY LifeInvImplies
<1> QED BY <1>1, LifeInvariance, PTL

\* The count is that of the dysks with a slot, less those that were mounted
\* before the init reset it (_init_module 1046).
THEOREM CountFollowsDysks == LifeSpec => []CountMatches
<1>1. LifeInv => CountMatches
  BY LifeInvImplies
<1> QED BY <1>1, LifeInvariance, PTL


\* A script is a suffix of the whole one.
LEMMA SuffixByPlaces ==
  ASSUME NEW s \in Seq(Steps), NEW t \in Seq(Steps), Len(s) <= Len(t),
         \A i \in 1..Len(s) : s[i] = t[Len(t) - Len(s) + i]
  PROVE  IsSuffix(s, t)
<1> DEFINE n == Len(s)
           u == Reverse(s)
           v == Reverse(t)
<1>1. n \in Nat /\ Len(t) \in Nat
  OBVIOUS
<1>2. /\ u \in Seq(Steps) /\ Len(u) = n
      /\ \A i \in 1..n : u[i] = s[n - i + 1]
  BY <1>1 DEF Reverse
<1>3. /\ v \in Seq(Steps) /\ Len(v) = Len(t)
      /\ \A i \in 1..Len(t) : v[i] = t[Len(t) - i + 1]
  BY <1>1 DEF Reverse
<1>4. ASSUME NEW i \in 1..n
      PROVE  u[i] = v[i]
  <2>1. n - i + 1 \in 1..n /\ i \in 1..Len(t)
    BY <1>1
  <2>2. s[n - i + 1] = t[Len(t) - n + (n - i + 1)]
    BY <2>1
  <2>3. Len(t) - n + (n - i + 1) = Len(t) - i + 1
    BY <1>1, <2>1
  <2> QED BY <1>2, <1>3, <2>1, <2>2, <2>3
<1> HIDE DEF u, v
<1>5. \A i \in 1..n : u[i] \in Steps
  BY <1>2
<1>6. \A i \in 1..n : v[i] \in Steps
  BY <1>1, <1>3
<1>7. /\ SubSeq(u, 1, n) \in Seq(Steps) /\ Len(SubSeq(u, 1, n)) = n
      /\ \A i \in 1..n : SubSeq(u, 1, n)[i] = u[i]
  BY <1>1, <1>2, <1>5
<1>8. /\ SubSeq(v, 1, n) \in Seq(Steps) /\ Len(SubSeq(v, 1, n)) = n
      /\ \A i \in 1..n : SubSeq(v, 1, n)[i] = v[i]
  BY <1>1, <1>3, <1>6
<1>9. SubSeq(u, 1, n) = SubSeq(v, 1, n)
  BY <1>4, <1>7, <1>8, SeqEqual
<1> QED BY <1>2, <1>3, <1>9 DEF IsSuffix, IsPrefix, u, v

LEMMA LifeTypesOk ==
  ASSUME LifeInv
  PROVE  LifeTypeOK
<1>1. IsSuffix(script, Whole)
  BY WholeLen, SuffixByPlaces DEF LifeInv, ScriptInv
<1>2. \/ IsSuffix(script, InitSteps)
      \/ \E s \in Resources \cup {"none"} : IsSuffix(script, CleanUpAfter(s) \o Unload)
  BY <1>1 DEF Whole, ScriptAfter, LifeInv, LifeTypes
<1> QED BY <1>2 DEF LifeInv, LifeTypes, LifeTypeOK

-----------------------------------------------------------------------------
(***************************************************************************)
(* The clients.                                                            *)
(***************************************************************************)
LEMMA NodeInitInv == ASSUME NodeInit PROVE NodeInv
<1>1. /\ Loaded /\ ~Gone /\ Tearing /\ sent /\ failed = "none"
      /\ script = <<>> /\ script \in Seq(Steps)
  BY ResourcesAre DEF NodeInit, Loaded, Gone, Tearing
<1>2. LifeTypes
  <2>1. Cardinality(Dysks) \in Nat
    BY DysksFinite
  <2>2. count \in (-1 - Cardinality(Dysks))..Cardinality(Dysks)
    BY <2>1 DEF NodeInit
  <2>3. ptr["worker_thread"] = "live"
    BY ResourcesAre DEF NodeInit
  <2>4. loads \in 0..MaxLoads
    BY LifeParametersAssumption DEF NodeInit
  <2> QED BY <2>2, <2>3, <2>4 DEF NodeInit, LifeTypes, Places
<1>3. ScriptInv
  <2>1. Whole \in Seq(Steps) /\ Len(script) = 0
    BY <1>1, <1>2, WholeLen
  <2>2. Len(script) <= Len(Whole) /\ 1..Len(script) = {}
    BY <2>1
  <2> QED BY <1>1, <2>2 DEF ScriptInv
<1>4. LoadingInv /\ FailedInv /\ KeptInv /\ TroubleExplained
  BY <1>1 DEF NodeInit, LoadingInv, FailedInv, KeptInv, TroubleExplained
<1>5. LoadedInv
  BY <1>1, ResourcesAre DEF NodeInit, LoadedInv
<1>6. DysksInv
  <2>1. WithSlot = {} /\ Cardinality(WithSlot) = 0 /\ Cardinality(early) = 0
    BY FS_EmptySet DEF NodeInit, WithSlot, Held
  <2> QED BY <1>1, <2>1 DEF NodeInit, DysksInv, WithSlot
<1>7. LifeInv
  BY <1>2, <1>3, <1>4, <1>5, <1>6 DEF LifeInv
<1>8. ClientTypes /\ CommandsInv /\ LeasesInv
  <2>1. 0 \in Leases
    BY ClientParametersAssumption DEF Leases
  <2>2. NoCommand \in Command /\ NoDef \in [id : Leases, given : BOOLEAN]
    BY <2>1 DEF NoCommand, NoDef, Command
  <2>3. ClientTypes
    BY <2>1, <2>2 DEF NodeInit, ClientTypes
  <2>4. CommandsInv /\ LeasesInv
    BY DEF NodeInit, CommandsInv, LeasesInv, NoCommand, NoDef, OwnLease, OwnDysk
  <2> QED BY <2>3, <2>4
<1> QED BY <1>1, <1>7, <1>8 DEF NodeInv

\* What a client, another node or the module does is a step of the module's
\* life, or leaves it alone; the module stays published.
LEMMA NodeStepIsLifeStep ==
  ASSUME NodeNext
  PROVE  [LifeNext]_lifeVars /\ sent' = sent
<1>1. ASSUME NEW p \in Callers, Client(p)
      PROVE  [LifeNext]_lifeVars /\ sent' = sent
  <2>1. CASE StartCommand(p)
    BY <2>1 DEF StartCommand, LifeNext, UserStep, Open, loader
  <2>2. CASE EndCommand(p)
    BY <2>2 DEF EndCommand, LifeNext, UserStep, Close, loader
  <2>3. CASE Acquire(p) \/ BreakExisting(p) \/ MountWithout(p) \/ BreakLease(p)
    BY <2>3 DEF Acquire, BreakExisting, MountWithout, BreakLease, Service, lifeVars, loader
  <2>4. ASSUME NEW d \in Dysks, IoctlMount(p, d)
        PROVE  [LifeNext]_lifeVars /\ sent' = sent
    BY <2>4 DEF IoctlMount, LifeNext, UserStep, Mount, Breaks, loader
  <2>5. ASSUME NEW d \in Dysks, GetBefore(p, d)
        PROVE  [LifeNext]_lifeVars /\ sent' = sent
    BY <2>5 DEF GetBefore, Service, lifeVars, loader
  <2>6. ASSUME NEW d \in Dysks, IoctlUnmount(p, d)
        PROVE  [LifeNext]_lifeVars /\ sent' = sent
    BY <2>6 DEF IoctlUnmount, LifeNext, UserStep, Unmount, Delete, Breaks, loader
  <2> QED BY <1>1, <2>1, <2>2, <2>3, <2>4, <2>5, <2>6 DEF Client
<1>2. CASE OtherAcquires \/ OtherBreaks
  BY <1>2 DEF OtherAcquires, OtherBreaks, lifeVars, loader
<1>3. ASSUME NEW d \in Dysks, StaleIo(d)
      PROVE  [LifeNext]_lifeVars /\ sent' = sent
  BY <1>3 DEF StaleIo, LifeNext, UserStep, ThreadFails, Delete, Breaks, loader
<1>4. CASE ModuleMoves
  <2>1. LifeNext
    BY <1>4 DEF ModuleMoves, LifeNext, LoaderStep, UserStep
  <2>2. sent' = sent
    BY <1>4 DEF ModuleMoves, KthreadStop, WaitForWorker, FreeResource, ThreadStep, ThreadStarts,
                ThreadStops, ThreadRuns, ThreadHangs, Rmmod, CallGone, Breaks, loader
  <2> QED BY <2>1, <2>2
<1> QED BY <1>1, <1>2, <1>3, <1>4 DEF NodeNext

\* A command goes on, without taking a lease of its own.
LEMMA CommandGoesOn ==
  ASSUME NodeInv, NEW p \in Callers, NEW c \in Command,
         cmd' = [cmd EXCEPT ![p] = c],
         c.pc # "leased" \/ c.given, c.id <= issued,
         lease' \in {0, lease}, UNCHANGED <<issued, others, def>>
  PROVE  ClientTypes' /\ LeasesInv'
<1>1. issued \in Nat /\ 0 \in Leases
  BY ClientParametersAssumption DEF NodeInv, ClientTypes, Leases
<1>2. ClientTypes'
  BY <1>1 DEF NodeInv, ClientTypes
<1>3. \A q \in Callers : cmd'[q] = IF q = p THEN c ELSE cmd[q]
  BY DEF NodeInv, ClientTypes
<1>4. \A q \in Callers : OwnLease(q)' => q # p /\ OwnLease(q)
  BY <1>3 DEF OwnLease
<1>5. \A d \in Dysks : OwnDysk(d)' <=> OwnDysk(d)
  BY DEF OwnDysk
<1>6. lease' <= issued
  BY <1>1 DEF NodeInv, LeasesInv
<1>7. LeasesInv'
  BY <1>3, <1>4, <1>5, <1>6 DEF NodeInv, LeasesInv
<1> QED BY <1>2, <1>7

\* Whose file stays open while its command runs.
LEMMA CommandKeepsFile ==
  ASSUME NodeInv, NEW p \in Callers, NEW c \in Command,
         cmd' = [cmd EXCEPT ![p] = c],
         p \in fds' \/ c.pc = "idle",
         \A q \in Callers \ {p} : q \in fds => q \in fds'
  PROVE  CommandsInv'
<1>1. \A q \in Callers : cmd'[q] = IF q = p THEN c ELSE cmd[q]
  BY DEF NodeInv, ClientTypes
<1> QED BY <1>1 DEF NodeInv, CommandsInv

\* A step of a command is an update of its record.
LEMMA GoesToIs ==
  ASSUME NodeInv, NEW p \in Callers, NEW pc, GoesTo(p, pc),
         pc \in {"idle", "mount", "broken", "leased", "mounting", "unmount", "got",
                 "unmounted", "close"}
  PROVE  LET c == [cmd[p] EXCEPT !.pc = pc]
         IN  /\ c \in Command /\ c.pc = pc /\ c.id = cmd[p].id /\ c.given = cmd[p].given
             /\ cmd' = [cmd EXCEPT ![p] = c]
<1>1. cmd[p] \in Command
  BY DEF NodeInv, ClientTypes
<1> QED BY <1>1 DEF GoesTo, Command

\* The invariant of the clients, one lemma per operation.
ClientInv == ClientTypes /\ CommandsInv /\ LeasesInv

LEMMA StartCommandOk ==
  ASSUME NodeInv, NEW p \in Callers, StartCommand(p)
  PROVE  ClientInv'
<1>1. PICK pc \in {"mount", "unmount"} : GoesTo(p, pc)
  BY DEF StartCommand
<1> DEFINE c == [cmd[p] EXCEPT !.pc = pc]
<1>2. c \in Command /\ c.pc = pc /\ c.id = cmd[p].id /\ cmd' = [cmd EXCEPT ![p] = c]
  BY <1>1, GoesToIs
<1>3. c.id <= issued
  BY <1>2 DEF NodeInv, LeasesInv
<1>4. UNCHANGED <<lease, issued, others, def>> /\ fds' = fds \cup {p}
  BY DEF StartCommand, Open, blobVars
<1> HIDE DEF c
<1>5. ClientTypes' /\ LeasesInv'
  BY <1>1, <1>2, <1>3, <1>4, CommandGoesOn
<1>6. CommandsInv'
  BY <1>2, <1>4, CommandKeepsFile
<1> QED BY <1>5, <1>6 DEF ClientInv

LEMMA EndCommandOk ==
  ASSUME NodeInv, NEW p \in Callers, EndCommand(p)
  PROVE  ClientInv'
<1>1. NoCommand \in Command /\ NoCommand.pc = "idle" /\ NoCommand.id = 0
  BY ClientParametersAssumption DEF NoCommand, Command, Leases
<1>2. /\ UNCHANGED <<lease, issued, others, def>> /\ fds' = fds \ {p}
      /\ cmd' = [cmd EXCEPT ![p] = NoCommand]
  BY DEF EndCommand, Close, blobVars, Now
<1>3. 0 <= issued
  BY ClientParametersAssumption DEF NodeInv, ClientTypes, Leases
<1>4. ClientTypes' /\ LeasesInv'
  BY <1>1, <1>2, <1>3, CommandGoesOn
<1>5. CommandsInv'
  BY <1>1, <1>2, CommandKeepsFile
<1> QED BY <1>4, <1>5 DEF ClientInv

\* A lease that is given out is one nobody has.
LEMMA AcquireOk ==
  ASSUME NodeInv, NEW p \in Callers, Acquire(p)
  PROVE  ClientInv'
<1>1. issued \in Nat /\ issued + 1 \in Leases /\ MaxLeases \in Nat
  BY ClientParametersAssumption DEF Acquire, NodeInv, ClientTypes, Leases
<1> DEFINE c == [cmd[p] EXCEPT !.pc = "leased", !.id = issued + 1]
<1>2. /\ UNCHANGED <<others, def, fds>>
      /\ lease' = issued + 1 /\ issued' = issued + 1
      /\ cmd' = [cmd EXCEPT ![p] = c] /\ cmd[p].pc # "idle"
  BY DEF Acquire, Service, Now, lifeVars, users
<1>3. c \in Command /\ c.id = issued + 1
  BY <1>1 DEF NodeInv, ClientTypes, Command
<1> HIDE DEF c
<1>4. ClientTypes'
  BY <1>1, <1>2, <1>3 DEF NodeInv, ClientTypes
<1>5. p \in fds'
  BY <1>2 DEF NodeInv, CommandsInv
<1>6. CommandsInv'
  BY <1>2, <1>3, <1>5, CommandKeepsFile
<1>7. \A q \in Callers : cmd'[q] = IF q = p THEN c ELSE cmd[q]
  BY <1>2 DEF NodeInv, ClientTypes
<1>8. /\ \A q \in Callers : cmd[q].id \in Nat /\ cmd[q].id <= issued
      /\ \A d \in Dysks : def[d].id \in Nat /\ def[d].id <= issued
      /\ \A n \in others : n \in Nat /\ n <= issued
  BY DEF NodeInv, ClientTypes, LeasesInv, Command, Leases
<1>9. issued + 1 \notin others
  BY <1>1, <1>8
<1>10. \A q \in Callers : OwnLease(q)' => q = p \/ OwnLease(q)
  BY <1>7 DEF OwnLease
<1>11. \A d \in Dysks : OwnDysk(d)' <=> OwnDysk(d)
  BY <1>2 DEF OwnDysk
<1>12. /\ lease' <= issued'
       /\ \A n \in others' : n <= issued'
       /\ \A q \in Callers : cmd'[q].id <= issued'
       /\ \A d \in Dysks : def'[d].id <= issued'
  BY <1>1, <1>2, <1>3, <1>7, <1>8
<1>13. /\ \A q \in Callers : OwnLease(q)' => cmd'[q].id \notin others'
       /\ \A d \in Dysks : OwnDysk(d)' => def'[d].id \notin others'
  BY <1>2, <1>3, <1>7, <1>9, <1>10, <1>11 DEF NodeInv, LeasesInv
<1>14. \A q \in Callers : q # p => cmd[q].id # c.id
  BY <1>1, <1>3, <1>8
<1>15. \A d \in Dysks : def[d].id # c.id
  BY <1>1, <1>3, <1>8
<1>16. \A q, r \in Callers : (OwnLease(q) /\ OwnLease(r))' /\ q # r => cmd'[q].id # cmd'[r].id
  BY <1>7, <1>10, <1>14 DEF NodeInv, LeasesInv
<1>17. \A q \in Callers, d \in Dysks : (OwnLease(q) /\ OwnDysk(d))' => cmd'[q].id # def'[d].id
  BY <1>2, <1>7, <1>10, <1>11, <1>15 DEF NodeInv, LeasesInv
<1>18. \A d, e \in Dysks : (OwnDysk(d) /\ OwnDysk(e))' /\ d # e => def'[d].id # def'[e].id
  BY <1>2, <1>11 DEF NodeInv, LeasesInv
<1>19. LeasesInv'
  BY <1>12, <1>13, <1>16, <1>17, <1>18 DEF LeasesInv
<1> QED BY <1>4, <1>6, <1>19 DEF ClientInv

LEMMA BreakExistingOk ==
  ASSUME NodeInv, NEW p \in Callers, BreakExisting(p)
  PROVE  ClientInv'
<1> DEFINE c == [cmd[p] EXCEPT !.pc = "broken"]
<1>1. /\ UNCHANGED <<issued, others, def, fds>> /\ lease' = 0
      /\ cmd[p].pc # "idle" /\ GoesTo(p, "broken")
  BY DEF BreakExisting, Service, lifeVars, users
<1>2. c \in Command /\ c.pc = "broken" /\ c.id = cmd[p].id /\ cmd' = [cmd EXCEPT ![p] = c]
  BY <1>1, GoesToIs
<1>3. c.id <= issued /\ p \in fds'
  BY <1>1, <1>2 DEF NodeInv, LeasesInv, CommandsInv
<1> HIDE DEF c
<1>4. ClientTypes' /\ LeasesInv'
  BY <1>1, <1>2, <1>3, CommandGoesOn
<1>5. CommandsInv'
  BY <1>1, <1>2, <1>3, CommandKeepsFile
<1> QED BY <1>4, <1>5 DEF ClientInv

LEMMA MountWithoutOk ==
  ASSUME NodeInv, NEW p \in Callers, MountWithout(p)
  PROVE  ClientInv'
<1>1. PICK id \in {0, lease} :
        cmd' = [cmd EXCEPT ![p] = [cmd[p] EXCEPT !.pc = "leased", !.id = id, !.given = TRUE]]
  BY DEF MountWithout, Now
<1> DEFINE c == [cmd[p] EXCEPT !.pc = "leased", !.id = id, !.given = TRUE]
<1>2. UNCHANGED <<lease, issued, others, def, fds>> /\ cmd[p].pc # "idle"
  BY DEF MountWithout, Service, lifeVars, users, blobVars
<1>3. id \in Leases /\ id <= issued
  BY ClientParametersAssumption DEF NodeInv, ClientTypes, LeasesInv, Leases
<1>4. c \in Command /\ c.id = id /\ c.given /\ cmd' = [cmd EXCEPT ![p] = c]
  BY <1>1, <1>3 DEF NodeInv, ClientTypes, Command
<1>5. p \in fds'
  BY <1>2 DEF NodeInv, CommandsInv
<1> HIDE DEF c
<1>6. ClientTypes' /\ LeasesInv'
  BY <1>2, <1>3, <1>4, CommandGoesOn
<1>7. CommandsInv'
  BY <1>2, <1>4, <1>5, CommandKeepsFile
<1> QED BY <1>6, <1>7 DEF ClientInv

LEMMA BreakLeaseOk ==
  ASSUME NodeInv, NEW p \in Callers, BreakLease(p)
  PROVE  ClientInv'
<1> DEFINE c == [cmd[p] EXCEPT !.pc = "close"]
<1>1. /\ UNCHANGED <<issued, others, def, fds>> /\ lease' = 0
      /\ cmd[p].pc # "idle" /\ GoesTo(p, "close")
  BY DEF BreakLease, Service, lifeVars, users
<1>2. c \in Command /\ c.pc = "close" /\ c.id = cmd[p].id /\ cmd' = [cmd EXCEPT ![p] = c]
  BY <1>1, GoesToIs
<1>3. c.id <= issued /\ p \in fds'
  BY <1>1, <1>2 DEF NodeInv, LeasesInv, CommandsInv
<1> HIDE DEF c
<1>4. ClientTypes' /\ LeasesInv'
  BY <1>1, <1>2, <1>3, CommandGoesOn
<1>5. CommandsInv'
  BY <1>1, <1>2, <1>3, CommandKeepsFile
<1> QED BY <1>4, <1>5 DEF ClientInv

LEMMA GetBeforeOk ==
  ASSUME NodeInv, NEW p \in Callers, NEW d \in Dysks, GetBefore(p, d)
  PROVE  ClientInv'
<1> DEFINE c == [cmd[p] EXCEPT !.pc = "got", !.id = def[d].id, !.d = d]
<1>1. /\ UNCHANGED <<lease, issued, others, def, fds>>
      /\ cmd[p].pc # "idle" /\ cmd' = [cmd EXCEPT ![p] = c]
  BY DEF GetBefore, Service, Now, lifeVars, users, blobVars
<1>2. def[d].id \in Leases /\ def[d].id <= issued
  BY DEF NodeInv, ClientTypes, LeasesInv
<1>3. c \in Command /\ c.pc = "got" /\ c.id = def[d].id
  BY <1>2 DEF NodeInv, ClientTypes, Command
<1>4. p \in fds'
  BY <1>1 DEF NodeInv, CommandsInv
<1> HIDE DEF c
<1>5. ClientTypes' /\ LeasesInv'
  BY <1>1, <1>2, <1>3, CommandGoesOn
<1>6. CommandsInv'
  BY <1>1, <1>3, <1>4, CommandKeepsFile
<1> QED BY <1>5, <1>6 DEF ClientInv

\* Nothing of the clients changes when only the module moves.
LEMMA ClientStands ==
  ASSUME NodeInv, UNCHANGED <<clientVars, fds>>
  PROVE  ClientInv'
BY DEF NodeInv, ClientInv, ClientTypes, CommandsInv, LeasesInv, OwnLease, OwnDysk, clientVars,
       blobVars

LEMMA IoctlUnmountOk ==
  ASSUME NodeInv, NEW p \in Callers, NEW d \in Dysks, IoctlUnmount(p, d)
  PROVE  ClientInv'
<1>1. UNCHANGED fds /\ cmd[p].pc # "idle"
  BY DEF IoctlUnmount, Unmount, Delete, Breaks, users
<1>2. CASE oops' # "none"
  BY <1>1, <1>2, ClientStands DEF IoctlUnmount
<1>3. CASE oops' = "none"
  <2> DEFINE pc == IF cmd[p].pc = "got" THEN "unmounted" ELSE "close"
             c == [cmd[p] EXCEPT !.pc = pc]
  <2>1. UNCHANGED <<lease, issued, others, def>> /\ GoesTo(p, pc)
    BY <1>3 DEF IoctlUnmount, blobVars
  <2>2. pc \in {"unmounted", "close"}
    OBVIOUS
  <2> HIDE DEF pc
  <2>3. c \in Command /\ c.pc = pc /\ c.id = cmd[p].id /\ cmd' = [cmd EXCEPT ![p] = c]
    BY <2>1, <2>2, GoesToIs
  <2>4. c.id <= issued /\ p \in fds'
    BY <1>1, <2>3 DEF NodeInv, LeasesInv, CommandsInv
  <2> HIDE DEF c
  <2>5. ClientTypes' /\ LeasesInv'
    BY <2>1, <2>2, <2>3, <2>4, CommandGoesOn
  <2>6. CommandsInv'
    BY <1>1, <2>3, <2>4, CommandKeepsFile
  <2> QED BY <2>5, <2>6 DEF ClientInv
<1> QED BY <1>2, <1>3

\* The dysk that is mounted gets the lease its command has.
LEMMA IoctlMountOk ==
  ASSUME NodeInv, NEW p \in Callers, NEW d \in Dysks, IoctlMount(p, d)
  PROVE  ClientInv'
<1>1. UNCHANGED fds /\ cmd[p].pc = "leased"
  BY DEF IoctlMount, Mount, Breaks, users
<1>2. CASE oops' # "none"
  BY <1>1, <1>2, ClientStands DEF IoctlMount
<1>3. CASE oops' = "none"
  <2> DEFINE c == [cmd[p] EXCEPT !.pc = "mounting"]
             given == [id |-> cmd[p].id, given |-> cmd[p].given]
  <2>1. /\ UNCHANGED <<lease, issued, others>> /\ GoesTo(p, "mounting")
        /\ def' = [def EXCEPT ![d] = given]
    BY <1>3 DEF IoctlMount, blobVars
  <2>2. c \in Command /\ c.pc = "mounting" /\ c.id = cmd[p].id /\ cmd' = [cmd EXCEPT ![p] = c]
    BY <2>1, GoesToIs
  <2>3. given \in [id : Leases, given : BOOLEAN] /\ given.id = cmd[p].id
    BY DEF NodeInv, ClientTypes, Command
  <2>4. given.given = cmd[p].given
    OBVIOUS
  <2>5. p \in fds'
    BY <1>1 DEF NodeInv, CommandsInv
  <2> HIDE DEF c, given
  <2>6. CommandsInv'
    BY <1>1, <2>2, <2>5, CommandKeepsFile
  <2>7. ClientTypes'
    BY <2>1, <2>2, <2>3 DEF NodeInv, ClientTypes
  <2>8. /\ \A q \in Callers : cmd'[q] = IF q = p THEN c ELSE cmd[q]
        /\ \A e \in Dysks : def'[e] = IF e = d THEN given ELSE def[e]
    BY <2>1, <2>2 DEF NodeInv, ClientTypes
  <2>9. \A q \in Callers : OwnLease(q)' => q # p /\ OwnLease(q)
    BY <2>2, <2>8 DEF OwnLease
  <2>10. \A e \in Dysks : e # d => (OwnDysk(e)' <=> OwnDysk(e))
    BY <2>8 DEF OwnDysk
  <2>11. OwnDysk(d)' <=> OwnLease(p)
    BY <1>1, <2>3, <2>4, <2>8 DEF OwnDysk, OwnLease
  <2>12. /\ lease' <= issued' /\ \A n \in others' : n <= issued'
         /\ \A q \in Callers : cmd'[q].id <= issued'
         /\ \A e \in Dysks : def'[e].id <= issued'
    BY <2>1, <2>2, <2>3, <2>8 DEF NodeInv, LeasesInv
  <2>13. /\ \A q \in Callers : OwnLease(q)' => cmd'[q].id \notin others'
         /\ \A e \in Dysks : OwnDysk(e)' => def'[e].id \notin others'
    BY <2>1, <2>3, <2>8, <2>9, <2>10, <2>11 DEF NodeInv, LeasesInv
  <2>14. \A q, r \in Callers : (OwnLease(q) /\ OwnLease(r))' /\ q # r => cmd'[q].id # cmd'[r].id
    BY <2>8, <2>9 DEF NodeInv, LeasesInv
  <2>15. \A e, f \in Dysks : (OwnDysk(e) /\ OwnDysk(f))' /\ e # f => def'[e].id # def'[f].id
    BY <2>3, <2>8, <2>10, <2>11 DEF NodeInv, LeasesInv
  <2>16. \A q \in Callers, e \in Dysks : (OwnLease(q) /\ OwnDysk(e))' => cmd'[q].id # def'[e].id
    BY <2>3, <2>8, <2>9, <2>10, <2>11 DEF NodeInv, LeasesInv
  <2>17. LeasesInv'
    BY <2>12, <2>13, <2>14, <2>15, <2>16 DEF LeasesInv
  <2> QED BY <2>6, <2>7, <2>17 DEF ClientInv
<1> QED BY <1>2, <1>3

LEMMA OtherNodesOk ==
  ASSUME NodeInv, OtherAcquires \/ OtherBreaks
  PROVE  ClientInv'
<1>1. UNCHANGED <<cmd, def, fds>>
  BY DEF OtherAcquires, OtherBreaks, lifeVars, users
<1>2. /\ \A q \in Callers : OwnLease(q)' <=> OwnLease(q)
      /\ \A d \in Dysks : OwnDysk(d)' <=> OwnDysk(d)
  BY <1>1 DEF OwnLease, OwnDysk
<1>3. CommandsInv'
  BY <1>1 DEF NodeInv, CommandsInv
<1>4. CASE OtherAcquires
  <2>1. issued \in Nat /\ issued + 1 \in Leases /\ MaxLeases \in Nat
    BY <1>4, ClientParametersAssumption DEF OtherAcquires, NodeInv, ClientTypes, Leases
  <2>2. lease' = issued + 1 /\ issued' = issued + 1 /\ others' = others \cup {issued + 1}
    BY <1>4 DEF OtherAcquires
  <2>3. ClientTypes'
    BY <1>1, <2>1, <2>2 DEF NodeInv, ClientTypes
  <2>4. /\ \A q \in Callers : cmd[q].id \in Nat /\ cmd[q].id <= issued
        /\ \A d \in Dysks : def[d].id \in Nat /\ def[d].id <= issued
        /\ \A n \in others : n \in Nat /\ n <= issued
    BY DEF NodeInv, ClientTypes, LeasesInv, Command, Leases
  <2>5. LeasesInv'
    BY <1>1, <1>2, <2>1, <2>2, <2>4 DEF NodeInv, LeasesInv
  <2> QED BY <1>3, <2>3, <2>5 DEF ClientInv
<1>5. CASE OtherBreaks
  <2>1. lease' = 0 /\ UNCHANGED <<issued, others>>
    BY <1>5 DEF OtherBreaks
  <2>2. lease' \in Leases /\ lease' <= issued
    BY <2>1, ClientParametersAssumption DEF NodeInv, ClientTypes, Leases
  <2>3. ClientTypes' /\ LeasesInv'
    BY <1>1, <1>2, <2>1, <2>2 DEF NodeInv, ClientTypes, LeasesInv
  <2> QED BY <1>3, <2>3 DEF ClientInv
<1> QED BY <1>4, <1>5

LEMMA ModuleMovesOk ==
  ASSUME NodeInv, ModuleMoves
  PROVE  ClientInv'
<1>1. UNCHANGED <<lease, issued, others, cmd, fds>>
  BY DEF ModuleMoves, KthreadStop, WaitForWorker, FreeResource, ThreadStep, ThreadStarts,
         ThreadStops, ThreadRuns, ThreadHangs, Rmmod, CallGone, Breaks, users, blobVars
<1>2. def' = [d \in Dysks |-> IF dysk'[d] = "none" THEN NoDef ELSE def[d]]
  BY DEF ModuleMoves
<1>3. NoDef \in [id : Leases, given : BOOLEAN] /\ NoDef.id = 0
  BY ClientParametersAssumption DEF NoDef, Leases
<1>4. \A d \in Dysks : def'[d] = NoDef \/ def'[d] = def[d]
  BY <1>2
<1>5. ClientTypes' /\ CommandsInv'
  BY <1>1, <1>2, <1>3 DEF NodeInv, ClientTypes, CommandsInv
<1>6. \A d \in Dysks : OwnDysk(d)' => OwnDysk(d) /\ def'[d] = def[d]
  BY <1>3, <1>4 DEF OwnDysk
<1>7. \A q \in Callers : OwnLease(q)' <=> OwnLease(q)
  BY <1>1 DEF OwnLease
<1>8. 0 <= issued
  BY ClientParametersAssumption DEF NodeInv, ClientTypes, Leases
<1>9. LeasesInv'
  BY <1>1, <1>3, <1>4, <1>6, <1>7, <1>8 DEF NodeInv, LeasesInv
<1> QED BY <1>5, <1>9 DEF ClientInv

LEMMA StepKeepsNodeInv ==
  ASSUME NodeInv, [NodeNext]_nodeVars
  PROVE  NodeInv'
<1>1. CASE UNCHANGED nodeVars
  <2>1. UNCHANGED <<lifeVars, clientVars, fds, sent>>
    BY <1>1 DEF nodeVars, lifeVars, users, loader
  <2>2. LifeInv' /\ sent'
    BY <2>1, StepKeepsLifeInv DEF NodeInv
  <2>3. ClientInv'
    BY <2>1, ClientStands
  <2> QED BY <2>2, <2>3 DEF NodeInv, ClientInv
<1>2. CASE NodeNext
  <2>1. LifeInv' /\ sent'
    BY <1>2, NodeStepIsLifeStep, StepKeepsLifeInv DEF NodeInv
  <2>2. ASSUME NEW p \in Callers, Client(p)
        PROVE  ClientInv'
    BY <2>2, StartCommandOk, EndCommandOk, AcquireOk, BreakExistingOk, MountWithoutOk,
       BreakLeaseOk, IoctlMountOk, GetBeforeOk, IoctlUnmountOk DEF Client
  <2>3. ASSUME NEW d \in Dysks, StaleIo(d)
        PROVE  ClientInv'
    <3>1. UNCHANGED <<clientVars, fds>>
      BY <2>3 DEF StaleIo, ThreadFails, Delete, Breaks, users
    <3> QED BY <3>1, ClientStands
  <2>4. ClientInv'
    BY <1>2, <2>2, <2>3, OtherNodesOk, ModuleMovesOk DEF NodeNext
  <2> QED BY <2>1, <2>4 DEF NodeInv, ClientInv
<1> QED BY <1>1, <1>2

LEMMA NodeInvariance == NodeSpec => []NodeInv
<1>1. NodeInit => NodeInv
  BY NodeInitInv
<1>2. NodeInv /\ [NodeNext]_nodeVars => NodeInv'
  BY StepKeepsNodeInv
<1> QED BY <1>1, <1>2, PTL DEF NodeSpec

\* The types of the module and of its clients; a command that runs has the
\* endpoint open.
THEOREM NodeTypesHold == NodeSpec => []NodeTypeOK
<1>1. NodeInv => NodeTypeOK
  BY LifeTypesOk DEF NodeInv, ClientTypes, CommandsInv, LeasesInv, NodeTypeOK
<1> QED BY <1>1, NodeInvariance, PTL

\* Two dysks can write to the blob only if a user gave one of them the lease
\* of the other, for any commands of any processes and whatever the other
\* nodes do with the lease (page_blob_lease, Mount, Unmount).
THEOREM OneWriterHolds == NodeSpec => []OneWriter
<1>1. NodeInv => OneWriter
  <2>1. SUFFICES ASSUME NodeInv, NEW d \in Dysks, CanWrite(d), ~def[d].given
                 PROVE  lease \notin others /\ \A e \in Dysks \ {d} : CanWrite(e) => def[e].given
    BY DEF OneWriter
  <2>2. OwnDysk(d) /\ def[d].id = lease
    BY <2>1 DEF CanWrite, OwnDysk
  <2>3. ASSUME NEW e \in Dysks \ {d}, CanWrite(e), ~def[e].given
        PROVE  FALSE
    <3>1. OwnDysk(e) /\ def[e].id = lease
      BY <2>3 DEF CanWrite, OwnDysk
    <3> QED BY <2>1, <2>2, <3>1 DEF NodeInv, LeasesInv
  <2> QED BY <2>1, <2>2, <2>3 DEF NodeInv, LeasesInv
<1> QED BY <1>1, NodeInvariance, PTL

\* The module stays while a mount has a lease it has not handed over (Mount
\* 185-190).
THEOREM LeaseKeepsEndpoint == NodeSpec => []LeasedHasEndpoint
<1>1. NodeInv => LeasedHasEndpoint
  <2>1. SUFFICES ASSUME NodeInv, NEW p \in Callers, cmd[p].pc # "idle"
                 PROVE  p \in fds /\ ~Unloading /\ ~Gone
    BY DEF LeasedHasEndpoint
  <2>2. p \in fds
    BY <2>1 DEF NodeInv, CommandsInv
  <2>3. Loaded
    BY <2>1, <2>2 DEF NodeInv, LifeInv, LoadedInv
  <2> QED BY <2>2, <2>3 DEF Loaded, Gone, Unloading
<1> QED BY <1>1, NodeInvariance, PTL

\* Clients and other nodes move the module only as its life allows: every
\* step of a node that was loaded is a step of that life, or leaves the
\* module alone (client.go's ioctls and files).
THEOREM ClientsLiveWithTheModule == NodeSpec => [][LifeNext]_lifeVars
<1>1. [NodeNext]_nodeVars => [LifeNext]_lifeVars
  BY NodeStepIsLifeStep DEF nodeVars
<1> QED BY <1>1, PTL DEF NodeSpec
=============================================================================
