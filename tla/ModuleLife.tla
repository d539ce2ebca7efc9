----------------------------- MODULE ModuleLife -----------------------------
(***************************************************************************)
(* The life of the module: _init_module() and unload() (dysk_bdd.c), with  *)
(* the start and stop of the endpoint, of the worker (dysk_worker.c) and   *)
(* of the transfer library (az.c).  Processes open the endpoint and mount  *)
(* and unmount dysks as soon as the device is there, which is before the   *)
(* worker is.                                                              *)
(*                                                                         *)
(* The loader runs a script: the steps it has left.  A step of the init    *)
(* that fails replaces the script by the clean-up the code then runs,      *)
(* which may undo a thing twice.  A pointer keeps its value when what it   *)
(* points at is destroyed, as in the code.                                 *)
(***************************************************************************)
EXTENDS Integers, Sequences, FiniteSets, SequencesExt

CONSTANTS
  Dysks,
  Callers,   \* processes that use the endpoint
  None,
  MaxLoads   \* bound: how often the module is loaded

ASSUME LifeParametersAssumption ==
  MaxLoads \in Nat /\ None \notin Dysks /\ IsFiniteSet(Dysks)

InitStepsPublishingEarly ==
  <<"az_slab", "dysk_major", "endpoint_major", "class", "device", "publish",
    "tasks_slab", "head", "worker_thread">>

InitSteps == <<"az_slab", "dysk_major", "endpoint_major", "class", "device",
               "tasks_slab", "head", "worker_thread", "publish">>

Resources == ToSet(InitSteps) \ {"publish"}

WorkerTeardown == <<"kthread_stop", "working", "free_head", "free_tasks_slab">>
EndpointStop   == <<"free_device", "free_class", "free_endpoint_major">>
Unload         == WorkerTeardown \o EndpointStop \o <<"free_dysk_major", "free_az_slab">>

VARIABLES
  script,   \* the steps the loader has left
  failed,   \* the step the init failed at, "none"
  ptr,      \* each resource: its pointer is null, an error, what it points at is live or
            \* dead, or kept by the kernel
  thread,   \* the worker's thread: it runs only some time after kthread_run()
  stop,     \* kthread_should_stop()
  working,  \* dw->working
  count,    \* dysks.count
  sent,     \* dysks.head.worker is set
  dysk,     \* where each dysk is
  fds,      \* processes with the endpoint open
  inside,   \* the dysk each process waits for in dysk_mount
  disks,    \* dysks a process has open
  early,    \* dysks that were mounted before the init ended
  loads,
  oops

loader == <<script, failed, ptr, stop, working, sent, loads>>
users  == <<dysk, fds, inside, disks>>
lifeVars == <<loader, thread, count, users, early, oops>>

\* reading: add_disk() waits for the partition table; deleting: off the list,
\* its delete task is queued; hung: its delete task waits for its requests;
\* stranded: its module is gone, its disk is not; lost: its module is gone,
\* and so is the task that was to free it.
Places == {"none", "reading", "mounted", "deleting", "hung", "stranded", "lost"}

Quiet == oops = "none" /\ UNCHANGED oops

Breaks(why) ==
  /\ oops = "none" /\ oops' = why
  /\ UNCHANGED <<loader, thread, count, users, early>>

At(s)    == script # <<>> /\ Head(script) = s
Held(S)  == {d \in Dysks : dysk[d] \in S}
Loaded   == script = <<>> /\ sent /\ ptr["az_slab"] = "live"
Gone     == script = <<>> /\ ~Loaded
Unloading == script # <<>> /\ Last(script) = "free_az_slab"

-----------------------------------------------------------------------------
(***************************************************************************)
(* _init_module.                                                           *)
(***************************************************************************)
\* The kernel maps the module: all its data is zero, dysk_major is -1.  It
\* knows nothing of what the last one lost.
Insmod ==
  /\ Quiet
  /\ Gone /\ fds = {}
  /\ loads < MaxLoads
  /\ loads' = loads + 1
  /\ script' = InitSteps
  /\ failed' = "none"
  /\ ptr' = [r \in Resources |-> "null"]
  /\ thread' = "none" /\ stop' = FALSE /\ working' = FALSE
  /\ count' = 0 /\ sent' = FALSE /\ early' = {}
  /\ dysk' = [d \in Dysks |-> IF dysk[d] = "lost" THEN "none" ELSE dysk[d]]
  /\ UNCHANGED <<fds, inside, disks>>

InitStep ==
  LET s == Head(script) IN
  /\ Quiet
  /\ script # <<>> /\ s \in Resources
  /\ ptr' = [ptr EXCEPT ![s] = "live"]
  /\ working' = (working \/ s = "head")
  /\ thread' = IF s = "worker_thread" THEN "ready" ELSE thread
  /\ script' = Tail(script)
  /\ UNCHANGED <<failed, stop, sent, count, users, early, loads>>

\* Which steps leave an error in the pointer, and which part cleans up before
\* unload() does.
ErrorPointer == {"class", "device", "worker_thread"}

CleanUpAfter(s) ==
  CASE s \in {"class", "device"}                      -> EndpointStop
    [] s \in {"tasks_slab", "head", "worker_thread"}  -> WorkerTeardown
    [] OTHER                                          -> <<>>

ScriptWithoutUnload(s) == CleanUpAfter(s)

ScriptAfter(s) == CleanUpAfter(s) \o Unload

InitFails ==
  LET s == Head(script) IN
  /\ Quiet
  /\ script # <<>> /\ s \in Resources
  /\ failed' = s
  /\ ptr' = [ptr EXCEPT ![s] = IF s \in ErrorPointer THEN "error" ELSE "null"]
  /\ script' = ScriptAfter(s)
  /\ UNCHANGED <<thread, stop, working, sent, count, users, early, loads>>

\* The last lines of _init_module, after everything was started.
Publish ==
  /\ Quiet
  /\ At("publish")
  /\ sent' = TRUE
  /\ count' = -1
  /\ script' = Tail(script)
  /\ UNCHANGED <<failed, ptr, thread, stop, working, users, early, loads>>

-----------------------------------------------------------------------------
(***************************************************************************)
(* unload().  rmmod is refused while a file of the module is open; a       *)
(* mounted dysk that nobody has open does not refuse it.                   *)
(***************************************************************************)
RmmodInUse ==
  /\ Quiet
  /\ Loaded
  /\ script' = Unload
  /\ UNCHANGED <<failed, ptr, thread, stop, working, sent, count, users, early, loads>>

Rmmod ==
  /\ Quiet
  /\ Loaded
  /\ fds = {} /\ disks = {}
  /\ script' = Unload
  /\ UNCHANGED <<failed, ptr, thread, stop, working, sent, count, users, early, loads>>

KthreadStop ==
  /\ At("kthread_stop")
  /\ IF ptr["worker_thread"] = "error"
       THEN Breaks("stops_an_error")
       ELSE /\ Quiet
            /\ stop' = (stop \/ ptr["worker_thread"] = "live")
            /\ script' = Tail(script)
            /\ UNCHANGED <<failed, ptr, thread, working, sent, count, users, early, loads>>

\* kthread_stop() returns when the thread is gone; then the loop on working.
DontWaitForWorker ==
  /\ Quiet
  /\ At("working")
  /\ script' = Tail(script)
  /\ UNCHANGED <<failed, ptr, thread, stop, working, sent, count, users, early, loads>>

WaitForWorker ==
  /\ Quiet
  /\ At("working")
  /\ stop => (thread \in {"gone", "never"} /\ ~working)
  /\ script' = Tail(script)
  /\ UNCHANGED <<failed, ptr, thread, stop, working, sent, count, users, early, loads>>

\* The kernel finds nothing to undo at an error or a major that is not
\* registered; a slab or a class that was destroyed is used again.
Tolerated(s) ==
  ptr[s] # "dead" \/ s \in {"endpoint_major", "dysk_major"}

\* device_destroy() looks the device up in the class.
UsesDead(s) ==
  \/ ~Tolerated(s) /\ s # "device"
  \/ s = "device" /\ ptr["device"] # "null" /\ ptr["class"] = "dead"
  \/ s = "head" /\ ptr["head"] # "null" /\ ptr["tasks_slab"] = "dead"

FreeSteps ==
  [az_slab |-> "free_az_slab", dysk_major |-> "free_dysk_major",
   endpoint_major |-> "free_endpoint_major", class |-> "free_class",
   device |-> "free_device", tasks_slab |-> "free_tasks_slab", head |-> "free_head"]

\* kmem_cache_destroy() keeps a cache with objects in it.  At this point those
\* are the tasks that delete dysks: a request has tasks too, but the process
\* that waits for it has the disk open.
Freed(r) ==
  IF ptr[r] # "live" THEN ptr[r]
  ELSE IF r = "tasks_slab" /\ Held({"deleting"}) # {} THEN "kept" ELSE "dead"

\* With the last step the code goes.
Abandoned(d) ==
  CASE dysk[d] = "none"                  -> "none"
    [] dysk[d] \in {"deleting", "lost"} -> "lost"
    [] OTHER                             -> "stranded"

FreeResource ==
  \E r \in DOMAIN FreeSteps :
    /\ At(FreeSteps[r])
    /\ IF UsesDead(r)
         THEN Breaks("destroyed_twice")
         ELSE /\ Quiet
              /\ ptr' = [ptr EXCEPT ![r] = Freed(r)]
              /\ script' = Tail(script)
              /\ dysk' = IF Tail(script) # <<>> THEN dysk ELSE [d \in Dysks |-> Abandoned(d)]
              /\ UNCHANGED <<failed, thread, stop, working, sent, count, fds, inside, disks, early, loads>>

-----------------------------------------------------------------------------
(***************************************************************************)
(* The worker's thread.                                                    *)
(***************************************************************************)
\* The kernel calls work_thread_fn, unless the thread was stopped before.
ThreadStarts ==
  /\ Quiet
  /\ thread = "ready"
  /\ thread' = IF stop THEN "never" ELSE "runs"
  /\ UNCHANGED <<loader, count, users, early>>

ThreadStopsStillWorking ==
  /\ Quiet
  /\ thread = "runs" /\ stop
  /\ thread' = "gone"
  /\ UNCHANGED <<loader, count, users, early>>

\* The thread is in its loop, and not in a task that waits.
Working == thread = "runs" /\ Held({"hung"}) = {}

\* It ends at the top of its loop, with whatever was queued since the walk.
ThreadStops ==
  /\ Quiet
  /\ Working /\ stop
  /\ thread' = "gone"
  /\ working' = FALSE
  /\ UNCHANGED <<script, failed, ptr, stop, sent, loads, count, users, early>>

ThreadRunsKeepingCount ==
  /\ Quiet
  /\ thread = "runs"
  /\ \E d \in Held({"reading", "deleting"}) :
       /\ dysk' = [dysk EXCEPT ![d] = IF @ = "reading" THEN "mounted" ELSE "none"]
       /\ inside' = [p \in Callers |-> IF inside[p] = d THEN None ELSE inside[p]]
  /\ UNCHANGED <<loader, thread, count, fds, disks, early>>

\* A task: the read of a mount ends and the mount lists its dysk; a delete
\* task gives the slot back and frees the dysk.
ThreadRuns ==
  /\ Quiet
  /\ Working
  /\ \E d \in Dysks :
       \/ /\ dysk[d] = "reading"
          /\ dysk' = [dysk EXCEPT ![d] = "mounted"]
          /\ inside' = [p \in Callers |-> IF inside[p] = d THEN None ELSE inside[p]]
          /\ UNCHANGED count
       \/ /\ dysk[d] = "deleting"
          /\ dysk' = [dysk EXCEPT ![d] = "none"]
          /\ count' = count - 1
          /\ UNCHANGED inside
  /\ UNCHANGED <<loader, thread, fds, disks, early>>

\* The delete task has given the slot back and waits in blk_cleanup_queue()
\* for a request of a process that has the disk open.  Only this thread could
\* end that request.
ThreadHangs ==
  /\ Quiet
  /\ Working
  /\ \E d \in disks :
       /\ dysk[d] = "deleting"
       /\ dysk' = [dysk EXCEPT ![d] = "hung"]
  /\ count' = count - 1
  /\ UNCHANGED <<loader, thread, fds, inside, disks, early>>

-----------------------------------------------------------------------------
(***************************************************************************)
(* Processes.  An open file holds the module, from when it comes until it  *)
(* goes.  The clean-up of an init that failed does not look for one.       *)
(***************************************************************************)
Open(p) ==
  /\ Quiet
  /\ p \notin fds
  /\ ptr["device"] = "live" /\ (Unloading => failed # "none")
  /\ fds' = fds \cup {p}
  /\ UNCHANGED <<loader, thread, count, dysk, inside, disks, early>>

\* The endpoint's code is there, and the process is not in a mount.
Calls(p) == p \in fds /\ inside[p] = None /\ ~Gone

Close(p) ==
  /\ Quiet
  /\ Calls(p)
  /\ fds' = fds \ {p}
  /\ UNCHANGED <<loader, thread, count, dysk, inside, disks, early>>

\* queue_w_task: the slab and the list head have to be there.
CanQueue == ptr["tasks_slab"] = "live" /\ ptr["head"] = "live"

\* dysk_mount up to the first read, which add_disk() waits for.
Mount(p, d) ==
  /\ Calls(p)
  /\ dysk[d] = "none"
  /\ IF ~CanQueue
       THEN Breaks("no_worker")
       ELSE /\ Quiet
            /\ dysk' = [dysk EXCEPT ![d] = "reading"]
            /\ inside' = [inside EXCEPT ![p] = d]
            /\ count' = count + 1
            /\ early' = IF sent THEN early ELSE early \cup {d}
            /\ UNCHANGED <<loader, thread, fds, disks>>

\* dysk_del; the delete task is the head's.
Delete(d) ==
  /\ dysk[d] = "mounted"
  /\ IF ~sent
       THEN Breaks("no_worker")
       ELSE /\ Quiet
            /\ dysk' = [dysk EXCEPT ![d] = "deleting"]
            /\ UNCHANGED <<loader, thread, count, fds, inside, disks, early>>

Unmount(p, d) == Calls(p) /\ Delete(d)

\* dysk_catastrophe, in the worker's thread.
ThreadFails(d) == Working /\ Delete(d)

\* A disk can be opened until del_gendisk(), or until the module goes.
OpenDisk(d) ==
  /\ Quiet
  /\ dysk[d] = "mounted" /\ d \notin disks /\ ~Unloading
  /\ disks' = disks \cup {d}
  /\ UNCHANGED <<loader, thread, count, dysk, fds, inside, early>>

\* The process whose request the thread waits for stays in its wait.
CloseDisk(d) ==
  /\ Quiet
  /\ d \in disks /\ dysk[d] # "hung"
  /\ disks' = disks \ {d}
  /\ UNCHANGED <<loader, thread, count, dysk, fds, inside, early>>

\* A call through what the module left behind: an open file, or a disk.
CallGone ==
  /\ (Gone /\ fds # {}) \/ Held({"stranded"}) # {}
  /\ Breaks("code_is_gone")

-----------------------------------------------------------------------------
LifeInit ==
  /\ script = <<>> /\ failed = "none"
  /\ ptr = [r \in Resources |-> "null"]
  /\ thread = "none" /\ stop = FALSE /\ working = FALSE
  /\ count = 0 /\ sent = FALSE
  /\ dysk = [d \in Dysks |-> "none"]
  /\ fds = {} /\ disks = {} /\ early = {}
  /\ inside = [p \in Callers |-> None]
  /\ loads = 0
  /\ oops = "none"

LoaderStep ==
  InitStep \/ InitFails \/ Publish \/ KthreadStop \/ WaitForWorker \/ FreeResource

ThreadStep == ThreadStarts \/ ThreadStops \/ ThreadRuns \/ ThreadHangs

UserStep ==
  \/ Insmod \/ Rmmod \/ CallGone
  \/ \E p \in Callers : Open(p) \/ Close(p) \/ \E d \in Dysks : Mount(p, d) \/ Unmount(p, d)
  \/ \E d \in Dysks : ThreadFails(d) \/ OpenDisk(d) \/ CloseDisk(d)

LifeNext == LoaderStep \/ ThreadStep \/ UserStep

LifeFairness == WF_lifeVars(LoaderStep) /\ WF_lifeVars(ThreadStep)

LifeSpec == LifeInit /\ [][LifeNext]_lifeVars /\ LifeFairness

-----------------------------------------------------------------------------
(***************************************************************************)
(* Properties                                                              *)
(***************************************************************************)
LifeTypeOK ==
  /\ \/ IsSuffix(script, InitSteps)
     \/ \E s \in Resources \cup {"none"} : IsSuffix(script, CleanUpAfter(s) \o Unload)
  /\ failed \in Resources \cup {"none"}
  /\ ptr \in [Resources -> {"null", "error", "live", "dead", "kept"}]
  /\ thread \in {"none", "ready", "runs", "gone", "never"}
  /\ stop \in BOOLEAN /\ working \in BOOLEAN /\ sent \in BOOLEAN
  /\ count \in (-1 - Cardinality(Dysks))..Cardinality(Dysks)
  /\ dysk \in [Dysks -> Places]
  /\ inside \in [Callers -> Dysks \cup {None}]
  /\ fds \subseteq Callers /\ disks \subseteq Dysks /\ early \subseteq Dysks
  /\ loads \in 0..MaxLoads
  /\ oops \in {"none", "no_worker", "destroyed_twice", "stops_an_error", "code_is_gone"}

\* Whichever step of the init failed, and however often the module came and
\* went: what it leaves behind is that of dysks that were there when it went.
\* Its thread has ended, everything of its own was given back, and the
\* worker's slab stays with the kernel only for a deletion that was still
\* queued, which no failed init has (_init_module 1012-1040, unload 992-1003,
\* dysk_worker_teardown 234-238).  The disks of the dysks that were mounted
\* stay too (CallGone).
LeftIsOfDysks ==
  Gone =>
    /\ \A r \in Resources \ {"worker_thread"} : ptr[r] # "live"
    /\ \A r \in Resources : ptr[r] = "kept" => r = "tasks_slab"
    /\ ptr["tasks_slab"] = "kept" => (Held({"lost"}) # {} /\ failed = "none")
    /\ thread \in {"none", "gone", "never"}

\* The kernel gets into trouble for four reasons only, each a gap of this
\* code: a clean-up that ran twice, or on an error, since the pointers are
\* not cleared (endpoint_stop, dysk_worker_teardown); an ioctl that came
\* before the worker was there; a dysk that the module left behind, or a file
\* that was open when its init failed.  A module
\* that loaded before it was used and has no dysk when it goes is safe,
\* whatever the processes, the thread and the loader interleave.
TroubleExplained ==
  /\ oops = "destroyed_twice" => failed \in {"device", "head"}
  /\ oops = "stops_an_error" => failed = "worker_thread"
  /\ oops = "no_worker" => ~sent
  /\ oops = "code_is_gone" => (Held({"stranded"}) # {} \/ failed # "none")

\* The worker's memory is there as long as its thread may run: the tear-down
\* waits for the thread, not only for the order to stop (dysk_worker_teardown
\* 218-239).
ThreadHasMemory == thread = "runs" => CanQueue

\* dysks.count stands one below the dysks that have a slot, once the init is
\* over -- and lower by those that were mounted before it reset the count, so
\* that as many more than the maximum get a slot (dysk_bdd.c 1046).
CountMatches ==
  (Loaded /\ oops = "none")
    => count = Cardinality(Held({"reading", "mounted", "deleting"})) - 1 - Cardinality(early)

\* rmmod comes to its end, unless the thread was told to stop before it first
\* ran: then nobody clears `working' (dysk_worker_teardown 221-227).
UnloadEnds ==
  Unloading ~> (script = <<>> \/ oops # "none" \/ thread = "never")
=============================================================================
