# dysk in TLA+

dysk is a Linux kernel module that makes block devices ("dysks") out of Azure
page blobs, with a Go client that mounts and unmounts them. This directory holds
TLA+ models of the module's control and of the client's, TLC configurations that check them
on small instances, and TLAPS proofs for every instance. File
names below are relative to `src/`, line numbers are those of the modelled commit.

* [1 The system](#1-the-system)
* [2 The modules](#2-the-modules)
* [3 What the runs show](#3-what-the-runs-show)
* [4 Where code and documentation disagree](#4-where-code-and-documentation-disagree)
* [5 What is proved](#5-what-is-proved)
* [6 What is not modelled, and why](#6-what-is-not-modelled-and-why)
* [7 Plan](#7-plan)

## 1 The system

### 1.1 Components

| component | code | state | operations | model |
|---|---|---|---|---|
| worker | `module/dysk_worker.c` | one task list for all dysks, the walk of one kernel thread over it | `queue_w_task`, `execute`, `work_thread_fn`, init, teardown | `Worker`, `WorkerPass` |
| transfer library | `module/az.c` 531-1107 | a `__reqstate` or `__resstate` per task | `az_do_request`, `__send_az_req`, `__receive_az_response`, two clean-up functions | `AzTransfer` |
| connection pool | `module/az.c` 209-370 | per dysk a fifo of idle connections and a count | create, get, put, tear down | `AzTransfer` (without tear-down) |
| request entry | `module/dysk_bdd.c` 802-866 | the block layer's queue and its lock | `io_request`, `io_end_request` | `AzTransfer`, `BlockDevice` |
| dysk life cycle | `module/dysk_bdd.c` 151-282, 434-671, 842-990 | the list of dysks, the status of each, the state of delete tasks | mount, unmount, get, catastrophe, the two halves of a deletion | `DyskBdd` |
| slots | `module/dysk_bdd.c` 90-150 | a bit array and a count | take, give back | `DyskBdd` |
| HTTP response parser | `module/az.c` 372-461, 678-721 | a buffer filled by fragments, what was found in it | `process_response`, `http_response_completed`, the receive loop | `HttpResponse`, `DyskUtils` |
| HTTP request header | `module/az.c` 464-529 | none | `make_header` | only whether it was made |
| ioctl codec | `module/dysk_bdd.c` 283-721, `pkg/client/client.go` 185-345, 531-711 | the buffer of a call | text in both directions | `IoctlCodec`, `DyskUtils` |
| endpoint, module init and exit | `module/dysk_bdd.c` 722-797, 992-1067, `module/dysk_worker.c` 176-239 | what is registered with the kernel, the worker's thread, the pointers to both | init, unload, open, release; the ioctls are `Caller` of `DyskBdd` | `ModuleLife` |
| block device operations | `module/dysk_bdd.c` 872-902 | none | open and release hold the module; the others return constants | `ModuleLife` |
| utilities | `module/dysk_utils.c` | none | base64, HMAC, dates, addresses; `get_until` | `get_until` in `DyskUtils` |
| Go client | `pkg/client/client.go` | page blobs and their leases | create, delete, mount, unmount, list, get | `NodeClient` (leases), `IoctlCodec` (text); not create and delete |
| command line | `dyskctl/cmd` | none | flags around the client | no |
| Kubernetes drivers, tools, examples | `kubernetes`, `tools`, `examples` | none | scripts, manifests | no |

### 1.2 How they interact

* A process mounts, unmounts or lists dysks with an **ioctl**. The endpoint takes
  no lock around it: ioctls run concurrently with each other, with the worker
  and with requests. The list of dysks has a spin lock, but a dysk found under
  it is used after the lock was released.
* The block layer calls **`io_request`** with the queue's lock held, on any
  processor. It looks at the dysk's status and appends a *send task* to the
  worker's list.
* The **worker** is one thread. It walks its list, looks at the status and the
  throttle of each task's dysk and runs the task's function, which says `done`,
  `retry_now`, `retry_later`, `throttle_dysk` or `catastrophe`. A task that
  leaves the list is cleaned up by its clean-up function.
* A send task that has written its message to a **connection** queues a *receive
  task*, and hands the connection to it. The receive task reads the response,
  ends the request, and gives the connection back to the pool; after a
  throttling or a closed connection it queues a new send task.
* A **deletion** (by an unmount, or by the worker itself after `catastrophe`)
  marks the dysk, takes it off the list and queues a *delete task*. That task is
  meant to wait until the worker dropped the dysk's other tasks, and then frees
  the dysk.

### 1.3 What is hard here

* The walk of the worker caches the next element without holding the lock,
  while other processors append and the current task removes itself.
* A request is carried by a chain of tasks. Every allocation can fail, every
  connection can break, the dysk can be throttled or deleted at any point;
  through all of that the request must have one task, must be ended once, and
  its connection must have one owner.
* A connection carries answers in order. One that goes back to the pool with an
  answer still to come gives it to the next request.
* Deletions, mounts and failures of one name race without a common lock.
* Deadlines are inherited along the chain; throttling must neither lose a
  request nor stretch its deadline.
* `io_request` runs under a lock that ending a request takes.
* A response arrives in pieces of any size, and may be preceded by the tail of
  another one.
* The init of the module can fail at nine places, each with a clean-up of its
  own before the general one, and processes use the endpoint before the worker
  exists and until the module goes.
* The lease of a blob is taken and broken in several calls to a service that
  other nodes call too, by commands that may be killed between any two.

The full list, with the line each bites at and the property that covers it, is
`hazards` in `PROJECT.json`.

### 1.4 What makes each component correct

* *Worker*: the walk stays on the list; a pass visits all it began with; a retry
  does not buy time; a throttled dysk's tasks wait; a dead dysk's tasks go.
* *Transfer library*: one task per request, ended once, after it was started,
  with its own answer; nothing is dropped without a reason the worker gives;
  every request is eventually ended.
* *Pool*: one user per connection; the count is that of the connections.
* *Life cycle*: what can be found by name is whole; names are unique; a slot has
  one owner; a dysk is freed once, after its last task; a deletion ends.
* *Parser*: what a response is taken for does not depend on how it is cut into
  fragments, nobody else's response is taken for one's own data, and no line is
  longer than the arrays it is copied to. None of the three is true without
  exceptions (sections 3 and 4).
* *Codec*: what one side encodes the other decodes, whatever the list of dysks
  went through; a refusal has a reason.
* *Module life*: what the init registered is undone, whatever failed; the worker's
  memory outlives its thread; unloading ends. What dysks registered is not
  undone (section 4).
* *Go client*: a blob has one writer, by its lease; a node that lost the lease
  loses the dysk.

## 2 The modules

```
Worker ---- WorkerPass --- MCWorker
  |
  +--- AzTransfer --- MCAzTransfer, MCAzTransferLive ...> BlockDevice (implemented)
  +--- DyskBdd ------ MCDyskBdd, MCDyskBddLive

DyskUtils --- HttpResponse --- MCHttpResponse ---+
     |                                           +--- MCParsers
     +------- IoctlCodec ----- MCIoctlCodec -----+

ModuleLife --- NodeClient --- MCNode
```

The theorems (section 5) have modules of their own, each extending the one it
is about (in parentheses) and those whose lemmas it uses:

```
WorkerProofs (Worker)
  |
  +--- WorkerPassProofs (WorkerPass)
  +--- AzTransferProofs (AzTransfer) --- AzConnProofs (MCAzTransferLive)
  +--- DyskBddProofs (DyskBdd) --- DyskLiveProofs (MCDyskBddLive)

NodeProofs (NodeClient, and ModuleLife, which it extends)
ParserProofs (HttpResponse and IoctlCodec)
```

`Worker` is both a detailed model of `dysk_worker.c` and the abstract
specification of what the two modules below it do to the worker. `AzTransfer`
and `DyskBdd` extend it, conjoin the worker's actions with what a task's
function does, and each has the property `ImplementsWorker` (`Spec` of
`Worker`): every step of theirs is one that `Worker` allows. The refinement
mapping is the identity on the worker's variables.

`BlockDevice` is what the block layer is promised; `MCAzTransferLive` maps the
transfer library to it (`ImplementsBlockDevice`) with an `INSTANCE` that forgets
tasks, connections, throttling and the stages of `io_request`.

### 2.1 Worker

| variable | code |
|---|---|
| `queue` | `dw->head->list`; a task keeps `exec_fn`, `state`, `d`, `mode`, `expires_on` |
| `pos`, `more` | the cursor of `list_for_each_entry_safe` and whether its cached `next` is an element |
| `wpc` | where the thread is: `pass` (top of the loop), `visit` (about to call `execute`), `exec` (in the retry loop), `expiry` (past it), `catastrophe` (inside `dysk_catastrophe`), `stopped` |
| `execCount` | the local of `execute` |
| `status`, `throttle_until` | fields of the dysk |
| `jiffies` | the clock |

Actions follow `execute` branch by branch: `Cancel` (82-89), `SkipThrottled`
(97-99), `StartExec`, `ExecRetry`, `ExecDone`, `ExecThrottle`,
`ExecCatastrophe`, `CatastropheReturn`, `Expire`, `Stay`. One call of a task's
function, with what it appends and the way `execute` acts on its result, is one
step: the function's state belongs to the worker's thread, and appending to the
tail commutes with an append of anybody else. What can come between is
interleaved: `queue_w_task`, `MarkDeleting`, `Tick`. `count_tasks` only makes
the thread yield and is left out. The cached `next` is a Boolean because only
the worker removes elements: `next` is the element behind the current one, or
the list head if there was none when the walk arrived here, even if one was
appended since.

### 2.2 AzTransfer

| variable | code |
|---|---|
| `reqst`, `resst` | the `__reqstate` and `__resstate` of a request's tasks: connection, `try_new_request`, what was made and sent |
| `fifo`, `count` | `connection_pool.connection_queue` and its unsigned count, modulo `UIntModulus` |
| `sock`, `wire` | a socket, and what it carried whose answer was not read |
| `bio`, `ends`, `result`, `got` | where the block layer's request is; how often, with which error and with whose answer it was ended |

A call of a task function falls through the stages that are left, so there is
one action for each place it can return from: no memory before the connection,
no connection, a failed connect, a full socket buffer, a failed send, all sent,
nothing left but to queue the next task. The parameter `mem` says whether
`queue_w_task` found memory. The clean-ups are called with the state the task
has then. Both test `if (clean_done)`, which is a constant and not the
parameter, so their last branches are dead code and the reason does not matter.

`IoRequest`, `IoRequestReject`, `az_do_request` and `IoRequestStart` are the
stages of `io_request`; between the first and the last the queue's lock is held
and no request of the dysk can be ended. `SMP` says whether a spin lock spins:
in a uniprocessor build the rejections end their request, in the other they wait
for the lock their own caller holds.

External, modelled from how the code uses them: the server answers the requests
of a connection in order with success, throttling or a fatal status; a
connection may break at any time; jiffies.

### 2.3 DyskBdd

| variable | code |
|---|---|
| `list` | `dysks.head.list`, the newest first |
| `busy`, `scount` | the bits of `dysks.dysks_slots` (of which `SLOT_BITS` are in the array), `dysks.count` |
| `obj` | an object in memory: allocated, its name, its slot, whether it has a queue, and how many requests the block layer waits for |
| `peeked` | dysks whose `io_request` has seen the status and not yet queued the task |
| `ioctl` | the program counter and the locals of each process in an ioctl, and of the worker inside `dysk_catastrophe` |
| `dels` | the state of each delete task |
| `oops` | `freed` or `deleted twice`: memory was used after it was freed, or an element unlinked that was not linked |

A mount is `MountStart` (the name is free), `MountHook` or `MountFails`
(`az_init_for_dysk` or `io_hook`), `MountAdd` (`list_add`), `Reply`. A deletion is `DelFind`,
`DelMark`, `DelUnlink`, `DelQueue`, each under its own lock or none; then
`DelAgain`, `DelTeardown` and `DelFree` in the worker, where `DelFree` waits, as
`blk_cleanup_queue` does, for the requests of the dysk. The tasks of requests
have any of the outcomes `AzTransfer` gives them, a clean-up of a send task that
forgets its request included. After `oops` the model stops: what the kernel does
then is not defined. The memory of a freed dysk may be used by the next mount
(`Renew`).

`TakeSlot` sets a bit past the array when the array is full, which the maximum
(1024) allows and the array (16 words of 32 bits) does not. Behind the array
comes the list's head, `HeadDysk`, and its first words are its status: the head
is then no longer healthy, and the worker cancels every delete task. Only this
is modelled of what lies behind the array: slots 32 bits and more behind it (544
and up) would set bits of the head's other fields.

### 2.4 HttpResponse, DyskUtils

| variable | code |
|---|---|
| `stream` | what the connection will deliver: a response, perhaps behind the tail of another one |
| `arrived` | `bytes_received` |
| `res` | the `http_response`: status, length, body, index |
| `outcome` | where the receive loop is: reading, what it came to, or `overrun` |
| `safe` | history: no fragment ended at a place where the parser may lose its own |

A cell is a word or a part of one, a number, a space or half of a line end;
`get_until` looks for a line end in cells. `StatusLine`, `FindContentLength` and
`FindBody` are the three stages of `process_response` (a status or a length is the
second word of its line, `SecondWord`), with the index moved by `cut + 2` even when
`cut` is -1, and the loops entered again by the next fragment where the code
enters them again: the one for the length also when it was found, so that it looks
at a line of the body. As for the kernel's `%*s`, what comes before the first space
is the first word, also when that is nothing.

`StatusOverruns` is whether the third word of the status line has room in `temp`
(32 bytes) and the line from there on in the `status` of the `http_response` (256);
what happens after that is undefined, and the model stops (`overrun`).

### 2.5 IoctlCodec

| variable | code |
|---|---|
| `dysks` | the module's list; with each dysk, as history, what it was asked for as |
| `buffer` | the 2048 bytes of a call, of which the module overwrites the front |
| `call`, `names` | the Go function that runs, its argument and whether the module has the buffer (`at`), and the names `List` has still to get |
| `answer`, `said` | what the client ends with; history: the module's last message |

Both sides are there: `dysk2string`, `dysk_def_from_buffer`,
`dysk_def_to_buffer` and `string2dysk` have each their own list of fields, as in
the code. A handler is one step, since the races inside the endpoint are
`DyskBdd`'s; a dysk may fail between two calls (`Catastrophe`), also between the
two calls of a `List`. `Reply` is `sprintf` and `copy_to_user`: what it writes ends
with a zero (`FitsWithZero`). A reply that does not fit with it is written past the
module's buffer, and the behaviour ends there (`call.at = "overrun"`).

`PlainRequestsAssumption` states what a request is: a type is one of the two that
`validateDysk` allows, sectors and `vhd` are what Go prints of a number and of a
Boolean, and no text has a line feed. The last is not checked by the client or
by the module: it is what a user keeps to. A text with a line feed would be read
as two fields. Only two theorems need the assumption (section 5).

### 2.6 ModuleLife

| variable | code |
|---|---|
| `script` | the steps of `_init_module`, of a clean-up or of `unload` that are left |
| `failed` | the step the init failed at |
| `ptr` | `class`, `device`, the slabs, the head, the thread, the majors: null, an `ERR_PTR`, or a value whose object is live, dead, or kept by the kernel |
| `thread`, `stop`, `working` | the worker's thread, `kthread_should_stop`, `dw->working` |
| `sent`, `count` | `dysks.head.worker`, `dysks.count` |
| `dysk`, `fds`, `inside`, `disks` | where each dysk is, who has the endpoint open, who waits in a mount, whose disk is open |

A failed step replaces the script by `ScriptAfter`: the clean-up of its part
(`endpoint_stop`, `dysk_worker_teardown`) and then all of `unload`, which undoes
some things twice. The kernel tolerates some of that (`Tolerated`); the rest,
and a call to a module that is gone, is `oops`, after which the model stops.

`kmem_cache_destroy` does not destroy a cache that has objects: a deletion that is
still queued when the worker's thread ends keeps its task, and with it the slab
(`Freed`: `kept`). When the module goes (`Abandoned`), such a dysk is `lost`; one that was
mounted is `stranded`, and its disk stays registered. A delete task may wait
for a request whose process has the disk open (`ThreadHangs`, `blk_cleanup_queue`):
the thread then runs nothing more, the disk is not closed, and `rmmod` is
refused. The device can be opened until it is destroyed, also while a failed
init is cleaned up (`Open`).

### 2.7 NodeClient

Extends `ModuleLife` with `lease`, `issued` and `others` (the blob's lease, and
which leases other nodes were given), `cmd` (the command of each process, with
its place) and `def` (the lease a dysk was mounted with). `StartCommand` opens
the endpoint, `Acquire` and `BreakExisting` are `page_blob_lease`, `IoctlMount`
and `IoctlUnmount` are actions of `ModuleLife` that the command takes, and
`EndCommand` ends or kills it anywhere. `StaleIo` is a request of a dysk whose
lease is not the blob's: it is answered with 412, and the worker deletes the
dysk. The storage service is external: a blob has at most one lease, and anybody
may break it. Nobody has a disk open in this module, so its worker does not hang in
a deletion; `ModuleLife` alone has both.

## 3 What the runs show

There are twelve runs, of which four end with a counterexample (section 4). The
passing ones finish in a little more than three minutes at most on two cores.

| run | module / cfg | asks | instance |
|---|---|---|---|
| `worker_safety` | `MCWorker` | `TypeOK`, `CursorOnTask`, `PassVisitsAll`, `ThrottledTasksWait`, `RetriesKeepDeadline` | two dysks, three tasks, three ticks |
| `transfer_pair` | `MCAzTransfer` / `MCAzTransferPair` | `OneTaskPerRequest`, `OneUserPerConnection`, `EndedAfterStart` | two requests, a pool of one connection, two sockets, the clock stopped |
| `transfer_late` | `MCAzTransfer` / `MCAzTransferLate` | `AzTypeOK`, `AnswersMatch`, `EndedOnce`, `OnlyDeadOrLateDropped`, `ImplementsWorker` | two requests, one socket, deadlines that pass |
| `transfer_live` | `MCAzTransferLive` | `PoolCountExact`, `ImplementsBlockDevice` | three requests, two dysks (one read-only), two faults |
| `bdd_races` | `MCDyskBdd` | `BddTypeOK`, `ListedAreLive`, `SlotsAccounted`, `TasksOnLiveDysks`, `NothingLeaks` | two processes with the clock stopped, or one with a clock that passes deadlines; two objects and the head, one name, two tasks, two slots of which the array has one |
| `bdd_live` | `MCDyskBddLive` | `MisuseNeedsFailure`, `FailedIsBeingDeleted`, `ImplementsWorker`, `DeletedIsFreed`, `MarkedTasksDrain` | one process, the clock stopped, a scheduled worker; otherwise the same |
| `parsers` | `MCParsers` | `CodecTypeOK`, `StatusInArrays`, `AnswerIsWhole`, `SafeFragmentsComplete`, `AnswersAsAsked`, `RefusalsExplained` | thirteen responses in all cuts, two of whose bodies name a length, and a read behind every tail of two others, also one cut inside the first word; a buffer of 41 cells, three dysks at a time, thirteen that may be asked for |
| `node` | `MCNode` | `NodeTypeOK`, `LeftIsOfDysks`, `TroubleExplained`, `ThreadHasMemory`, `CountMatches`, `UnloadEnds`, `OneWriter`, `LeasedHasEndpoint`, `StaleIsTaken` | two processes, two dysks, two loads of the module, two leases |

`MCParsers` holds the specifications of the two users of `get_until`, and `MCNode`
`LifeSpec` and `NodeSpec`; a behaviour runs the one or the other.

**The properties that hold.**

* `CursorOnTask`, `PassVisitsAll`: the walk survives every order of removals and
  appends, and skips nothing it began with. Three tasks are enough for one
  before, at and behind the cursor.
* `ThrottledTasksWait`: no step of any thread removes a normal task of a
  throttled healthy dysk, even when its deadline has passed.
* `RetriesKeepDeadline`: only a fresh request brings a new deadline onto the
  list.
* `OneTaskPerRequest`, `EndedOnce`, `EndedAfterStart`: whatever fails, a request
  has one task, is ended at most once, never by a task that is carried on and
  never before `blk_start_request`.
* `OneUserPerConnection`: on every path a connection is in one pool or in one
  task's state, and a closed one in neither. Two sockets and a maximum of one
  are the smallest instance in which a second connection is refused, and in
  which a failed connect leaves an uncounted one.
* `AnswersMatch`: a request gets somebody else's answer only if some request of
  its dysk was ended without its own: it was timed out (or cancelled), and its
  connection given back with the answer to come. The exception is the code's
  behaviour and a hazard; every other path is clean. It need not be the request
  whose answer was taken that was ended so: who reads a stale answer leaves its
  own behind for the next one.
* `OnlyDeadOrLateDropped`: no request is lost, except by a marked dysk or a
  passed deadline.
* `PoolCountExact`: as long as no connect fails and no send task that holds a
  connection is dropped, the count of a pool is that of the connections in it and
  with the tasks of its dysk. The run has neither; 5.2 shows for `AzSpec` that
  nothing else makes a count wrong.
* `ImplementsBlockDevice`: with finitely many faults before its deadline, every
  request is ended, once, with its own answer; also one that is throttled,
  refused by the pool, or rejected at once. See 3.1 for what is assumed.
* `ListedAreLive`, `SlotsAccounted`, `TasksOnLiveDysks`: the invariants of the
  life cycle, in every race of two processes and the worker. The last holds only
  because `blk_cleanup_queue` waits for requests: the delete task's own waiting
  does nothing (section 4).
* `NothingLeaks`: a dysk is listed, being mounted or in a deletion, unless a slot
  past the array marked the head (2.3).
* `DeletedIsFreed`, `MarkedTasksDrain`: a deletion that began ends, and no task
  of a marked dysk stays, unless the worker waits for a request or for memory.
* `MisuseNeedsFailure`: with one process no dysk is used after it was freed, or
  unlinked twice, unless one failed. With two processes it takes no failure
  (section 4).
* `FailedIsBeingDeleted`: a failed dysk that can be found is one its own failure
  is about to delete, except one that failed between `add_disk` and `list_add`.
* `AnswerIsWhole`: a response that comes alone is taken for what it is, whole, in
  whatever pieces it came, unless its body names a length and a piece ended in it.
  Behind a stale tail no other data ends a request, unless the tail was cut so
  early that it is an answer itself, or the body names a length. The exceptions
  are the code's behaviour and hazards (section 4).
* `SafeFragmentsComplete`: a response is recognised as soon as it is there if each
  piece ended at one of the places of `SafeEnd`. These do no harm; whether the
  others do depends on the response.
* `StatusInArrays`: the status line of a response that comes alone has room in
  the arrays for it. Behind a stale tail a long line overruns them (section 4).
* `AnswersAsAsked`, `RefusalsExplained`: what the client reads is what was asked
  for, in every field; what it validated is refused for three reasons only.
* `CodecTypeOK`: every text of a dysk ends inside its array; of the replies only
  that to a mount may be longer than the module's buffer (`OnlyMountsOverrun`), and
  it may (section 4).
* `LeftIsOfDysks`: whatever step failed, what a module that is gone leaves behind
  is that of dysks: its thread has ended and its own resources are given back, but
  for the worker's slab when a deletion was queued. The disks of mounted dysks
  stay registered, which is not denied but found by `TroubleExplained`.
* `ThreadHasMemory`, `UnloadEnds`: the worker's slab and head are live while its
  thread runs; `rmmod` ends unless the thread was stopped before it first ran. A
  thread that hangs in a deletion does not disturb it: the process it waits for
  has the disk open, and `rmmod` is refused.
* `TroubleExplained`, `CountMatches`: the list of what can go wrong in a load, a
  use and an unload is complete, and so is that of what makes the count drift.
* `OneWriter`: two dysks write to one blob only if a user passed the lease of the
  one to the other.
* `LeasedHasEndpoint`: the module cannot go between a lease and its mount.
* `StaleIsTaken`: the dysk of a node whose lease was broken is taken away when it
  is next used (`docs/design.md:43`).
* `ImplementsWorker`: see section 2.

Each property has a mutant, a plausible bug in one definition, that TLC finds
it violated under (`mutants` in `PROJECT.json`; the mutated forms stand before
the definitions they replace).

### 3.1 Bounds and fairness

`MaxTasks` bounds the list, `MaxJiffies` the clock, `MaxRequests` the
outstanding requests of a dysk, `MaxFaults` a history variable of
`transfer_live`, `MaxLoads` and `MaxLeases` how often the module is loaded and
the blob leased, `MaxListed` the dysks mounted at a time in `IoctlCodec`. `Timeout` and `ThrottleDefault` are one tick, except
in `transfer_live`: what matters is whether each lies before or behind the
clock. `UIntModulus` is 4: wide enough for the pool, small enough to wrap. The
slots of the `bdd` runs are two (one more than the maximum, section 4), one of
them in the array. In `parsers` a cell stands for a word, a part of one
or a byte; `HeaderRoom`, `LineRoom`, `TempRoom`, `StatusRoom`, `Room` and `MAX_IN_OUT`
are scaled so that the lines of a response that comes alone fit, as those the
service sends do, and longer ones occur in bodies; and so that every limit of the
codec is met by an instance exactly, and passed by one. Two loads show what the first leaves to
the second; two leases show one that was taken, broken and taken by another
node.
Request states, objects, processes and sockets are symmetric in the runs without
temporal properties that would forbid it.

The clock stands still in `transfer_pair`, so that its two requests and two
sockets can be exhausted; `transfer_late` has one socket and a running clock.
Deadlines do not interact with the number of sockets except through a
connection given back, which one socket shows.
In `bdd_races` two processes race with the clock stopped, one process with a
running clock (`crew` in `MCDyskBdd`): a deadline or a throttle that passes
changes what the worker does next, which is the same whichever process called.

Fairness is weak fairness of the worker's thread as a whole (the kernel
schedules it), of each processor inside `io_request`, and of a server's success
answer to each connection. In `node` it is weak
fairness of the loader's steps, of the worker's thread, and, for `StaleIsTaken`,
of a request to a dysk that lost its lease (a dysk nobody uses stays). Nothing
is assumed of memory, the network or the deletion of dysks.
`ImplementsBlockDevice` is checked for behaviours in which the
number of faults is bounded, and three kinds do not occur, because the code does
not recover from them before the deadline:
a failed connect (the pool may be full for good), a header that could not be
made (the next call sends an empty one), and a status that fails the dysk.

Deadlock is not checked where the system really may stop: the worker is torn
down (`Stop`), `io_request` waits for its own lock (`transfer_late`, `SMP`), the
kernel has oopsed or waits in `blk_cleanup_queue` (`DyskBdd`), a response
has been read or a buffer overrun (`parsers`), or the module is gone for good (`node`). It is checked
in `transfer_pair` and `transfer_live`.

## 4 Where code and documentation disagree

Each is a run that TLC ends with a counterexample.

| run | property | what the code does |
|---|---|---|
| `transfer_all_or_none` | `AllOrNone` | a receive task that is cancelled or timed out ends its request with success and without data, because `if (clean_done)` tests a constant (`az.c` 544); `dysk_bdd.c:862`: "atomic (all or none)" |
| `transfer_new` | `NewIsEnded` | a request that comes after the dysk was marked is ended under the lock that ending takes (`design.md:31`) |
| `bdd_names` | `NamesUnique` | two mounts of one name both pass `dysk_exist` and both list a dysk (`ioctl_cmds.md:24`); `add_disk` reports nothing |
| `wire_error` | `ErrorIsMessage` | the module's error is copied over the client's request without a zero behind it, and the client takes all of the buffer for the message (`ioctl_cmds.md:7`) |

The models also show, without a run of their own:

* A reply to a mount is its request and two numbers, written by an unbounded
  `sprintf` into 2048 bytes (`dysk_bdd.c` 288, 509), its zero behind it.
  `ioctl_cmds.md:7` says "All responses are max 2048 bytes including a null
  terminator". The maxima it gives of the fields add up to more, so a request
  within them can have a reply past the buffer (`call.at = "overrun"` in
  `IoctlCodec`; `MCIoctlCodec` has such a request). A request of the Go client,
  whose host was looked up, is far shorter.
* A line of a list is a name alone (`dysk_bdd.c` 674, 698; `Listed`).
  `ioctl_cmds.md:94` says "devicename major:minor", and so does line 5. The client
  gets the numbers by a get of each name.
* The loop for `Content-Length` is entered by every later fragment (`az.c`
  428-441) and takes a line of the body. If that names a length, a read is taken
  as whole, and ends with success, when so much of it is there, or it is never
  recognised (`LengthInBody`, the exception of `AnswerIsWhole`); `dysk_bdd.c:862`
  says "atomic (all or none)".
* `retry_later` is not "executed again in next worker round" (`dysk_worker.c:18`):
  its `break` leaves the switch, not the loop, so the task runs up to three times
  in one visit (`ExecRetry`). So the "2 passes" of `dysk_bdd.c:189` are three runs
  in one visit, and a task visited before the dysk was marked is still on the
  list at the tear-down. That no task outlives its dysk's memory all the same is
  `TasksOnLiveDysks`; what a torn-down pool does to such a task is not modelled
  (section 6).
* After a failed connect, `connection_create` hands out a socket that is not
  counted, and `connection_pool_put` subtracts it all the same: the unsigned
  count of an empty pool wraps (`az.c` 280), and the pool is full for good.
  The other way round, a send task that is dropped forgets its connection, whose
  place in the count is never given back (`OnlyTwoStepsLoseCount`).
* A piece of a response that ends inside a header line, or between the two
  characters of a line end, makes the parser look for the next line in the
  wrong place: the response may then never be recognised, and its request waits
  for its deadline. `SafeEnd` lists places that do
  no harm, not all of them: whether another place does depends on the response.
* Behind a stale tail a header line may be read as a status line. The status is
  then not one the module knows, and the dysk fails. And a tail of which only a part
  of the first word was read (`TP/1.1 201 Created`) is a whole answer: `%*s` skips
  whatever is before the first space (`az.c` 416), and the next request ends as done
  with it (`TailIsSuccess`, the exception of `AnswerIsWhole`).
* A long line of a body, read as a status line behind a stale tail, is copied to
  `temp[32]` and `status[256]` without regard to their size (`StatusInArrays`).
* Of a module that is gone the disks of the dysks that were mounted stay
  registered, and so does the worker's slab when a deletion was queued
  (`LeftIsOfDysks`, `TroubleExplained`).
* The init undoes the class twice when `device_create` fails and the worker's
  slab when its head cannot be allocated, and stops an error pointer when
  `kthread_run` fails (`TroubleExplained`). An ioctl that comes before the worker
  was started finds no slab. Dysks that were mounted before the init ended are
  forgotten by the count (`CountMatches`).
* `rmmod` with a mounted dysk is not refused; `docs/build-install.md:140` warns.
* A mount that fails after it took the lease does not give it back, and `Unmount`
  with `--break-lease` breaks whichever lease the blob has by then.
* `validateDysk` allows texts as long as the module's arrays, which must also
  hold a zero, and looks neither at the signature nor at the host it sends.
* `List` fails as a whole when a dysk goes between its calls.
* The constant test in the clean-ups also means that a request cancelled with its
  dysk does not end with `-EIO` (`design.md:32`), and that the clean-up of a send
  task forgets its request altogether (`CleanSend`).
* Two deletions that found the same dysk both unlink it (`oops = "deleted
  twice"`), and `dysk_mount` and `dysk_get` read a dysk that another process may
  have freed (`oops = "freed"`).
* `dysk_catastrophe` deletes by name (`dysk_bdd.c:854`): the dysk deleted may be
  another one. A dysk that fails between `add_disk` and `list_add` is not found,
  is listed by its mount afterwards, failed, and stays.
* The count of dysks starts at -1, so there may be one more than `MAX_DYSKS`
  (`dysk_bdd.c:76`, 1046): the bounds of `BddTypeOK` are the code's.
* `design.md:39` speaks of a pause of 3 seconds; the default throttle is a tenth
  of one.

## 5 What is proved

Each theorem holds for any dysks, requests, sockets, functions and states and
for any bounds, except under the hypothesis the table names. The assumptions are
those the models state: `ParametersAssumption` (the bounds are naturals, the timeout and the throttle positive),
`LifeParametersAssumption` and `ClientParametersAssumption` (the bounds are
naturals, `None` is no dysk and the dysks are finitely many),
`AzParametersAssumption` (every request has a dysk, a pool has room for one
connection, the width of its counter exceeds the room),
`BddParametersAssumption` (the list's head is a dysk, the worker's thread is no
caller, there is one dysk allowed at least, and `None` is nothing),
`HttpParametersAssumption` (what a connection delivers is text, digits stand for
naturals), `CodecParametersAssumption` (what users ask for is text,
the module's arrays have a cell at least and the one for the type two, and the
buffer holds more than a first line) and, for `AnswersCorrect` and `RefusalsCorrect` alone,
`PlainRequestsAssumption` (2.5).

| module | theorem | statement |
|---|---|---|
| `WorkerProofs` | `TypeCorrect` | `Spec => []TypeOK` |
| | `CursorSafe` | `Spec => []CursorOnTask` |
| | `DeadlinesKept` | `Spec => RetriesKeepDeadline` |
| | `ThrottledWait` | `Spec => ThrottledTasksWait` |
| `WorkerPassProofs` | `PassVisits` | `SpecPass => []PassVisitsAll` |
| `AzTransferProofs` | `AzTypes` | `AzSpec => []AzTypeOK` |
| | `TransferImplementsWorker` | `AzSpec => ImplementsWorker` |
| | `OneTask` | `AzSpec => []OneTaskPerRequest` |
| | `EndsOnce` | `AzSpec => []EndedOnce` |
| | `EndsAfterStart` | `AzSpec => EndedAfterStart` |
| | `LosesDeadOrLate` | `AzSpec => OnlyDeadOrLateDropped` |
| `AzConnProofs` | `OneUser` | `AzSpec => []OneUserPerConnection` |
| | `AnswersAreOwn` | `AzSpec => []AnswersMatch` |
| | `OnlyTwoStepsLoseCount` | `AzSpec => [][CountInv /\ ~LosesCount => CountInv']_vars` |
| | `CountIsExact` | `SteadySpec => []PoolCountExact` |
| | `PromptCountIsExact` | `PromptSpec => []PoolCountExact`, if `MaxJiffies <= Timeout` |
| | `PromptImplementsDevice` | `PromptSpec => Device!Init /\ [][Device!Next]_(Device!vars)`, if `MaxJiffies <= Timeout` and `NoSelfDeadlock` |
| `DyskBddProofs` | `BddImplementsWorker` | `BddSpec => ImplementsWorker` |
| | `BddTypes` | `BddSpec => []BddTypeOK` |
| | `ListedDysksAreLive` | `BddSpec => []ListedAreLive` |
| | `SlotsAreAccounted` | `BddSpec => []SlotsAccounted` |
| | `TasksHaveLiveDysks` | `BddSpec => []TasksOnLiveDysks` |
| | `NoDyskLeaks` | `BddSpec => []NothingLeaks` |
| `DyskLiveProofs` | `OneCallerKeepsNames` | `BddSpec => []NamesUnique`, if `OneCaller` |
| | `OneCallerIsSafe` | `FairBddSpec => []MisuseNeedsFailure`, if `OneCaller` |
| | `FailedIsDeleted` | `FairBddSpec => []FailedIsBeingDeleted`, if `OneCaller` |
| `NodeProofs` | `OnlyDysksLeave` | `LifeSpec => []LeftIsOfDysks` |
| | `AllTroubleIsExplained` | `LifeSpec => []TroubleExplained` |
| | `MemoryOutlivesThread` | `LifeSpec => []ThreadHasMemory` |
| | `CountFollowsDysks` | `LifeSpec => []CountMatches` |
| | `NodeTypesHold` | `NodeSpec => []NodeTypeOK` |
| | `OneWriterHolds` | `NodeSpec => []OneWriter` |
| | `LeaseKeepsEndpoint` | `NodeSpec => []LeasedHasEndpoint` |
| | `ClientsLiveWithTheModule` | `NodeSpec => [][LifeNext]_lifeVars` |
| `ParserProofs` | `HttpTypeCorrect` | `Spec => []HttpTypeOK` (of `HttpResponse`) |
| | `CodecTypeCorrect` | `CodecSpec => []CodecTypeOK` |
| | `OverrunsAreMounts` | `CodecSpec => []OnlyMountsOverrun` |
| | `ListCorrect` | `CodecSpec => ListShowsDysks` |
| | `AnswersCorrect` | `CodecSpec => AnswersAsAsked` |
| | `RefusalsCorrect` | `CodecSpec => RefusalsExplained` |

### 5.1 The worker

* `RemoveAtProperties` says what `list_del` leaves, from the library's facts on
  sequences; `DequeueElements` adds what the task's function appended.
* The inductive invariant is `IInv == TypeOK /\ CursorOnTask /\ RetriesLeft`.
  `TypeOK` alone is not inductive: `Current` is a task only if the cursor is on
  the list, and `execCount` stays in range only if the retry loop is never
  entered with no run left (`RetriesLeft`). `GoToStep`, `KeepStep` and
  `DequeueStep` carry `CursorOnTask`: the cached `next` is at the cursor's own
  index after a removal and one further otherwise, and an append never moves it.
* `ThrottledWait` needs two facts more: a task whose function runs is of a dysk
  that is not throttled, or may run throttled (`RunsUnthrottled`), and a task in
  `dysk_catastrophe` is of a marked dysk (`FailingIsMarked`).
* `PassVisits` needs the place of what is still owed: between the cursor and the
  last element the walk will reach (`DueInv`). The end is the current task when
  the cached `next` is the head, however much was appended since.

### 5.2 The transfer library

* The inductive invariant is `AzInv`: the worker's, the types, and what ties the
  tasks on the list to the requests. `TasksInv`: a task is of the kind its state
  is of, is its request's only one and belongs to its dysk. `StatesInv`: a state
  is blank while no task has it, and has a connection exactly in the stages that
  need one. `BioInv`: a request with a task is queued or started, one that is
  not ended has neither result nor answer. None of these is inductive alone: a
  clean-up frees the state of the current task, which is the state of no other
  only because a request has one task; a request is ended by its task, which is
  its first end only because one that was ended has no task.
* Every step shows `StepOk`: the worker allows it, the invariant is kept, a
  request that loses its task is ended or could not stay, and none is ended
  under its queue's lock. The six theorems are projections of that.
  `DequeueTasks` and `AppendTasks` say what a step does to who has a task,
  `KidsOfMine` that the child of a task is one `Worker` allows it to queue.
* For connections the invariant is `AzConnInv`, with `ConnInv` about three
  values: the connection each request holds in either of its states (`Holder`),
  the requests that may be owed an answer (`Owing`), and the dysks on which an
  answer was left behind (`LateDysks`). A connection is at one place of one pool
  or held by one request, and, off the late dysks, what it owes is nothing or the
  answer of its holder alone. `AzConnProofs` has one lemma for each thing that is
  done to a connection (taken from the pool or created, left, torn down, given
  back, written to, handed to the receive task, read from); a step of the
  library is one or two of them.
* `ConnInv` alone is inductive except for one step: an answer that is read is
  somebody else's only on a late dysk, and a dysk stays late (`LateGrows`), since
  the result and the answer of an ended request stay.

The proof of `AnswersMatch` found its first form wrong. It said that the request
whose answer was taken had itself been ended without one. With two requests, the
instance of `transfer_late`, that is so. With three, the one that was ended late
leaves its answer to the second, the second its own to the third: the third then
has the answer of a request that was answered, with the first one's. The form
proved, `OwedOn`, names the dysk.

The second part of `AzConnProofs` is about the counters of the pools. A counter is
right when it is the number of connections in the pool and held by the requests of its
dysk (`CountInv`, stated with `Holder`; `UsersAreUsed` shows that these are the
users `PoolCountExact` finds through the task list).

* `CountInv` says besides that the number is at most `MAX_CONNECTIONS`.
  `PoolCountExact` alone is not inductive: the counter is an unsigned number of a
  given width, one more connection is one more in the counter only if it does not
  wrap, and it does not because `connection_pool_get` creates none at the maximum.
* `OnlyTwoStepsLoseCount` says of the whole system, faults and deadlines
  included, that an exact counter becomes wrong by two steps alone. One is a
  connect that fails: its socket stays in the request's state and is not counted
  (`connection_create` 225-263). The other is a send task that leaves the list
  holding a connection, because its dysk is marked, fails, or its deadline has
  passed: `__clean_send_az_req` (`az.c` 776-779) frees the state and forgets the
  connection, which stays counted. The second came out of the proof; the run
  never had it, since in `PromptSpec` no dysk is marked and no deadline passes.
* `CountIsExact` is the invariant of a system without these steps
  (`SteadySpec`), and `PromptCountIsExact` that of the run: `PromptSpec` takes
  neither step, because no answer fails a dysk (`CodesInv`) and no deadline
  passes (`DeadlinesInv`). The latter takes `MaxJiffies <= Timeout`, which the
  run's cfg meets, and which is what "before the deadline" means there.
* `PromptImplementsDevice` is the safety part of `ImplementsBlockDevice`, the
  refinement of `BlockDevice` by the mapping of `MCAzTransferLive`: the only steps
  the block layer sees are a peek (`Submit`), a read-only refusal (`Refuse`) and
  `RecvDone` (`Complete`, `EndedWithOwn`). That a request completes with its own
  answer is `AnswersMatch` where nothing is owed: since no task is dropped, every
  request that was ended has an answer (`NoneOwed`), and no answer can be a late
  one. `NoSelfDeadlock` leaves out what section 4 describes, a write to a
  read-only dysk that `io_request` refuses where spin locks spin.

`TransferImplementsWorker` makes the theorems of 5.1 theorems about
`AzTransfer`.

### 5.3 The life cycle of dysks

* The inductive invariant is `BddInv`. Its centre is `OwnersInv`: a dysk is in
  one pair of hands from its mount until it is freed, those of the list, of one
  thread that mounts it or took it off the list (`Holding`), or of one delete
  task. `WholeInv` says what the dysk is in each of them, and that a freed one
  is blank.
* `TasksOnLiveDysks` is about two waits. `WaitsInv` counts: the tasks of a dysk,
  and the one `io_request` is about to queue, are no more than the requests the
  block layer waits for, so `blk_cleanup_queue` in `DelTeardown` and `DelFree`
  does not return before the last of them went. `DelsInv` ties the counter of a
  delete task to the retry loop of `execute`: the task is never left on the list
  between its runs, which is what lets it own the dysk.
* `SlotsInv` needs the owners as well: the slot that a failed mount or a delete
  task gives back is that of nobody else only because the dysk is its alone.
* Not inductive alone: `ListedAreLive`, because a deletion takes the dysk it
  found off the list whoever has it by then; that is a step after which
  `oops = "deleted twice"`, and the model stops, exactly when the hands are not
  the list's (`DelUnlinkOk`). `NothingLeaks`, because a cancelled delete task
  loses its dysk: the head, whose task it is, is then no longer healthy.
* There is one lemma for each action, named after it, and each shows `StepOk`:
  the worker allows the step, and `BddInv` is kept. `HandsStay`, `WaitsStay` and
  `TaskLeavesDels` say what a step leaves alone; `TaskLeaves` and `TaskComes`
  what it does to the number of a dysk's tasks.

Uniqueness of the names is not provable: it is violated (section 4). It takes two
processes to violate it, and `DyskLiveProofs` proves what one process alone can
rely on, under the hypothesis `OneCaller` (there is one caller at most, as in
`bdd_live`), for any number of dysks, names, slots and requests:

* `OneCallerKeepsNames`: `NamesInv` is `NamesUnique` and that the dysk being
  mounted has a name that is not on the list. `dysk_mount` looks for the name
  before it allocates and lists the dysk much later; nobody else mounts in
  between, and the worker's deletions only shorten the list.
* `OneCallerIsSafe`: until a dysk fails, `AloneInv` has the dysk a process reads,
  marks or unlinks on the list, and the worker's thread out of
  `dysk_catastrophe`. `oops` is set only by a dysk that is off the list.
* `FailedIsDeleted`: `FailedIsBeingDeleted` needs the names (the failing thread
  deletes by name, and finds the dysk that failed only because no other has the
  name, `FoundByName`) and `MountingInv`: a dysk that fails while it is mounted
  has its disk already, since it had a task, which a dysk in `io_hook` has not
  (`TaskIsWaitedFor`). It is in `early`, and so is not claimed to be deleted when
  `list_add` makes it visible.

`LiveImplementsBdd` makes the theorems about `BddSpec` theorems about
`FairBddSpec`. The last proof found an error in the model: `early` kept a dysk
whose memory was taken for another one, against its comment, and so exempted the
new dysk from the property. It is corrected, and the run has been repeated.

`BddImplementsWorker` makes the theorems of 5.1 theorems about `DyskBdd`.

### 5.4 The module and its clients

* The inductive invariant of the module is `LifeInv`. The loader is where its
  script says: `ScriptInv` makes the script the last steps of a whole one, so
  that the number of steps left tells which they are. The resources are numbered
  in the order of the init (`Place`), which is also how many steps of `unload`
  are left when one is freed. `LoadingInv`, `LoadedInv` and `FailedInv` say in
  those numbers what every pointer is worth: during the init, once the module
  was published, and after a step failed.
* `LeftIsOfDysks` is what the three leave when no step is left. It is not
  inductive: nothing in it says that the steps still to come free what is there.
  That the slab is kept for a deletion only is `KeptInv`: a slab is kept when it is
  freed with a deletion queued, which no step from then on can run, since the
  thread is gone. It is not claimed that nothing is left: the disks of mounted
  dysks are none of the resources.
* `TroubleExplained` needs `FreedFirst`: a clean-up that runs before `unload`
  frees again only what its own part has freed, and of the failed steps only
  `device` and `head` have a part whose first step finds the second one dead.
* `ThreadHasMemory` needs two waits in their order: the steps that free the head
  and the slab have at most seven steps left, and with seven left the thread is
  gone, or was stopped before it ran.
* `CountMatches` needs `DysksInv`: during the init the dysks are those that came
  early, none is being deleted (the module is not published, and a delete
  oopses), and the count is theirs; from then on a step changes the count and
  the dysks by the same number (`OneDyskMoves`).
* For the clients the invariant is `NodeInv`: `LifeInv`, that the module is
  published, that a command which runs has the endpoint open (`CommandsInv`), and
  `LeasesInv`. A lease that a mount took for itself is in the hands of its command
  until the ioctl and of its dysk from then on (`OwnLease`, `OwnDysk`); no two
  hands hold one lease and none holds that of another node. `OneWriter` alone is
  not inductive: it does not speak of leases that are no longer, or not yet, the
  blob's.
* `ClientsLiveWithTheModule` lets `NodeInv` take `LifeInv` from the module.

### 5.5 The parser and the codec

Both cut texts, of any length, at separators, with recursive functions. The
library's induction theorems cannot be used, since they take the formula as a
parameter; what stands for them is that a set of naturals that is not empty has a
least element (`LeastNatural`). A fact about the places of a text is proved by the
least place of which it does not hold (`Induction`: the formula is a set there).
A recursive function is a `CHOOSE`, of which nothing is known before a function
with that equation is shown to exist: `Recursion` shows it for those that count up
to an end, and `JumpsExist` for the loops of `process_response`, which go from an
index to a greater one until they reach the end of what has arrived.

* `HttpTypeOK` (no more is received than there is room for) and `ListShowsDysks` (what
  the client takes for names are names of dysks, whole and in order, and of all of
  them when they fit) are in no run: what is proved says more.
* `HttpTypeCorrect`: that the loops end at all is why they have a value. They do
  because the index moves by `cut + 2`, and `cut` is -1 at least (`GetUntil`).
  `SecondWord` is a natural or nothing: the digits it looks at are consecutive.
* `CodecInv` gives the types. A text is in its array (`CodecTypeOK`) because
  `get_until` finds the line feed among the array's cells (`StartsSteps`,
  `DefFromBuffer`). It says besides what
  the readers rely on: a call that came back has a reply whose first line is `OK`
  or `ERR` (`Opens`), and `List` goes on only with a name.
* `SplitLines` and `get_until` undo `Lines`. `PlacesOfLines` has the places of the
  line feeds of lines put together, `PlacesGrow` that there are no others when the
  lines have none, `SplitOfLines` that these are then the pieces `strings.Split`
  gives; `ReadsReply` says it of what the client reads, of which the first pieces
  are the reply's and the others what the reply left of the request. For the
  module, `RequestRead` finds every field between its two line feeds, or one that
  is too long.
* `OverrunsAreMounts` needs that the definition of every mounted dysk fits: it was
  the reply to its mount, which did not overrun, and is the same when it is asked
  for later. A name and a message around it fit by `CodecParametersAssumption`.
* `ListCorrect` rests on `NameInv`: the names of the mounted dysks have no line
  feed, whatever users ask for, since the module read them up to one, and the
  request of a list has none, so that nothing it leaves behind the reply looks like
  one more name.
* `AnswersCorrect` and `RefusalsCorrect` rest on `PlainInv`: the buffer of a mount
  or a get is the client's request until the module answers, every mounted dysk is
  in every field what it was asked for as, and none of its texts has a line feed.
  `DyskRead` is the round trip through the four lists of fields, in their orders;
  `ErrorRead` that an error is read as one. These two theorems are false without
  `PlainRequestsAssumption`.

### 5.6 What is only model-checked

* All liveness, since fairness and `ENABLED` are beyond the proof system:
  `DeletedIsFreed`, `MarkedTasksDrain`, `UnloadEnds`, `StaleIsTaken`, and that every
  request of `ImplementsBlockDevice` is ended.
* `AnswerIsWhole`, `SafeFragmentsComplete` and `StatusInArrays`: they hold of the
  responses the service sends, which `MCHttpResponse` lists, and not of every text. `safe` says which
  pieces do no harm to those; which responses the parser can read at all, in every
  cut, has no description shorter than the parser.
* The four violated properties of section 4: their counterexamples are the proof.

## 6 What is not modelled, and why

* **Data.** Sectors, offsets, header text, signatures, dates. In `AzTransfer` a
  response is one answer; its fragments are `HttpResponse`'s.
* **Old kernels.** Before 4.0 the message is sent by a loop over the kernel's
  own segments; the paths after it are the same.
* **`connection_create` without a socket** (`az.c` 229-261) tears down a pointer
  nobody initialised. Anything may happen then; the outcome in which nothing
  does is that of a failed allocation.
* **Tear-down of a pool** with tasks still on the list: the use after free that
  can follow is outside `AzTransfer`, whose pools stay.
* **Composition of the parser with the transfer library.** A stale tail is an
  arbitrary one in `HttpResponse`, and the answer of another request in
  `AzTransfer`; both at once would multiply two large state spaces.
* **Requests rejected under the lock** are in `AzTransfer` only; in `DyskBdd`
  requests come to healthy dysks.
* **Short memory in `io_request`** (`dysk_bdd.c` 808-839): the loop peeks at the
  same request again and looks at the dysk's status again. The action
  `az_do_request` keeps the request peeked instead. If the dysk is marked meanwhile
  its task is queued all the same, and cancelled by the worker, as when the mark
  comes between the look and the queueing.
* **Slots far behind the array** (2.3).
* **Wrap-around of jiffies.** `time_after` is a comparison here. A `jiffies +
  throttle` of exactly 0 would read as "not throttled".
* **Creating and deleting page blobs**, sizes and signatures: calls to the
  storage SDK, with no state of the client's own between them.
* **The command line, the Kubernetes drivers, the tools, vendored code**: flags,
  scripts and third-party packages.

## 7 Plan

Done: all modules of section 2, and the proofs of every safety property and every
action property the passing runs check, but for the three of 5.6 that speak of the
service's responses.

What could follow: a grammar of the service's responses, to state `AnswerIsWhole`
of all of them; the pool's tear-down with tasks still on the list, and the parser
inside the transfer library (section 6).
