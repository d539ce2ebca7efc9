----------------------------- MODULE NodeClient -----------------------------
(***************************************************************************)
(* The Go client (pkg/client/client.go) on one node, on top of the life of *)
(* the node's module: commands that mount and unmount dysks of one page    *)
(* blob, and the lease of the blob, which the other nodes of the cluster   *)
(* take and break.  A command is a sequence of calls to the module and to  *)
(* the storage service; it can fail, or be killed, between any two.        *)
(*                                                                         *)
(* Leases are infinite and numbered in the order they are given out; 0 is  *)
(* no lease.  The service is external: a blob has at most one lease, a     *)
(* read or a write that names another one is refused with 412, anybody     *)
(* with the key may break the lease, and nobody needs its id for that.     *)
(***************************************************************************)
EXTENDS ModuleLife

CONSTANT MaxLeases  \* bound: leases given out

ASSUME ClientParametersAssumption == MaxLeases \in Nat

VARIABLES
  lease,   \* the lease of the blob
  issued,  \* leases given out so far
  others,  \* those that were given to other nodes
  cmd,     \* the command each process runs
  def      \* dysk_def of each dysk: its lease_id, and whether the user gave it

blobVars   == <<lease, issued, others>>
clientVars == <<blobVars, cmd, def>>
nodeVars   == <<lifeVars, clientVars>>

Leases  == 0..MaxLeases

\* got: Unmount has read the dysk whose lease it will break; given: the
\* lease was an argument (--lease-id).
Command ==
  [pc : {"idle", "mount", "broken", "leased", "mounting", "unmount", "got",
         "unmounted", "close"},
   id : Leases, given : BOOLEAN, d : Dysks \cup {None}]

NoDef     == [id |-> 0, given |-> FALSE]
NoCommand == [pc |-> "idle", id |-> 0, given |-> FALSE, d |-> None]

Now(p, c)   == cmd' = [cmd EXCEPT ![p] = c]
GoesTo(p, pc) == cmd' = [cmd EXCEPT ![p].pc = pc]
Service(p)  == Quiet /\ UNCHANGED lifeVars

-----------------------------------------------------------------------------
(***************************************************************************)
(* Mount.                                                                  *)
(***************************************************************************)
StartWithoutOpen(p) ==
  /\ Service(p)
  /\ ptr["device"] = "live"
  /\ cmd[p].pc = "idle"
  /\ \E pc \in {"mount", "unmount"} : GoesTo(p, pc)
  /\ UNCHANGED <<blobVars, def>>

\* openDeviceFile, which every command starts with; the descriptor stays
\* open until the command ends.
StartCommand(p) ==
  /\ Open(p)
  /\ cmd[p].pc = "idle"
  /\ \E pc \in {"mount", "unmount"} : GoesTo(p, pc)
  /\ UNCHANGED <<blobVars, def>>

AcquireProposed(p) ==
  /\ Service(p)
  /\ cmd[p].pc \in {"mount", "broken"}
  /\ issued < MaxLeases
  /\ lease' = IF lease = 0 THEN issued + 1 ELSE lease
  /\ issued' = IF lease = 0 THEN issued + 1 ELSE issued
  /\ Now(p, [cmd[p] EXCEPT !.pc = "leased", !.id = lease'])
  /\ UNCHANGED <<others, def>>

\* AcquireLease of page_blob_lease, the first one or the one after a break.
Acquire(p) ==
  /\ Service(p)
  /\ cmd[p].pc \in {"mount", "broken"}
  /\ lease = 0 /\ issued < MaxLeases
  /\ lease' = issued + 1 /\ issued' = issued + 1
  /\ Now(p, [cmd[p] EXCEPT !.pc = "leased", !.id = lease'])
  /\ UNCHANGED <<others, def>>

\* The first AcquireLease was refused, and --break-lease is given.
BreakExisting(p) ==
  /\ Service(p)
  /\ cmd[p].pc = "mount"
  /\ lease # 0
  /\ lease' = 0
  /\ GoesTo(p, "broken")
  /\ UNCHANGED <<issued, others, def>>

\* No lease is taken: the user gave one, which validateLease finds good, or
\* the dysk is read-only.
MountWithout(p) ==
  /\ Service(p)
  /\ cmd[p].pc = "mount"
  /\ \E id \in {0, lease} :
       Now(p, [cmd[p] EXCEPT !.pc = "leased", !.id = id, !.given = TRUE])
  /\ UNCHANGED <<blobVars, def>>

IoctlMount(p, d) ==
  /\ cmd[p].pc = "leased"
  /\ Mount(p, d)
  /\ IF oops' # "none" THEN UNCHANGED clientVars
     ELSE /\ def' = [def EXCEPT ![d] = [id |-> cmd[p].id, given |-> cmd[p].given]]
          /\ GoesTo(p, "mounting")
          /\ UNCHANGED blobVars

\* The command ends, or is killed, anywhere; the file is closed, and a lease
\* it took is not given back.
EndCommand(p) ==
  /\ cmd[p].pc # "idle"
  /\ Close(p)
  /\ Now(p, NoCommand)
  /\ UNCHANGED <<blobVars, def>>

-----------------------------------------------------------------------------
(***************************************************************************)
(* Unmount.                                                                *)
(***************************************************************************)
\* With --break-lease the dysk is read before it is unmounted.
GetBefore(p, d) ==
  /\ Service(p)
  /\ cmd[p].pc = "unmount" /\ Calls(p)
  /\ dysk[d] = "mounted"
  /\ Now(p, [cmd[p] EXCEPT !.pc = "got", !.id = def[d].id, !.d = d])
  /\ UNCHANGED <<blobVars, def>>

IoctlUnmount(p, d) ==
  /\ cmd[p].pc = "unmount" \/ (cmd[p].pc = "got" /\ cmd[p].d = d)
  /\ Unmount(p, d)
  /\ IF oops' # "none" THEN UNCHANGED clientVars
     ELSE /\ GoesTo(p, IF cmd[p].pc = "got" THEN "unmounted" ELSE "close")
          /\ UNCHANGED <<blobVars, def>>

\* BreakLease: the blob's lease, whosever it is.
BreakLease(p) ==
  /\ Service(p)
  /\ cmd[p].pc = "unmounted" /\ cmd[p].id # 0
  /\ lease' = 0
  /\ GoesTo(p, "close")
  /\ UNCHANGED <<issued, others, def>>

-----------------------------------------------------------------------------
(***************************************************************************)
(* The rest of the cluster, and requests.                                  *)
(***************************************************************************)
OtherAcquires ==
  /\ Quiet
  /\ lease = 0 /\ issued < MaxLeases
  /\ lease' = issued + 1 /\ issued' = issued + 1
  /\ others' = others \cup {lease'}
  /\ UNCHANGED <<lifeVars, cmd, def>>

OtherBreaks ==
  /\ Quiet
  /\ lease # 0
  /\ lease' = 0
  /\ UNCHANGED <<lifeVars, issued, others, cmd, def>>

CanWrite(d) == dysk[d] = "mounted" /\ def[d].id # 0 /\ def[d].id = lease
Stale(d)    == dysk[d] = "mounted" /\ def[d].id # 0 /\ def[d].id # lease

StaleIoRetried(d) ==
  Quiet /\ Stale(d) /\ UNCHANGED <<lifeVars, clientVars>>

\* The next request of a dysk without a valid lease is answered with 412,
\* which fails the dysk.
StaleIo(d) ==
  /\ Stale(d)
  /\ ThreadFails(d)
  /\ UNCHANGED clientVars

\* What the module does by itself, and rmmod; nobody has a disk open.  The
\* definition of a dysk is freed with it.
ModuleMoves ==
  /\ KthreadStop \/ WaitForWorker \/ FreeResource \/ ThreadStep \/ Rmmod \/ CallGone
  /\ def' = [d \in Dysks |-> IF dysk'[d] = "none" THEN NoDef ELSE def[d]]
  /\ UNCHANGED <<blobVars, cmd>>

-----------------------------------------------------------------------------
\* The module is loaded: what comes before is ModuleLife's.
NodeInit ==
  /\ script = <<>> /\ failed = "none"
  /\ ptr = [r \in Resources |-> "live"]
  /\ thread = "ready" /\ stop = FALSE /\ working = TRUE
  /\ count = -1 /\ sent = TRUE
  /\ dysk = [d \in Dysks |-> "none"]
  /\ fds = {} /\ disks = {} /\ early = {}
  /\ inside = [p \in Callers |-> None]
  /\ loads = MaxLoads
  /\ oops = "none"
  /\ lease = 0 /\ issued = 0 /\ others = {}
  /\ cmd = [p \in Callers |-> NoCommand]
  /\ def = [d \in Dysks |-> NoDef]

Client(p) ==
  \/ StartCommand(p) \/ EndCommand(p)
  \/ Acquire(p) \/ BreakExisting(p) \/ MountWithout(p) \/ BreakLease(p)
  \/ \E d \in Dysks : IoctlMount(p, d) \/ GetBefore(p, d) \/ IoctlUnmount(p, d)

NodeNext ==
  \/ \E p \in Callers : Client(p)
  \/ OtherAcquires \/ OtherBreaks
  \/ \E d \in Dysks : StaleIo(d)
  \/ ModuleMoves

NodeSpec ==
  /\ NodeInit
  /\ [][NodeNext]_nodeVars
  /\ LifeFairness
  /\ \A d \in Dysks : WF_nodeVars(StaleIo(d))

-----------------------------------------------------------------------------
(***************************************************************************)
(* Properties                                                              *)
(***************************************************************************)
\* The types of the module and of its clients; a command that runs has the
\* endpoint open, and the loader is somewhere in a script the code has.
NodeTypeOK ==
  /\ LifeTypeOK
  /\ lease \in Leases /\ issued \in Leases /\ lease <= issued
  /\ others \subseteq Leases
  /\ cmd \in [Callers -> Command]
  /\ def \in [Dysks -> [id : Leases, given : BOOLEAN]]
  /\ \A p \in Callers : cmd[p].pc # "idle" => p \in fds

\* Two dysks can write to the blob only if a user gave one of them the lease
\* of the other; nobody else can write beside a dysk that got its own lease,
\* whatever commands were killed, retried and interleaved with those of other
\* nodes (page_blob_lease, docs/design.md:43).
OneWriter ==
  \A d \in Dysks :
    (CanWrite(d) /\ ~def[d].given)
      => lease \notin others /\ \A e \in Dysks \ {d} : CanWrite(e) => def[e].given

\* A lease that a mount took is not lost because the module went away: from
\* before the lease is taken until the dysk is mounted the endpoint is open,
\* and the module cannot be unloaded (Mount 185-190).
LeasedHasEndpoint ==
  \A p \in Callers :
    cmd[p].pc \in {"broken", "leased", "mounting"} =>
      p \in fds /\ ~Unloading /\ ~Gone

\* The dysk of a node that was cut off, whose lease another node broke, is
\* taken away once it is used, if the worker runs (docs/design.md:43
\* "Existing dysks will gracefull fail").
StaleIsTaken ==
  \A d \in Dysks :
    Stale(d) ~> (dysk[d] # "mounted" \/ stop \/ oops # "none" \/ Gone)
=============================================================================
