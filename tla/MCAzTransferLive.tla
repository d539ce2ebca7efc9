-------------------------- MODULE MCAzTransferLive --------------------------
(***************************************************************************)
(* AzTransfer under fairness.  FairSpec adds to AzSpec what the node       *)
(* provides: the worker thread, the processors that call io_request and    *)
(* the server are not stopped for good.                                    *)
(*                                                                         *)
(* PromptSpec is the same system in a good network: a history variable     *)
(* bounds the faults, and the faults the code does not recover from before *)
(* the deadline (a failed connect, a header that was never made, a status  *)
(* that fails the dysk) do not happen.                                     *)
(***************************************************************************)
EXTENDS AzTransfer

CONSTANTS
  d1, d2, r1,
  MaxFaults  \* bound: faults in a behaviour of the liveness run

VARIABLE faults  \* how many there were

fairVars == <<vars, faults>>

OneDysk   == [r \in Reqs |-> d1]
TwoDysks  == [r \in Reqs |-> IF r = r1 THEN d2 ELSE d1]

FairInit == AzInit /\ faults = 0

FairNext == AzNext /\ UNCHANGED faults

Fairness ==
  /\ WF_fairVars(AzWorker /\ UNCHANGED faults)
  /\ \A r \in Reqs :
       WF_fairVars((IoRequest(r) \/ IoRequestReject(r) \/ az_do_request(r) \/ IoRequestStart(r))
                     /\ UNCHANGED faults)
  /\ \A c \in Conns : WF_fairVars(ServerAnswers(c, "ok") /\ UNCHANGED faults)

FairSpec == FairInit /\ [][FairNext]_fairVars /\ Fairness

-----------------------------------------------------------------------------
Recovered ==
  \/ SendNoMemory /\ reqst'[Mine].header # "empty"
  \/ SendNoConnection(FALSE)
  \/ \E c \in Conns :
       \/ SendBlocked(c, "retry_now") \/ SendBlocked(c, "retry_later")
       \/ SendFails(c, FALSE) \/ SendAll(c, FALSE)
  \/ SendMessageSent(FALSE) \/ SendTryNew(FALSE)
  \/ RecvNoMemory \/ RecvClosed(FALSE) \/ RecvThrottledNoMemory \/ RecvTryNew(FALSE)

\* Short memory, full socket buffers, closed connections, throttling.
BoundedFault ==
  /\ faults < MaxFaults
  /\ faults' = faults + 1
  /\ \/ Recovered
     \/ Network
     \/ \E c \in Conns : ServerAnswers(c, "throttle")

\* The clock runs while a throttle lasts; no deadline is near.
ThrottleClock == (\E d \in Dysks : Throttled(d)) /\ Clock

PromptStep ==
  \/ AzWorker \/ BlockLayer \/ ThrottleClock
  \/ \E c \in Conns : ServerAnswers(c, "ok")

PromptNext == (PromptStep /\ UNCHANGED faults) \/ BoundedFault

PromptSpec ==
  /\ FairInit /\ [][PromptNext]_fairVars
  /\ Fairness /\ WF_fairVars(ThrottleClock /\ UNCHANGED faults)

\* Where the block layer sees its request: the library has it from the peek on.
Place == [r \in Reqs |-> CASE bio[r] = "new" -> "idle"
                           [] bio[r] = "ended" -> "ended"
                           [] OTHER -> "pending"]

RefusedWrites == {r \in Writes : DyskOf[r] \in ReadOnly}

Device ==
  INSTANCE BlockDevice WITH
    Refused <- RefusedWrites, place <- Place, error <- result, data <- got

\* When the faults are finitely many and end before the deadline, the block
\* layer sees a device: however the task of a request was retried, throttled,
\* queued again or moved to another connection, the request is ended, once,
\* with the answer to itself (send 833-1084, receive 590-769).
ImplementsBlockDevice == Device!Spec

Users(d) ==
  {c \in Conns : \/ \E i \in 1..Len(fifo[d]) : fifo[d][i] = c
                 \/ \E i \in HeldBy(c) : queue[i].d = d}

\* The pool counts the sockets that are in it or with a task of its dysk, no
\* more and no fewer, as long as no connect fails and no send task that holds a
\* connection is dropped: a count that drifts makes the pool full for good, or
\* lets it grow without bound (connection_pool_get 299-314,
\* connection_pool_put 256-266).
PoolCountExact == \A d \in Dysks : count[d] = Cardinality(Users(d))
=============================================================================
