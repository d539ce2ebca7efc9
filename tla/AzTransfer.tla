----------------------------- MODULE AzTransfer -----------------------------
(***************************************************************************)
(* The transfer library (module/az.c) on top of the worker: how a request  *)
(* of the block layer becomes a send task and then a receive task, how     *)
(* both share the connections of their dysk's pool, and what ends the      *)
(* request.  io_request (module/dysk_bdd.c) submits, a server and a        *)
(* network, which are not the module's, answer and close connections.      *)
(*                                                                         *)
(* The worker is the only thread that runs the two task functions, and no  *)
(* other thread reads what they write, so one call of a task function is   *)
(* one step, conjoined with the worker's step that acts on its result.     *)
(***************************************************************************)
EXTENDS Worker, FiniteSets

CONSTANTS
  Reqs,            \* requests of the block layer
  Writes,          \* those that write
  DyskOf,          \* the dysk of each
  ReadOnly,        \* dysks mounted read-only
  SMP,             \* spin locks spin (a uniprocessor build has none)
  Conns,           \* sockets
  None,            \* no connection, no request
  MAX_CONNECTIONS, \* of one pool
  UIntModulus      \* width of connection_pool.count (an unsigned int)

ReqObject(r) == <<"req", r>>  \* its __reqstate
ResObject(r) == <<"res", r>>  \* its __resstate
Objects      == {"req", "res"} \X Reqs

ASSUME AzParametersAssumption ==
  /\ Writes \subseteq Reqs
  /\ DyskOf \in [Reqs -> Dysks]
  /\ ReadOnly \subseteq Dysks
  /\ SMP \in BOOLEAN
  /\ None \notin Conns \cup Reqs
  /\ MAX_CONNECTIONS \in Nat \ {0}
  /\ UIntModulus \in Nat /\ UIntModulus > MAX_CONNECTIONS
  /\ Fns = {"send", "recv"}
  /\ States = Objects

VARIABLES
  reqst,   \* __reqstate of a request's send task
  resst,   \* __resstate of a request's receive task
  fifo,    \* pool->connection_queue of a dysk: connections nobody uses
  count,   \* pool->count of a dysk
  sock,    \* what a socket is
  wire,    \* requests a socket carried whose answer was not read yet, oldest first
  bio,     \* where the block layer's request is
  ends,    \* how often io_end_request() was called for it
  result,  \* with which error
  got      \* the request whose answer it was completed with

poolVars == <<fifo, count, sock, wire>>
reqVars  == <<bio, ends, result, got>>
azVars   == <<reqst, resst, poolVars, reqVars>>
vars     == <<workerVars, azVars>>

SendState ==
  [c : Conns \cup {None}, try_new_request : BOOLEAN, header : {"none", "made", "empty"},
   header_sent : BOOLEAN, body_sent : BOOLEAN]
RecvState == [c : Conns \cup {None}, try_new_request : BOOLEAN]

BlankSend == [c |-> None, try_new_request |-> FALSE, header |-> "none",
              header_sent |-> FALSE, body_sent |-> FALSE]
BlankRecv == [c |-> None, try_new_request |-> FALSE]

\* The types, with the width of the pool's unsigned count (az.c:133), and no
\* request ended more than twice.
AzTypeOK ==
  /\ TypeOK
  /\ reqst \in [Reqs -> SendState]
  /\ resst \in [Reqs -> RecvState]
  /\ fifo \in [Dysks -> Seq(Conns)]
  /\ count \in [Dysks -> 0..(UIntModulus - 1)]
  /\ sock \in [Conns -> {"none", "open", "closed", "unconnected"}]
  /\ wire \in [Conns -> Seq([req : Reqs, whole : BOOLEAN,
                             code : {"none", "ok", "throttle", "fatal"}])]
  /\ bio \in [Reqs -> {"new", "peeked", "queued", "started", "rejecting", "ended"}]
  /\ ends \in [Reqs -> 0..2]
  /\ result \in [Reqs -> {"none", "OK", "ENODEV", "EROFS"}]
  /\ got \in [Reqs -> Reqs \cup {None}]

-----------------------------------------------------------------------------
(***************************************************************************)
(* The block layer.  io_request() runs with the queue's lock, d->lock,     *)
(* held; blk_end_request_all() takes that lock.                            *)
(***************************************************************************)
LockHeld(d) == \E r \in Reqs : DyskOf[r] = d /\ bio[r] \in {"peeked", "queued", "rejecting"}

EndIgnoringLock(r, err) ==
  /\ bio' = [bio EXCEPT ![r] = "ended"]
  /\ ends' = [ends EXCEPT ![r] = @ + 1]
  /\ result' = [result EXCEPT ![r] = err]

\* io_end_request of a started request, from the worker.
io_end_request(r, err) ==
  /\ ~LockHeld(DyskOf[r])
  /\ bio' = [bio EXCEPT ![r] = "ended"]
  /\ ends' = [ends EXCEPT ![r] = @ + 1]
  /\ result' = [result EXCEPT ![r] = err]

\* blk_peek_request found r; the status and the mode of the dysk are read.
IoRequest(r) ==
  /\ bio[r] = "new"
  /\ ~LockHeld(DyskOf[r])
  /\ status[DyskOf[r]] = "OK"
  /\ ~(r \in Writes /\ DyskOf[r] \in ReadOnly)
  /\ bio' = [bio EXCEPT ![r] = "peeked"]
  /\ UNCHANGED <<workerVars, reqst, resst, poolVars, ends, result, got>>

\* The two early rejections start the request and end it with the lock held:
\* where locks spin, io_request() waits for itself.
IoRequestReject(r) ==
  /\ bio[r] = "new"
  /\ ~LockHeld(DyskOf[r])
  /\ \/ status[DyskOf[r]] # "OK"
     \/ r \in Writes /\ DyskOf[r] \in ReadOnly
  /\ IF SMP
       THEN /\ bio' = [bio EXCEPT ![r] = "rejecting"]
            /\ UNCHANGED <<ends, result>>
       ELSE io_end_request(r, IF status[DyskOf[r]] # "OK" THEN "ENODEV" ELSE "EROFS")
  /\ UNCHANGED <<workerVars, reqst, resst, poolVars, got>>

\* az_do_request: a fresh __reqstate, queued with no parent.  When it cannot
\* be allocated, io_request() peeks at the same request again.
az_do_request(r) ==
  /\ bio[r] = "peeked"
  /\ queue_w_task("send", ReqObject(r), DyskOf[r], "normal")
  /\ reqst' = [reqst EXCEPT ![r] = BlankSend]
  /\ bio' = [bio EXCEPT ![r] = "queued"]
  /\ UNCHANGED <<resst, poolVars, ends, result, got>>

\* blk_start_request, once the task is on the worker's list.
IoRequestStart(r) ==
  /\ bio[r] = "queued"
  /\ bio' = [bio EXCEPT ![r] = "started"]
  /\ UNCHANGED <<workerVars, reqst, resst, poolVars, ends, result, got>>

-----------------------------------------------------------------------------
(***************************************************************************)
(* The connection pool.                                                    *)
(***************************************************************************)
\* connection_pool_put(.., connection_ok): a full kfifo drops it.
PutOk(d, c) ==
  fifo' = IF c # None /\ Len(fifo[d]) < MAX_CONNECTIONS
            THEN [fifo EXCEPT ![d] = Append(@, c)]
            ELSE fifo

\* connection_pool_get gave request r, whose state holds h, connection c.
TakesIdle(d, h, c)  == h = None /\ fifo[d] # <<>> /\ c = Head(fifo[d])
TakesNew(d, h, c)   ==
  h = None /\ fifo[d] = <<>> /\ count[d] < MAX_CONNECTIONS /\ sock[c] = "none"
Takes(d, h, c)      == h = c \/ TakesIdle(d, h, c) \/ TakesNew(d, h, c)

FifoAfter(d, h)     == IF h = None /\ fifo[d] # <<>> THEN [fifo EXCEPT ![d] = Tail(@)] ELSE fifo
CountAfter(d, h, c) == IF TakesNew(d, h, c) THEN [count EXCEPT ![d] = (@ + 1) % UIntModulus] ELSE count
SockAfter(d, h, c)  == IF TakesNew(d, h, c) THEN [sock EXCEPT ![c] = "open"] ELSE sock

DropSigned(d, c, counts, socks) ==
  /\ count' = [counts EXCEPT ![d] = @ - 1]
  /\ sock' = [socks EXCEPT ![c] = "none"]
  /\ wire' = [wire EXCEPT ![c] = <<>>]

\* connection_pool_put(.., connection_failed): torn down, and not counted
\* any more, whether it was counted or not.
Drop(d, c, counts, socks) ==
  /\ count' = [counts EXCEPT ![d] = (@ + UIntModulus - 1) % UIntModulus]
  /\ sock' = [socks EXCEPT ![c] = "none"]
  /\ wire' = [wire EXCEPT ![c] = <<>>]

-----------------------------------------------------------------------------
(***************************************************************************)
(* Clean-up.  Both routines test `if (clean_done)', an enum constant: the  *)
(* branches meant for timeout, deletion and catastrophe are never taken,   *)
(* so the reason does not matter.  r is the request, x the state of its    *)
(* task when the routine runs.                                             *)
(***************************************************************************)
Mine == Current.state[2]

\* __clean_send_az_req: the state is freed, or made blank for the task that
\* was queued with it.
CleanSend(r, x) ==
  /\ reqst' = [reqst EXCEPT ![r] = BlankSend]
  /\ IF x.try_new_request THEN PutOk(Current.d, x.c) ELSE UNCHANGED fifo
  /\ UNCHANGED <<resst, bio, ends, result>>

CleanRecvKeepingConnection(r, x) ==
  /\ resst' = [resst EXCEPT ![r] = BlankRecv]
  /\ reqst' = [reqst EXCEPT ![r] = BlankSend]
  /\ UNCHANGED fifo
  /\ IF x.try_new_request THEN UNCHANGED <<bio, ends, result>>
                          ELSE io_end_request(r, "OK")

CleanRecvAlwaysEnding(r, x) ==
  /\ resst' = [resst EXCEPT ![r] = BlankRecv]
  /\ reqst' = [reqst EXCEPT ![r] = BlankSend]
  /\ PutOk(Current.d, x.c)
  /\ io_end_request(r, "OK")

\* __clean_receive_az_response: the connection goes back as a good one, and
\* a request that was not queued again is ended without an error.
CleanRecv(r, x) ==
  /\ resst' = [resst EXCEPT ![r] = BlankRecv]
  /\ reqst' = [reqst EXCEPT ![r] = BlankSend]
  /\ PutOk(Current.d, x.c)
  /\ IF x.try_new_request THEN UNCHANGED <<bio, ends, result>>
                          ELSE io_end_request(r, "OK")

Clean ==
  /\ \/ Current.fn = "send" /\ CleanSend(Mine, reqst[Mine])
     \/ Current.fn = "recv" /\ CleanRecv(Mine, resst[Mine])
  /\ UNCHANGED <<count, sock, wire, got>>

-----------------------------------------------------------------------------
(***************************************************************************)
(* __send_az_req.  A call falls through the stages that are left, so it    *)
(* ends at the first that fails.  mem: queue_w_task() found memory.        *)
(***************************************************************************)
Sending    == wpc = "exec" /\ Current.fn = "send"
SendFresh  == Sending /\ ~reqst[Mine].try_new_request
SendsBytes == SendFresh /\ ~(reqst[Mine].header_sent /\ reqst[Mine].body_sent)

\* make_header fails after the buffer was allocated: nothing makes it again.
HeaderAfter(h) == IF h = "none" THEN "made" ELSE h

\* An allocation before the connection fails.
SendNoMemory ==
  /\ SendsBytes
  /\ \E h \in {"none", "made", "empty"} :
       /\ reqst[Mine].header # "none" => h = reqst[Mine].header
       /\ reqst' = [reqst EXCEPT ![Mine].header = h]
  /\ ExecRetry("retry_now")
  /\ UNCHANGED <<resst, poolVars, reqVars>>

\* connection_pool_get fails: the pool is at its maximum, or memory is short.
SendNoConnection(mem) ==
  /\ SendsBytes
  /\ reqst[Mine].c = None
  /\ fifo[Current.d] = <<>>
  /\ mem => count[Current.d] >= MAX_CONNECTIONS
  /\ reqst' = [reqst EXCEPT ![Mine].header = HeaderAfter(reqst[Mine].header)]
  /\ ExecRetry("retry_later")
  /\ UNCHANGED <<resst, poolVars, reqVars>>

\* connection_create: connect() fails, the loop breaks all the same, and the
\* caller's pointer is set to a socket that is not connected and not counted.
SendConnectFails(c) ==
  /\ SendsBytes
  /\ TakesNew(Current.d, reqst[Mine].c, c)
  /\ sock' = [sock EXCEPT ![c] = "unconnected"]
  /\ reqst' = [reqst EXCEPT ![Mine].header = HeaderAfter(reqst[Mine].header), ![Mine].c = c]
  /\ ExecRetry("retry_later")
  /\ UNCHANGED <<resst, fifo, count, wire, reqVars>>

\* The connection is there; a later allocation fails, or the socket's buffer
\* is full, before the header or between it and the body.
SendBlocked(c, res) ==
  LET x == reqst[Mine] IN
  /\ SendsBytes
  /\ Takes(Current.d, x.c, c)
  /\ res = "retry_later" => SockAfter(Current.d, x.c, c)[c] = "open"
  /\ \E hs \in {x.header_sent, Mine \in Writes} :
       /\ hs \/ ~x.header_sent
       /\ hs => SockAfter(Current.d, x.c, c)[c] # "unconnected" \/ HeaderAfter(x.header) = "empty"
       /\ reqst' = [reqst EXCEPT ![Mine] =
            [x EXCEPT !.c = c, !.header = HeaderAfter(x.header), !.header_sent = hs]]
  /\ fifo' = FifoAfter(Current.d, x.c)
  /\ count' = CountAfter(Current.d, x.c, c)
  /\ sock' = SockAfter(Current.d, x.c, c)
  /\ ExecRetry(res)
  /\ UNCHANGED <<resst, wire, reqVars>>

\* Queue the receive task, or keep the state for another call.
QueueReceive(r, x, mem) ==
  IF mem
    THEN /\ ExecDone(<<ChildTask("recv", ResObject(r), "no_throttle")>>)
         /\ resst' = [resst EXCEPT ![r] = [BlankRecv EXCEPT !.c = x.c]]
         /\ reqst' = [reqst EXCEPT ![r] = BlankSend]
    ELSE /\ ExecRetry("retry_now")
         /\ reqst' = [reqst EXCEPT ![r] = x]
         /\ UNCHANGED resst

QueueSendAgainOrDrop(r, x, mem) ==
  /\ ExecDone(IF mem THEN <<ChildTask("send", ReqObject(r), "normal")>> ELSE <<>>)
  /\ reqst' = [reqst EXCEPT ![r] = BlankSend]

\* Queue the send task again from the top.
QueueSendAgain(r, x, mem) ==
  IF mem
    THEN /\ ExecDone(<<ChildTask("send", ReqObject(r), "normal")>>)
         /\ reqst' = [reqst EXCEPT ![r] = BlankSend]
    ELSE /\ ExecRetry("retry_now")
         /\ reqst' = [reqst EXCEPT ![r] = [x EXCEPT !.try_new_request = TRUE]]

\* sock_sendmsg fails.
SendFails(c, mem) ==
  LET x == reqst[Mine] IN
  /\ SendsBytes
  /\ Takes(Current.d, x.c, c)
  /\ SockAfter(Current.d, x.c, c)[c] \in {"closed", "unconnected"}
  /\ HeaderAfter(x.header) = "empty" => Mine \in Writes
  /\ Drop(Current.d, c, CountAfter(Current.d, x.c, c), SockAfter(Current.d, x.c, c))
  /\ fifo' = FifoAfter(Current.d, x.c)
  /\ QueueSendAgain(Mine, [x EXCEPT !.c = None, !.header = HeaderAfter(x.header)], mem)
  /\ UNCHANGED <<resst, reqVars>>

\* The whole message is handed to the socket.  A read with an empty header
\* has nothing to hand over, a write with one sends only its body.
SendAll(c, mem) ==
  LET x == [reqst[Mine] EXCEPT !.c = c, !.header = HeaderAfter(reqst[Mine].header),
                               !.header_sent = TRUE, !.body_sent = TRUE]
      h == reqst[Mine].c
      nothing == x.header = "empty" /\ Mine \notin Writes
  IN
  /\ SendsBytes
  /\ Takes(Current.d, h, c)
  /\ nothing \/ SockAfter(Current.d, h, c)[c] \in {"open", "closed"}
  /\ wire' = IF nothing THEN wire
             ELSE [wire EXCEPT ![c] = Append(@,
                    [req |-> Mine, whole |-> x.header = "made", code |-> "none"])]
  /\ fifo' = FifoAfter(Current.d, h)
  /\ count' = CountAfter(Current.d, h, c)
  /\ sock' = SockAfter(Current.d, h, c)
  /\ QueueReceive(Mine, x, mem)
  /\ UNCHANGED reqVars

\* A call that finds everything sent only queues the receive task.
SendMessageSent(mem) ==
  /\ SendFresh
  /\ ~SendsBytes
  /\ QueueReceive(Mine, reqst[Mine], mem)
  /\ UNCHANGED <<poolVars, reqVars>>

\* A call that could not queue the new attempt the last time.
SendTryNew(mem) ==
  /\ Sending
  /\ reqst[Mine].try_new_request
  /\ QueueSendAgain(Mine, reqst[Mine], mem)
  /\ UNCHANGED <<resst, poolVars, reqVars>>

-----------------------------------------------------------------------------
(***************************************************************************)
(* __receive_az_response.                                                  *)
(***************************************************************************)
Receiving == wpc = "exec" /\ Current.fn = "recv"
RecvFresh == Receiving /\ ~resst[Mine].try_new_request

Answered(c) == wire[c] # <<>> /\ Head(wire[c]).code # "none"

\* An allocation fails.
RecvNoMemory ==
  /\ RecvFresh
  /\ ExecRetry("retry_later")
  /\ UNCHANGED azVars

\* Nothing complete has arrived.
RecvWait ==
  /\ RecvFresh
  /\ sock[resst[Mine].c] = "open"
  /\ ~Answered(resst[Mine].c)
  /\ ExecRetry("retry_later")
  /\ UNCHANGED azVars

RecvQueueSendTwice(x, mem) ==
  LET kid == ChildTask("send", ReqObject(Mine), "normal") IN
  IF mem
    THEN ExecDone(<<kid, kid>>) /\ CleanRecv(Mine, x)
    ELSE /\ ExecRetry("retry_now")
         /\ resst' = [resst EXCEPT ![Mine] = x]
         /\ UNCHANGED <<reqst, fifo, bio, ends, result>>

RecvQueueFreshSend(x, mem) ==
  IF mem
    THEN /\ ExecDone(<<NewTask("send", ReqObject(Mine), Current.d, "normal")>>)
         /\ CleanRecv(Mine, x)
    ELSE /\ ExecRetry("retry_now")
         /\ resst' = [resst EXCEPT ![Mine] = x]
         /\ UNCHANGED <<reqst, fifo, bio, ends, result>>

\* Queue a new send task with a fresh __reqstate, then clean up; without
\* memory, remember that this is still to be done.
RecvQueueSend(x, mem) ==
  LET kids == <<ChildTask("send", ReqObject(Mine), "normal")>> IN
  IF mem
    THEN ExecDone(kids) /\ CleanRecv(Mine, x)
    ELSE /\ ExecRetry("retry_now")
         /\ resst' = [resst EXCEPT ![Mine] = x]
         /\ UNCHANGED <<reqst, fifo, bio, ends, result>>

RecvClosedNotCleared(mem) ==
  LET c == resst[Mine].c IN
  /\ RecvFresh
  /\ sock[c] \in {"closed", "unconnected"}
  /\ Drop(Current.d, c, count, sock)
  /\ RecvQueueSend([c |-> c, try_new_request |-> TRUE], mem)
  /\ UNCHANGED got

\* sock_recvmsg fails or the server closed: the connection is dropped.
RecvClosed(mem) ==
  LET c == resst[Mine].c IN
  /\ RecvFresh
  /\ sock[c] \in {"closed", "unconnected"}
  /\ Drop(Current.d, c, count, sock)
  /\ RecvQueueSend([c |-> None, try_new_request |-> TRUE], mem)
  /\ UNCHANGED got

ReadsAnswerLeavingIt(code) ==
  LET c == resst[Mine].c IN
  /\ RecvFresh
  /\ Answered(c)
  /\ Head(wire[c]).code = code
  /\ wire' = wire

\* The response is read off the connection; its status decides.
ReadsAnswer(code) ==
  LET c == resst[Mine].c IN
  /\ RecvFresh
  /\ Answered(c)
  /\ Head(wire[c]).code = code
  /\ wire' = [wire EXCEPT ![c] = Tail(@)]

\* 201, 206: the data is copied and the request ended.
RecvDone ==
  /\ ReadsAnswer("ok")
  /\ got' = [got EXCEPT ![Mine] = Head(wire[resst[Mine].c]).req]
  /\ ExecDone(<<>>)
  /\ CleanRecv(Mine, resst[Mine])
  /\ UNCHANGED <<count, sock>>

\* 429, 500, 503: the dysk is throttled and the request sent again.
RecvThrottled ==
  /\ ReadsAnswer("throttle")
  /\ ExecThrottle(<<ChildTask("send", ReqObject(Mine), "normal")>>)
  /\ CleanRecv(Mine, [resst[Mine] EXCEPT !.try_new_request = TRUE])
  /\ UNCHANGED <<count, sock, got>>

\* The same without memory for the new task: only retry_now is returned, and
\* the next call will say done.
RecvThrottledNoMemory ==
  /\ ReadsAnswer("throttle")
  /\ RecvQueueSend([resst[Mine] EXCEPT !.try_new_request = TRUE], FALSE)
  /\ UNCHANGED <<count, sock, got>>

\* 403, 404, 412, 416 and every status nobody expects.
RecvCatastrophe ==
  /\ ReadsAnswer("fatal")
  /\ ExecCatastrophe
  /\ UNCHANGED <<reqst, resst, fifo, count, sock, reqVars>>

\* A call that could not queue the new send task the last time.
RecvTryNew(mem) ==
  /\ Receiving
  /\ resst[Mine].try_new_request
  /\ RecvQueueSend(resst[Mine], mem)
  /\ UNCHANGED <<count, sock, wire, got>>

-----------------------------------------------------------------------------
(***************************************************************************)
(* The worker's own steps, with the clean-up of what leaves the list.      *)
(***************************************************************************)
CancelTask   == Cancel /\ Clean
ExpireTask   == Expire /\ Clean
FailTask     == CatastropheReturn /\ Clean
WorkerMoves  == (BeginPass \/ Yield \/ SkipThrottled \/ StartExec \/ Stay) /\ UNCHANGED azVars

(***************************************************************************)
(* External: the server answers in order, and the connection may break.    *)
(***************************************************************************)
Unanswered(c) == {i \in 1..Len(wire[c]) : wire[c][i].code = "none"}

ServerAnswers(c, code) ==
  /\ sock[c] = "open"
  /\ Unanswered(c) # {}
  /\ LET i == CHOOSE k \in Unanswered(c) : \A j \in Unanswered(c) : k <= j IN
       /\ wire[c][i].whole \/ code = "fatal"
       /\ wire' = [wire EXCEPT ![c][i].code = code]
  /\ UNCHANGED <<workerVars, reqst, resst, fifo, count, sock, reqVars>>

ConnectionBreaks(c) ==
  /\ sock[c] = "open"
  /\ sock' = [sock EXCEPT ![c] = "closed"]
  /\ UNCHANGED <<workerVars, reqst, resst, fifo, count, wire, reqVars>>

-----------------------------------------------------------------------------
AzInit ==
  /\ Init
  /\ reqst = [r \in Reqs |-> BlankSend]
  /\ resst = [r \in Reqs |-> BlankRecv]
  /\ fifo = [d \in Dysks |-> <<>>]
  /\ count = [d \in Dysks |-> 0]
  /\ sock = [c \in Conns |-> "none"]
  /\ wire = [c \in Conns |-> <<>>]
  /\ bio = [r \in Reqs |-> "new"]
  /\ ends = [r \in Reqs |-> 0]
  /\ result = [r \in Reqs |-> "none"]
  /\ got = [r \in Reqs |-> None]

\* What the worker does when memory is there and the network lets it.
AzWorker ==
  \/ WorkerMoves \/ CancelTask \/ ExpireTask \/ FailTask
  \/ SendNoConnection(TRUE)
  \/ \E c \in Conns : SendFails(c, TRUE) \/ SendAll(c, TRUE)
  \/ SendMessageSent(TRUE) \/ SendTryNew(TRUE)
  \/ RecvWait \/ RecvClosed(TRUE) \/ RecvDone \/ RecvThrottled \/ RecvCatastrophe
  \/ RecvTryNew(TRUE)

\* What it does when they do not.
AzFaults ==
  \/ SendNoMemory \/ SendNoConnection(FALSE)
  \/ \E c \in Conns :
       \/ SendConnectFails(c)
       \/ SendBlocked(c, "retry_now") \/ SendBlocked(c, "retry_later")
       \/ SendFails(c, FALSE) \/ SendAll(c, FALSE)
  \/ SendMessageSent(FALSE) \/ SendTryNew(FALSE)
  \/ RecvNoMemory \/ RecvClosed(FALSE) \/ RecvThrottledNoMemory \/ RecvTryNew(FALSE)

BlockLayer ==
  \E r \in Reqs : IoRequest(r) \/ IoRequestReject(r) \/ az_do_request(r) \/ IoRequestStart(r)

Server == \E c \in Conns, code \in {"ok", "throttle", "fatal"} : ServerAnswers(c, code)

Network == \E c \in Conns : ConnectionBreaks(c)

Deleter == \E d \in Dysks : MarkDeleting(d) /\ UNCHANGED azVars

Clock == Tick /\ UNCHANGED azVars

AzNext == AzWorker \/ AzFaults \/ BlockLayer \/ Server \/ Network \/ Deleter \/ Clock

AzSpec == AzInit /\ [][AzNext]_vars

-----------------------------------------------------------------------------
(***************************************************************************)
(* Properties                                                              *)
(***************************************************************************)
CarriedBy(r) == {i \in 1..Len(queue) : queue[i].state[2] = r}

\* A request has at most one task, whatever was retried: no request is sent
\* twice at once, and no state object belongs to two tasks (queue_w_task in
\* az_do_request, __send_az_req and __receive_az_response).
OneTaskPerRequest == \A r \in Reqs : Cardinality(CarriedBy(r)) <= 1

\* The block layer is told once: a request that is carried on by a new task
\* is not ended by the clean-up of the old one, and one that was ended or
\* rejected has no task left (az.c 544-586).
EndedOnce ==
  /\ \A r \in Reqs : ends[r] = IF bio[r] = "ended" THEN 1 ELSE 0
  /\ \A r \in Reqs : bio[r] \in {"new", "peeked", "rejecting", "ended"} => CarriedBy(r) = {}

\* The worker never ends a request the block layer was not yet told is
\* started: its task is on the list before blk_start_request (io_request
\* 838-839), and only the queue's lock keeps its completion behind it.
EndedAfterStart ==
  [][\A r \in Reqs : (CarriedBy(r) # {} /\ bio'[r] = "ended") => bio[r] = "started"]_vars

PooledAt(c) ==
  {p \in Dysks \X (1..MAX_CONNECTIONS) : p[2] <= Len(fifo[p[1]]) /\ fifo[p[1]][p[2]] = c}

HeldBy(c) ==
  {i \in 1..Len(queue) :
     \/ queue[i].fn = "send" /\ reqst[queue[i].state[2]].c = c
     \/ queue[i].fn = "recv" /\ resst[queue[i].state[2]].c = c}

\* A connection has one user: it is once in one pool, or held by the state of
\* one task (connection_pool_get and connection_pool_put on every path,
\* clean-ups and failures included).
OneUserPerConnection ==
  \A c \in Conns :
    /\ Cardinality(PooledAt(c)) + Cardinality(HeldBy(c)) <= 1
    /\ sock[c] = "none" => PooledAt(c) \cup HeldBy(c) = {}

\* Some request of the dysk was ended without an error and without a
\* response: it timed out, or its dysk was marked, and the connection its
\* response was to come on went back to the pool.
OwedOn(d) == \E q \in Reqs : DyskOf[q] = d /\ result[q] = "OK" /\ got[q] = None

\* A request is completed with another one's response only after the clean-up
\* of a receive task gave a connection that still owed one back to the pool
\* of this dysk.  Every other path gives back a connection that owes nothing,
\* or tears it down (az.c 544-586).
AnswersMatch ==
  \A r \in Reqs : got[r] \in {None, r} \/ OwedOn(DyskOf[r])

\* A task leaves the list with its request neither ended nor carried on only
\* when the dysk is marked or the deadline has passed: retries, throttling,
\* short memory and broken connections lose no request.
OnlyDeadOrLateDropped ==
  [][\A r \in Reqs :
       (CarriedBy(r) # {} /\ CarriedBy(r)' = {} /\ bio'[r] # "ended")
         => \E i \in CarriedBy(r) :
              status[queue[i].d] # "OK" \/ time_after(jiffies, queue[i].expires_on)]_vars

\* The transfer library takes only steps the worker allows (module Worker).
ImplementsWorker == Spec

(***************************************************************************)
(* What the documentation says and the code does not do.                   *)
(***************************************************************************)
\* dysk_bdd.c:862 "All our requests are atomic (all or none)": a request
\* ended without an error had its own response.
AllOrNone == \A r \in Reqs : result[r] = "OK" => got[r] = r

\* docs/design.md:31 "Any new requests will be canceled": a request that
\* comes after its dysk was marked is ended.
NewIsEnded ==
  \A r \in Reqs : (bio[r] = "new" /\ status[DyskOf[r]] # "OK") ~> (bio[r] = "ended")
=============================================================================
