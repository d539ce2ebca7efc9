---------------------------- MODULE BlockDevice -----------------------------
(***************************************************************************)
(* What the block layer is promised by the functions it calls and that     *)
(* call it back (io_request and io_end_request, module/dysk_bdd.c): a      *)
(* request it hands over is ended once, with its own data; a write to a    *)
(* read-only dysk is refused and reaches nothing.  Tasks, connections,     *)
(* retries and throttling are not seen from here.  MCAzTransferLive shows  *)
(* that the transfer library keeps the promise in a network whose faults   *)
(* end before the deadlines.                                               *)
(***************************************************************************)
CONSTANTS
  Reqs,     \* requests of the block layer
  Refused,  \* the writes to read-only dysks
  None      \* no request

VARIABLES
  place,    \* where the request is
  error,    \* what it was ended with
  data      \* the request whose answer it was ended with

vars == <<place, error, data>>

Init ==
  /\ place = [r \in Reqs |-> "idle"]
  /\ error = [r \in Reqs |-> "none"]
  /\ data  = [r \in Reqs |-> None]

\* io_request() takes the request.
Submit(r) ==
  /\ place[r] = "idle"
  /\ r \notin Refused
  /\ place' = [place EXCEPT ![r] = "pending"]
  /\ UNCHANGED <<error, data>>

\* io_end_request() is called with its data there.
Complete(r) ==
  /\ place[r] = "pending"
  /\ place' = [place EXCEPT ![r] = "ended"]
  /\ error' = [error EXCEPT ![r] = "OK"]
  /\ data'  = [data EXCEPT ![r] = r]

\* io_request() refuses the write.
Refuse(r) ==
  /\ place[r] = "idle"
  /\ r \in Refused
  /\ place' = [place EXCEPT ![r] = "ended"]
  /\ error' = [error EXCEPT ![r] = "EROFS"]
  /\ UNCHANGED data

Next == \E r \in Reqs : Submit(r) \/ Complete(r) \/ Refuse(r)

\* Nothing that was handed over is left waiting.
Spec == Init /\ [][Next]_vars /\ \A r \in Reqs : WF_vars(Complete(r) \/ Refuse(r))
=============================================================================
