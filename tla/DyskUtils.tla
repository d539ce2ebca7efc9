----------------------------- MODULE DyskUtils ------------------------------
(***************************************************************************)
(* Strings of the module (module/dysk_utils.c), which cuts everything it   *)
(* reads with get_until(): the answers of the server (HttpResponse) and    *)
(* the requests of the client (IoctlCodec).                                *)
(*                                                                         *)
(* A buffer is a sequence of cells: a letter, a word or a number that is   *)
(* never cut counts as one.  Indexes start at 0, as in the code; a buffer  *)
(* is zero behind what was written to it.                                  *)
(***************************************************************************)
EXTENDS Integers, Sequences

At(buf, i) == IF i < Len(buf) THEN buf[i + 1] ELSE "nul"

\* Whether until stands at i.
StandsAt(buf, i, until) == \A k \in 1..Len(until) : At(buf, i + k - 1) = until[k]

get_until_at_max(buf, from, until, max) ==
  LET places == {i \in from..(from + max) : i < Len(buf) /\ StandsAt(buf, i, until)} IN
  IF places = {} THEN -1
  ELSE (CHOOSE i \in places : \A j \in places : i <= j) - from

\* get_until(buf + from, until, .., max): how many cells come before until
\* when all of it is among the next max, else -1.  A zero does not end it.
get_until(buf, from, until, max) ==
  LET places == {i \in from..(from + max - Len(until)) : i < Len(buf) /\ StandsAt(buf, i, until)} IN
  IF places = {} THEN -1
  ELSE (CHOOSE i \in places : \A j \in places : i <= j) - from

\* What it copied when it returned cut: nothing for -1 and 0.
Line(buf, from, cut) == IF cut <= 0 THEN <<>> ELSE SubSeq(buf, from + 1, from + cut)

\* strlen(buf).
StrLen(buf) ==
  LET zeros == {i \in 0..Len(buf) : At(buf, i) = "nul"} IN
  CHOOSE i \in zeros : \A j \in zeros : i <= j
=============================================================================
