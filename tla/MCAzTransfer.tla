---------------------------- MODULE MCAzTransfer ----------------------------
(***************************************************************************)
(* TLC instances of AzTransfer: requests of one dysk, one of which may     *)
(* write, and two sockets.                                                 *)
(***************************************************************************)
EXTENDS AzTransfer, TLC

CONSTANT d1

\* Every request belongs to the one dysk of the instance.
OneDysk == [r \in Reqs |-> d1]

Symmetric == Permutations(Conns)
=============================================================================
