------------------------------- MODULE MCDesk -------------------------------
(***************************************************************************)
(* Instance of Desk: requests are interchangeable.                         *)
(***************************************************************************)
EXTENDS Desk, TLC

Symmetry == Permutations(Worker)
=============================================================================
