------------------------------ MODULE MCSyncRun ------------------------------
(***************************************************************************)
(* Model checking of SyncRun: a product p, a customer c, the runs a and b. *)
(* Runs are interchangeable, and the properties checked under the symmetry *)
(* are invariants.                                                         *)
(***************************************************************************)
EXTENDS SyncRun, TLC

CONSTANTS p, c, a, b

Sym == Permutations(Runs)
=============================================================================
