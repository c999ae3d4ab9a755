------------------------ MODULE MCBatchVerification ------------------------
(***************************************************************************)
(* Instances of BatchVerification for TLC.  Batches are interchangeable.   *)
(***************************************************************************)
EXTENDS BatchVerification, TLC

CONSTANTS i1, i2, x1, x2

\* Two contents under one id, and another id.
MCContracts ==
  {[id |-> i1, text |-> x1], [id |-> i1, text |-> x2], [id |-> i2, text |-> x1]}
BatchSymmetry == Permutations(Batches)
=============================================================================
