--------------------------- MODULE MCAssuranceApi ---------------------------
(***************************************************************************)
(* Instances of AssuranceApi for TLC.  The requests are interchangeable.   *)
(***************************************************************************)
EXTENDS AssuranceGrounds, TLC

RequestSymmetry == Permutations(Requests)

\* The specification without fairness, for the safety runs.
SafetySpec == Init /\ [][Next]_vars
=============================================================================
