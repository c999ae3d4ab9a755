------------------------------ MODULE Verdicts ------------------------------
(***************************************************************************)
(* The decision rules of doneproof/engine.py, as operators over the        *)
(* results of one verification: the transition rule that relates a result  *)
(* to the baseline captured at registration, and the verdict over the      *)
(* required conditions.  Everything here is pure; the modules that have    *)
(* state use these operators.                                              *)
(***************************************************************************)
EXTENDS Integers, FiniteSets

\* domain.py: the status of one condition, the verdict of one receipt and
\* the assurance level stamped on it.
Statuses == {"PASS", "FAIL", "UNKNOWN"}
VerdictValues == {"VERIFIED", "PARTIAL", "FAILED", "UNKNOWN"}
Levels == {"registered", "submitted"}

\* The status of a baseline that was never captured (baseline_map.get is None).
NoBaseline == "MISSING"

\* Mutant of Transition: the baseline is captured but not compared.
Transition_NotCompared(level, change, baseline, status) ==
  IF change /\ (level # "registered" \/ baseline \in {NoBaseline, "UNKNOWN"})
    THEN "UNKNOWN" ELSE status

(***************************************************************************)
(* The rule VerificationEngine.verify applies to each gathered result.  A  *)
(* condition that asks for no change keeps its observed status.  One that  *)
(* does is credited only by a known unsatisfied baseline of a registered   *)
(* run; a condition satisfied both times FAILs.                            *)
(***************************************************************************)
Transition(level, change, baseline, status) ==
  IF ~change
    THEN status
  ELSE IF level # "registered" \/ baseline \in {NoBaseline, "UNKNOWN"}
    THEN "UNKNOWN"
  ELSE IF status = "PASS" /\ baseline = "PASS"
    THEN "FAIL"
  ELSE status

\* The conditions of S that have the status s.
Having(status, S, s) == {c \in S : status[c] = s}

\* Mutant of VerdictOf: nothing failed, so it is verified.
VerdictOf_NoFailure(status, required) ==
  IF Having(status, required, "FAIL") = {} THEN "VERIFIED"
  ELSE IF Having(status, required, "PASS") = {} THEN "FAILED" ELSE "PARTIAL"

(***************************************************************************)
(* VerificationEngine._verdict, branch by branch: only required conditions *)
(* count, and the order of the branches decides.                           *)
(***************************************************************************)
VerdictOf(status, required) ==
  LET passes == Having(status, required, "PASS")
      fails  == Having(status, required, "FAIL")
  IN  IF required # {} /\ passes = required
        THEN "VERIFIED"
      ELSE IF Having(status, required, "UNKNOWN") # {}
        THEN "UNKNOWN"
      ELSE IF fails # {} /\ passes = {}
        THEN "FAILED"
      ELSE IF fails # {} /\ passes # {}
        THEN "PARTIAL"
      ELSE "UNKNOWN"
=============================================================================
