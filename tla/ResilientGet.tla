---------------------------- MODULE ResilientGet ----------------------------
(***************************************************************************)
(* doneproof/http.py: resilient_get asks a provider up to Attempts times.  *)
(* An adapter makes one such call after another; the pause between two     *)
(* attempts is the gap between two steps.                                  *)
(***************************************************************************)
EXTENDS Naturals

CONSTANTS
  Attempts,   \* attempts
  MaxFaults   \* bound on the transient faults of a behaviour

ASSUME AttemptsAssumption == Attempts \in Nat \ {0} /\ MaxFaults \in Nat

VARIABLES
  attempt,   \* the attempt of the call in progress
  faults,    \* history: the transient faults so far
  hard       \* history: there was a fault that no retry helps against

\* What one client.get comes to: a response, or an exception.
\* missing: 404; denied: another 4xx; busy: 429, 500, 502, 503, 504;
\* unreachable: ConnectError, ReadTimeout; broken: any other exception.
Transient == {"busy", "unreachable"}
Raised == {"unreachable", "broken"}
Answers == {"ok", "missing", "denied", "broken"} \cup Transient

\* Mutants of Returns: whatever is a response is returned; one attempt more.
Returns_FirstResponse(answer) == answer # "unreachable" \/ attempt = Attempts

Returns_OneMore(answer) == answer \notin Transient \/ attempt > Attempts

\* The call ends with this answer: nothing to retry, or no attempt is left.
Returns(answer) == answer \notin Transient \/ attempt = Attempts

calls == <<attempt, faults, hard>>

\* One attempt; the next call begins with its first.
Attempt(answer) ==
  /\ answer \in Transient => faults < MaxFaults
  /\ faults' = IF answer \in Transient THEN faults + 1 ELSE faults
  /\ hard' = (hard \/ answer \in {"denied", "broken"})
  /\ attempt' = IF Returns(answer) THEN 1 ELSE attempt + 1
=============================================================================
