----------------------------- MODULE RateLimiter -----------------------------
(***************************************************************************)
(* The sliding-window limiter of doneproof/limits.py, as the middleware of *)
(* doneproof/app.py uses it: one deque of admission times for each key,    *)
(* pruned only when its key is checked.  check() holds a lock and is       *)
(* called from one event loop, so it is one step.  The model is one        *)
(* instance from its start to its end.                                     *)
(*                                                                         *)
(* Time is counted in ticks, TicksPerSecond of them to a second; the code  *)
(* measures the window in seconds and truncates the advice to whole ones.  *)
(***************************************************************************)
EXTENDS Integers, Sequences, FiniteSets, FiniteSetsExt

CONSTANTS
  Keys,            \* "development", "unauthorized" and the tenants
  Limit,           \* rate_limit_per_minute, as configured
  Window,          \* the 60 seconds
  TicksPerSecond,
  MaxTick          \* bound on the clock

ASSUME KeysAssumption == Keys # {}
ASSUME LimitAssumption == Limit \in Int
ASSUME WindowAssumption == Window \in Nat \ {0}
ASSUME TicksAssumption == TicksPerSecond \in Nat \ {0}
ASSUME BoundAssumption == MaxTick \in Nat

VARIABLES
  now,       \* time.monotonic()
  hits,      \* _hits: the deque of each key
  admitted,  \* history: the times at which each key was admitted
  answer     \* the last answer of this instant: [key, allowed, retry]

vars == <<now, hits, admitted, answer>>

\* self.requests_per_minute
RequestsPerMinute == IF Limit > 1 THEN Limit ELSE 1

Length == Window * TicksPerSecond

\* Before anybody is answered; the clock puts it back, so that a refusal that
\* repeats an earlier one is a step of its own.
NoAnswer == [key |-> CHOOSE k \in Keys : TRUE, allowed |-> TRUE, retry |-> 0]

Init ==
  /\ now = 0
  /\ hits = [k \in Keys |-> <<>>]
  /\ admitted = [k \in Keys |-> <<>>]
  /\ answer = NoAnswer

\* Mutant of Stale: < where the code has <=.
Stale_Late(q) == Cardinality({i \in DOMAIN q : \A j \in 1..i : q[j] < now - Length})

\* How many hits the loop pops: it stops at the first that is in the window.
Stale(q) == Cardinality({i \in DOMAIN q : \A j \in 1..i : q[j] <= now - Length})

Pruned(q) == SubSeq(q, Stale(q) + 1, Len(q))

\* Mutant of Retry: the whole window.
Retry_Whole(oldest) == Window

\* max(1, int(60 - (now - q[0])))
Retry(oldest) ==
  LET whole == (Length - (now - oldest)) \div TicksPerSecond
  IN  IF whole > 1 THEN whole ELSE 1

\* The deque is q from now on, and a request is admitted or refused.
Admit(k, q) ==
  /\ hits' = [hits EXCEPT ![k] = q]
  /\ admitted' = [admitted EXCEPT ![k] = Append(@, now)]
  /\ answer' = [key |-> k, allowed |-> TRUE, retry |-> 0]

Refuse(k, q) ==
  /\ hits' = [hits EXCEPT ![k] = q]
  /\ answer' = [key |-> k, allowed |-> FALSE, retry |-> Retry(q[1])]
  /\ UNCHANGED admitted

\* Mutants of Check: > where the code has >=; a refused request is counted.
Check_OneMore(k) ==
  LET q == Pruned(hits[k]) IN
  /\ IF Len(q) > RequestsPerMinute THEN Refuse(k, q) ELSE Admit(k, Append(q, now))
  /\ UNCHANGED now

Check_CountsRefused(k) ==
  LET q == Pruned(hits[k]) IN
  /\ IF Len(q) >= RequestsPerMinute THEN Refuse(k, Append(q, now)) ELSE Admit(k, Append(q, now))
  /\ UNCHANGED now

\* SlidingWindowLimiter.check
Check(k) ==
  LET q == Pruned(hits[k]) IN
  /\ IF Len(q) >= RequestsPerMinute THEN Refuse(k, q) ELSE Admit(k, Append(q, now))
  /\ UNCHANGED now

Tick ==
  /\ now < MaxTick
  /\ now' = now + 1
  /\ answer' = NoAnswer
  /\ UNCHANGED <<hits, admitted>>

Next == Tick \/ \E k \in Keys : Check(k)

Spec == Init /\ [][Next]_vars
-----------------------------------------------------------------------------
(* Properties.                                                             *)

\* The clock, the deques, the history and the last answer are of their types.
TypeOK ==
  /\ now \in 0..MaxTick
  /\ hits \in [Keys -> Seq(0..now)]
  /\ admitted \in [Keys -> Seq(0..now)]
  /\ answer \in [key : Keys, allowed : BOOLEAN, retry : 0..Window]

\* The admissions of a key in the window that ends at t.
InWindow(k, t) == {i \in DOMAIN admitted[k] : t - Length < admitted[k][i] /\ admitted[k][i] <= t}

\* However the requests are spaced, no window, wherever it begins, holds more
\* than the configured number of admissions of one key.
WindowBound ==
  \A k \in Keys, t \in 0..now : Cardinality(InWindow(k, t)) <= RequestsPerMinute

\* The deque is the history's window and no more: its hits are the last ones
\* admitted, in order, and what it has dropped has left the window.
DequeIsWindow ==
  \A k \in Keys :
    LET dropped == Len(admitted[k]) - Len(hits[k]) IN
      /\ dropped >= 0
      /\ hits[k] = SubSeq(admitted[k], dropped + 1, Len(admitted[k]))
      /\ \A i \in 1..dropped : admitted[k][i] <= now - Length
      /\ Len(hits[k]) <= RequestsPerMinute

\* Admissions are remembered in the order of the clock.
InOrder ==
  \A k \in Keys : \A i, j \in DOMAIN admitted[k] : i <= j => admitted[k][i] <= admitted[k][j]

\* The deque of each key is the end of its history, of its type and in order.
Inv == TypeOK /\ DequeIsWindow /\ InOrder

\* A request is refused only when its own key has used up the window; neither
\* another key's traffic nor an earlier refusal counts.
RefusedOnlyWhenFull ==
  [][answer' # answer /\ ~answer'.allowed =>
       Cardinality(InWindow(answer'.key, now)) = RequestsPerMinute]_vars

\* Retry-After is truncated to whole seconds, but never by a whole one: one
\* second after the advice the window has room, and the advice never asks for a
\* second more than is needed, save that it is at least one.
RetryAfterIsClose ==
  [][answer' # answer /\ ~answer'.allowed =>
       LET oldest == admitted[answer'.key][Min(InWindow(answer'.key, now))]
           free   == oldest + Length - now
       IN  /\ free < (answer'.retry + 1) * TicksPerSecond
           /\ answer'.retry * TicksPerSecond <= free \/ answer'.retry = 1]_vars
=============================================================================
