--------------------------- MODULE GmailDiscovery ---------------------------
(***************************************************************************)
(* One condition on a mailbox: the engine's _verify_one, GmailAdapter      *)
(* (doneproof/adapters/gmail.py) which reads a message by its id or looks  *)
(* for the only one that fits, each read through resilient_get, and the    *)
(* predicate on what was found.  Mail arrives and is deleted meanwhile.    *)
(***************************************************************************)
EXTENDS ResilientGet, Predicates

CONSTANTS
  Messages,   \* message ids
  Mails,      \* the mail there may be
  Start,      \* the contract's task_started_at
  Earlier,    \* an earlier time a caller may write into the selector
  Tick,       \* ticks in a second
  PageSize,   \* maxResults
  Conditions, \* the predicates the properties look at
  MaxChanges, \* bound on arrivals and deletions during the observation
  Absent      \* left out, or no message

Locations == {"sent", "draft"}

\* A message; its time is in ticks.  fits: subject, to, thread_id and location
\* are the selector's.
Mail == [time : Nat, fits : BOOLEAN, location : Locations]

ASSUME MailAssumption ==
  /\ Mails \subseteq Mail /\ Start \in Nat /\ Earlier \in 0..Start
  /\ Tick \in Nat \ {0} /\ PageSize \in Nat \ {0} /\ MaxChanges \in Nat
  /\ Absent \notin Messages \cup Nat

\* A Predicate has one of these operators, and its path is split into strings.
ASSUME ConditionsAssumption ==
  \A p \in Conditions : p.op \in Operators /\ p.path \in Seq(STRING)

\* selector.message_id may be null, empty or an id; connected: there is a
\* token for the workspace, and the selector has the constraints it needs.
Selectors == [messageId : Messages \cup {Absent, ""}, createdAfter : {Absent, Earlier},
              connected : BOOLEAN]

VARIABLES
  mailbox,   \* the mail under each id, or Absent
  changes,   \* how many arrivals and deletions there were
  selector,  \* the condition's selector
  pc,        \* "idle", "byId", "list", "fetch" or "done"
  refs,      \* the listed ids that are not fetched yet
  candidates,\* the messages that fit
  outcome,   \* "pending", "unknown", "cut", "none", "several" or "found"
  seen,      \* history: the mail under each id, once there was some
  steady,    \* history: the ids that fitted all along
  whole,     \* history: the list had every message that may fit
  skipped    \* history: the listed ids whose fetch did not succeed

mail == <<mailbox, changes, seen>>
history == <<whole, skipped>>
vars == <<mailbox, changes, seen, selector, pc, refs, candidates, outcome,
          steady, whole, skipped, calls>>

Present == {m \in Messages : mailbox[m] # Absent}

-----------------------------------------------------------------------------
(* The engine and the search.                                              *)

\* VerificationEngine._is_discovery
IsDiscovery == selector.messageId = Absent

\* Mutant of Boundary: the engine leaves created_after to the caller.
Boundary_Callers ==
  IF selector.createdAfter # Absent THEN selector.createdAfter ELSE Start

\* The created_after that _discover uses: the contract's own, forced by the
\* engine in a discovery; an empty message_id is none to the engine, and is a
\* discovery to the adapter.
Boundary ==
  IF IsDiscovery \/ selector.createdAfter = Absent THEN Start ELSE selector.createdAfter

\* The query goes by whole seconds and by a phrase of the subject.
Matches(m) == m \in Present /\ mailbox[m].time >= (Boundary \div Tick) * Tick

\* The adapter searches: also under an empty message_id.
Searches == selector.messageId \notin Messages

\* Mutant of IsCandidate: what the query returns is taken.
IsCandidate_Listed(m) == mailbox[m].fits

\* The conditions of the loop over the fetched messages.
IsCandidate(m) == mailbox[m].time >= Boundary /\ mailbox[m].fits

\* What the observation is after.
Right(m) == m \in Present /\ IF Searches THEN IsCandidate(m) ELSE m = selector.messageId

-----------------------------------------------------------------------------
Init ==
  /\ mailbox \in [Messages -> {Absent} \cup Mails]
  /\ changes = 0
  /\ selector \in Selectors
  /\ pc = "idle"
  /\ refs = {} /\ candidates = {}
  /\ outcome = "pending"
  /\ seen = mailbox
  /\ steady = {} /\ whole = FALSE /\ skipped = {}
  /\ attempt = 1 /\ faults = 0 /\ hard = FALSE

\* Mail arrives, or the agent writes it; its time need not be the latest.
Arrive(m, new) ==
  /\ changes < MaxChanges
  /\ seen[m] = Absent
  /\ mailbox' = [mailbox EXCEPT ![m] = new]
  /\ seen' = [seen EXCEPT ![m] = new]
  /\ changes' = changes + 1
  /\ UNCHANGED <<selector, pc, refs, candidates, outcome, steady, history, calls>>

\* A message is deleted; a draft that is sent gets a new id.
Delete(m) ==
  /\ changes < MaxChanges
  /\ m \in Present
  /\ mailbox' = [mailbox EXCEPT ![m] = Absent]
  /\ changes' = changes + 1
  /\ steady' = steady \ {m}
  /\ UNCHANGED <<selector, pc, refs, candidates, outcome, seen, history, calls>>

\* observe: by id, by search, or nothing at all.
Begin ==
  /\ pc = "idle"
  /\ pc' = IF ~selector.connected THEN "done"
           ELSE IF Searches THEN "list" ELSE "byId"
  /\ outcome' = IF selector.connected THEN "pending" ELSE "unknown"
  /\ steady' = {m \in Messages : Right(m)}
  /\ UNCHANGED <<mail, selector, refs, candidates, history, calls>>

Finish(result) == pc' = "done" /\ outcome' = result

\* What the server says of one message.
Reply(m, answer) ==
  answer = (IF m \in Present THEN "ok" ELSE "missing") \/ answer \notin {"ok", "missing"}

Retry(answer) ==
  /\ ~Returns(answer)
  /\ UNCHANGED <<pc, refs, candidates, outcome, history>>

\* _fetch_message: only a 404 says that there is no such message.
FetchMessage(answer) ==
  /\ pc = "byId"
  /\ Reply(selector.messageId, answer)
  /\ Attempt(answer)
  /\ \/ Retry(answer)
     \/ /\ Returns(answer)
        /\ Finish(CASE answer = "ok" -> "found" [] answer = "missing" -> "none"
                    [] OTHER -> "unknown")
        /\ candidates' = IF answer = "ok" THEN {selector.messageId} ELSE {}
        /\ UNCHANGED <<refs, history>>
  /\ UNCHANGED <<mail, selector, steady>>

\* The list request of _discover: at most PageSize ids, and no second page.
ListMessages(answer) ==
  /\ pc = "list"
  /\ answer # "missing"
  /\ Attempt(answer)
  /\ \/ Retry(answer)
     \/ /\ Returns(answer) /\ answer # "ok"
        /\ Finish("unknown")
        /\ UNCHANGED <<refs, candidates, history>>
     \/ /\ answer = "ok"
        /\ \E ids \in SUBSET {m \in Messages : Matches(m)} :
             /\ \/ ids = {m \in Messages : Matches(m)} /\ Cardinality(ids) <= PageSize
                \/ Cardinality(ids) = PageSize
             /\ refs' = ids
             /\ whole' = (ids = {m \in Messages : Matches(m)})
             /\ IF ids = {} THEN Finish("none") ELSE pc' = "fetch" /\ UNCHANGED outcome
        /\ UNCHANGED <<candidates, skipped>>
  /\ UNCHANGED <<mail, selector, steady>>

\* Mutant of Count: the first one that fits is taken.
Count_First(found) == IF found = {} THEN "none" ELSE "found"

\* What the loop leaves: nothing, the only one, or too many.
Count(found) ==
  CASE found = {} -> "none" [] Cardinality(found) = 1 -> "found" [] OTHER -> "several"

\* The end of one detail request: an exception ends the observation, and any
\* status but 200 skips the message.
Detail(m, answer) ==
  LET found == candidates \cup {x \in {m} : answer = "ok" /\ IsCandidate(x)}
  IN  IF answer \in Raised
        THEN Finish("unknown") /\ UNCHANGED <<refs, candidates, skipped>>
        ELSE /\ candidates' = found
             /\ refs' = refs \ {m}
             /\ skipped' = skipped \cup {x \in {m} : answer # "ok"}
             /\ IF refs = {m} THEN Finish(Count(found)) ELSE UNCHANGED <<pc, outcome>>

\* One detail request of the loop in _discover.
FetchDetail(m, answer) ==
  /\ pc = "fetch" /\ m \in refs
  /\ Reply(m, answer)
  /\ Attempt(answer)
  /\ \/ Retry(answer)
     \/ Returns(answer) /\ Detail(m, answer) /\ UNCHANGED whole
  /\ UNCHANGED <<mail, selector, steady>>

\* The timeout of _verify_one cuts the requests, the retries and the pauses.
Cut ==
  /\ pc \in {"byId", "list", "fetch"}
  /\ Finish("cut")
  /\ UNCHANGED <<mail, selector, refs, candidates, steady, history, calls>>

Next ==
  \/ \E m \in Messages : Delete(m) \/ \E new \in Mails : Arrive(m, new)
  \/ Begin
  \/ \E answer \in Answers :
       \/ FetchMessage(answer)
       \/ ListMessages(answer)
       \/ \E m \in Messages : FetchDetail(m, answer)
  \/ Cut

Spec == Init /\ [][Next]_vars

-----------------------------------------------------------------------------
(* The result.                                                             *)

\* _normalize, as far as the predicates look.
State(m) == Map([message_id |-> Str("id"),
                 location |-> Str(seen[m].location),
                 subject |-> IF seen[m].fits THEN Str("invoice") ELSE None,
                 to |-> List(<<Str("alice")>>)])

Used == CHOOSE m \in candidates : TRUE

\* The end of _verify_one: an indeterminate observation is not evaluated.
StatusOf(p) ==
  CASE outcome \in {"unknown", "cut", "several"} -> "UNKNOWN"
    [] outcome = "none"  -> Evaluate(None, p)
    [] outcome = "found" -> Evaluate(State(Used), p)

-----------------------------------------------------------------------------
(* Properties.                                                             *)

\* The mailbox, the adapter and the calls are of their types.
TypeOK ==
  /\ mailbox \in [Messages -> {Absent} \cup Mails]
  /\ seen \in [Messages -> {Absent} \cup Mails]
  /\ changes \in 0..MaxChanges /\ faults \in 0..MaxFaults
  /\ selector \in Selectors
  /\ pc \in {"idle", "byId", "list", "fetch", "done"}
  /\ refs \cup candidates \cup steady \cup skipped \subseteq Messages
  /\ outcome \in {"pending", "unknown", "cut", "none", "several", "found"}
  /\ attempt \in 1..Attempts
  /\ whole \in BOOLEAN /\ hard \in BOOLEAN

\* What is taken was there and fits; what fitted all along is there still, and
\* of a whole list it is not lost.
MessagesOK ==
  /\ \A m \in Present : seen[m] = mailbox[m]
  /\ \A m \in candidates :
       /\ seen[m] # Absent
       /\ IF Searches THEN seen[m].time >= Boundary /\ seen[m].fits
                      ELSE m = selector.messageId
  /\ steady \subseteq {m \in Messages : Right(m)}
  /\ whole => steady \subseteq refs \cup candidates \cup skipped

\* What each point of the observation and each outcome leave behind.
OutcomeOK ==
  /\ (pc = "done") <=> (outcome # "pending")
  /\ pc = "idle" => steady = {}
  /\ pc \in {"idle", "byId", "list"} => refs = {} /\ candidates = {} /\ skipped = {} /\ ~whole
  /\ pc = "byId" => ~Searches
  /\ pc \in {"list", "fetch"} => Searches
  /\ outcome \in {"none", "several", "found"} => refs = {}
  /\ outcome = "found" => \E m \in Messages : candidates = {m}
  /\ outcome = "none" => candidates = {} /\ (~Searches => steady = {})

\* Each further attempt has cost a fault, and only faults no attempt was left
\* for leave the result open or lose a message.
CallsOK ==
  /\ attempt <= faults + 1
  /\ ~hard /\ faults < Attempts =>
       /\ outcome = "unknown" => ~selector.connected
       /\ skipped \cap steady = {}

\* Between any two steps, types, messages, outcome and calls agree.
Inv == TypeOK /\ MessagesOK /\ OutcomeOK /\ CallsOK

Done == pc = "done"

\* Nothing is asked for: an empty list, string or map.
Void(x) ==
  \/ Is("list", x) /\ ToSet(x.list) = {}
  \/ Is("str", x) /\ x.str = Words[1]
  \/ Is("map", x) /\ DOMAIN x.map = {}

\* What passes where there is no message: that it does not exist; and, under the
\* blank path, which stands for the whole state and so for null, that it is null,
\* that it differs from some value, and that it contains all of nothing.
PassesOnNothing(p) ==
  \/ p.op = "not_exists"
  \/ p.path = <<>> /\ \/ p.op = "eq" /\ p.expected = None
                      \/ p.op = "neq" /\ p.expected # None
                      \/ p.op = "contains_all" /\ Void(p.expected)

\* A condition passes on a message, on the named one or on one that fits and is
\* not older than the contract, whatever the selector says; and where no message
\* is found, exactly what PassesOnNothing lists passes without one.
PassIsGrounded ==
  Done => \A p \in Conditions :
    IF outcome = "none"
      THEN StatusOf(p) = "PASS" <=> PassesOnNothing(p)
      ELSE StatusOf(p) = "PASS" => \E m \in Messages :
             /\ seen[m] # Absent
             /\ Evaluate(State(m), p) = "PASS"
             /\ selector.messageId \in Messages => m = selector.messageId
             /\ IsDiscovery => seen[m].time >= Start /\ seen[m].fits

\* When the list was whole and no fetch was given up: an absence that passes
\* means that nothing fitted all along, and the message that is used is the only
\* one that did ("refusing to guess"), whatever arrived or was deleted meanwhile.
NothingMissed ==
  Done /\ (Searches => whole) /\ skipped \cap steady = {} =>
    /\ outcome = "found" => steady \subseteq {Used}
    /\ \A p \in Conditions :
         p.op = "not_exists" /\ p.path = <<"location">> /\ StatusOf(p) = "PASS" =>
           steady = {}

\* A request is given up, so that the observation ends "unknown" or a message is
\* skipped, only after a fault that no retry helps against, or after as many
\* transient faults as there are attempts.  This is about the number of faults
\* and not about the time they take: an observation the engine's timeout has cut
\* ends "cut", is UNKNOWN as well, and may have had one fault only, or none.
GivenUpHasCause ==
  Done =>
    /\ outcome = "unknown" => ~selector.connected \/ hard \/ faults >= Attempts
    /\ skipped \cap steady # {} => hard \/ faults >= Attempts

-----------------------------------------------------------------------------
(* What the documentation says, and the adapter does not do.               *)

\* docs/ARCHITECTURE.md: "When a provider is inaccessible or evidence is
\* ambiguous, the condition becomes `UNKNOWN` rather than being guessed."
InaccessibleIsUnknown ==
  Done /\ skipped \cap steady # {} => \A p \in Conditions : StatusOf(p) = "UNKNOWN"
=============================================================================
