--------------------------- MODULE AssuranceGrounds ---------------------------
(***************************************************************************)
(* What the handlers of AssuranceApi rely on without checking it: that an  *)
(* id drawn at random is nobody else's, that an id cannot be named before  *)
(* what belongs to it is committed, and that an observation in memory was  *)
(* made after its request arrived.  With the invariant of                  *)
(* AssuranceProperties this is inductive, and from it follow the           *)
(* properties of the audit log and of the receipts.                        *)
(***************************************************************************)
EXTENDS AssuranceProperties

\* Where a handler has not stored, or found, its contract yet.
Early == {"idle", "lookup", "idempotency", "replay", "select", "insert"}

\* Every baseline of a registered run is committed.
Complete(id) == \A c \in RequireChange : baselines[<<Tenant(id), id>>][c] # Absent

\* The contract in hand has the id the body names, or the one drawn for it;
\* the two endpoints that create contracts always draw.
IdOK(r) ==
  /\ pc[r] # "idle" /\ ~Verifies(r) => input[r].body.id = Absent
  /\ pc[r] # "idle" /\ Endpoint(r) = "verifyRun" => input[r].body.id # Absent
  /\ pc[r] \notin {"idle", "lookup", "refused", "aborted"} =>
       contract[r].id = IF input[r].body.id = Absent THEN r ELSE input[r].body.id

IdHeld == \A r \in Requests : IdOK(r)

\* A row under a drawn id is of the request that drew it, or of one that was
\* shown the id, which the first had stored by then.
DrawnRows ==
  \A row \in contracts :
    row.contract.id \in Requests => pc[row.contract.id] \notin Early

\* A drawn id that a request names is stored by its own request, and if it is a
\* registered run all its baselines are.
NamedOK(r) ==
  pc[r] # "idle" /\ input[r].body.id \in Requests =>
    LET id == input[r].body.id IN
      /\ pc[id] \notin Early
      /\ IsRegistered(id) => Complete(id)

NamedHeld == \A r \in Requests : NamedOK(r)

\* So it is for the ids by which one can be named: those in the audit log, and
\* those in receipts.
ShownComplete ==
  /\ \A r \in Requests : /\ pc[r] \in {"audit", "reply", "answered"}
                         /\ Endpoint(r) = "register"
                         => Complete(r)
  /\ \A a \in audits : a.action # "verified" /\ IsRegistered(a.object) => Complete(a.object)
  /\ \A x \in receipts : IsRegistered(x.contract.id) => Complete(x.contract.id)

\* A baseline row is what its own registration observed.
BaselineRows ==
  \A t \in Tenants, id \in ContractIds, c \in Conditions :
    LET row == baselines[<<t, id>>][c] IN
      row # Absent => /\ IsRegistered(id)
                      /\ t = Tenant(id)
                      /\ row = observed[id][c]

\* o is the state condition c had at some moment since the given epoch.
Grounded(o, c, since) ==
  o.status # "UNKNOWN" => /\ since <= o.epoch
                          /\ o.epoch <= world[c]
                          /\ o.status = "PASS" <=> Satisfied(o.epoch)

\* What a request has observed was so after it arrived.
ObservedOK(r) ==
  /\ pc[r] \in Early \cup {"baselines"} => observed[r] = NothingObserved
  /\ \A c \in Conditions :
       /\ began[r][c] <= world[c]
       /\ observed[r][c] # Absent => Grounded(observed[r][c], c, began[r][c])

ObservedHeld == \A r \in Requests : ObservedOK(r)

\* The baselines a verification has read are those of its run, they are not
\* younger than its own observations, and a registered run has them all.
KnownOK(r) ==
  /\ pc[r] \in {"select", "insert"} => Endpoint(r) # "verifyRun"
  /\ pc[r] \in Early \cup {"baselines"} => known[r] = NothingObserved
  /\ \A c \in Conditions : known[r][c] # Absent =>
       /\ IsRun(Tenant(r), contract[r].id)
       /\ known[r][c] = observed[contract[r].id][c]
       /\ /\ known[r][c].status # "UNKNOWN"
          /\ observed[r][c] # Absent
          /\ observed[r][c].status # "UNKNOWN"
          => known[r][c].epoch <= observed[r][c].epoch
  /\ /\ pc[r] \in {"observe", "receipt"}
     /\ Endpoint(r) = "verifyRun"
     /\ IsRun(Tenant(r), contract[r].id)
     => \A c \in RequireChange : known[r][c] # Absent

KnownHeld == \A r \in Requests : KnownOK(r)

\* What is about to be answered, and what a key would replay, is audited; what
\* is about to be audited is stored.
AuditOK(r) ==
  /\ pc[r] \in {"remember", "reply", "answered"} => AuditRow(r) \in audits
  /\ pc[r] = "audit" /\ ~Verifies(r) => Stored(Tenant(r), contract[r].id) # {}

AuditHeld ==
  /\ \A r \in Requests : AuditOK(r)
  /\ \A row \in idempotency :
       [tenant |-> row.tenant, action |-> "verified", object |-> row.receipt] \in audits

\* Before a registration has observed everything, nothing is saved under its id.
Unsaved ==
  \A r \in Requests : pc[r] \in Early \cup {"baselines", "observe"} =>
    \A t \in Tenants, c \in Conditions : baselines[<<t, r>>][c] = Absent

\* What the gather, or the loop over the baselines, still has to do.
Left(r) ==
  CASE pc[r] = "observe" -> {c \in Targets(r) : observed[r][c] = Absent}
    [] pc[r] = "baseline" ->
         {c \in RequireChange : baselines[<<Tenant(r), contract[r].id>>][c] # observed[r][c]}
    [] OTHER -> {}

\* Neither is ever entered, or gone on with, when there is nothing to do.
NeverStuck == \A r \in Requests : pc[r] \in {"observe", "baseline"} => Left(r) # {}

\* Together inductive, with IInv: the ids, the audit log, the observations and
\* the baselines keep the relations the handlers assume.
GInv ==
  /\ IInv
  /\ IdHeld
  /\ DrawnRows
  /\ NamedHeld
  /\ ShownComplete
  /\ BaselineRows
  /\ ObservedHeld
  /\ KnownHeld
  /\ AuditHeld
  /\ AuditIsTruthful
  /\ Unsaved
  /\ NeverStuck

-----------------------------------------------------------------------------
(* How far a handler is: what EveryRequestEnds rests on beside fairness.   *)

\* The order in which a handler goes through its steps.
Place(label) ==
  CASE label = "idle" -> 0        [] label = "lookup" -> 1    [] label = "idempotency" -> 2
    [] label = "replay" -> 3      [] label = "select" -> 4    [] label = "insert" -> 5
    [] label = "baselines" -> 6   [] label = "observe" -> 7   [] label = "baseline" -> 8
    [] label = "receipt" -> 9     [] label = "audit" -> 10    [] label = "remember" -> 11
    [] label = "reply" -> 12      [] OTHER -> 13

\* A handler goes on to a later step, or has less to do at the one it is at.
Advances(r) ==
  \/ Place(pc[r]) < Place(pc'[r])
  \/ pc'[r] = pc[r] /\ Left(r)' \subseteq Left(r) /\ Left(r)' # Left(r)

\* No handler runs in circles, and nobody else sets it back: a request takes at
\* most a step for each label and one more for each observation and baseline.
RequestsAdvance ==
  [][\A r \in Requests : /\ Handle(r) => Advances(r)
                         /\ Advances(r) \/ (pc'[r] = pc[r] /\ Left(r)' = Left(r))]_vars
=============================================================================
