------------------------ MODULE AssuranceProperties ------------------------
(***************************************************************************)
(* What the assurance API promises, stated over the tables, the handlers   *)
(* and the answers of AssuranceApi.                                        *)
(***************************************************************************)
EXTENDS AssuranceApi

\* The rows of each table.
ContractRows == [tenant : Tenants, contract : Contracts]
IdempotencyRows == [tenant : Tenants, key : Keys, body : Bodies, receipt : Requests]
AuditRows == [tenant : Tenants, action : {"compiled", "registered", "verified"},
              object : ContractIds]
Inputs == [tenant : Tenants, key : Keys \cup {Absent}, body : Bodies]

\* Every table, every handler's memory and every provider is of its type.
TypeOK ==
  /\ contracts \subseteq ContractRows
  /\ baselines \in [Tenants \X ContractIds -> Observed]
  /\ receipts \subseteq Receipts
  /\ idempotency \subseteq IdempotencyRows
  /\ audits \subseteq AuditRows
  /\ pc \in [Requests -> Labels]
  /\ input \in [Requests -> Inputs \cup {Absent}]
  /\ contract \in [Requests -> Contracts \cup {Absent}]
  /\ observed \in [Requests -> Observed]
  /\ known \in [Requests -> Observed]
  /\ receipt \in [Requests -> Receipts \cup {Absent}]
  /\ world \in [Conditions -> 0..MaxEpoch]
  /\ began \in [Requests -> [Conditions -> 0..MaxEpoch]]

\* The requests of the two verification endpoints that have been answered.
Verifies(r) == pc[r] # "idle" /\ Endpoint(r) \in {"verify", "verifyRun"}
AnsweredVerify(r) == pc[r] = "answered" /\ Verifies(r)

\* The contract ids that POST /v1/runs has drawn, and the runs: an id means one
\* in the workspace it was drawn for only.
IsRegistered(id) ==
  id \in Requests /\ pc[id] # "idle" /\ Endpoint(id) = "register"

IsRun(t, id) == IsRegistered(id) /\ t = Tenant(id)

-----------------------------------------------------------------------------
(* Contracts and receipts                                                  *)

\* "Immutable contract identifier within a workspace": once an id is stored
\* for a tenant, no interleaving of save_contract calls replaces its row or
\* adds a second one.
ContractImmutable ==
  [][\A t \in Tenants, id \in ContractIds :
       Stored(t, id) # {} => Stored(t, id)' = Stored(t, id)]_vars

\* The contract a receipt is about (contract_hash) is, for ever, the one row
\* the database holds under that tenant and id.
ReceiptBindsContract ==
  \A x \in receipts :
    Stored(x.tenant, x.contract.id) = {[tenant |-> x.tenant, contract |-> x.contract]}

\* A request that leaves its contract id to the server is never turned away over
\* its contract, whatever the others do meanwhile, on no endpoint: no row is there
\* under the id it drew.  Only its key can refuse it, for its length or for what
\* it was used for, and only its key can fail it, when another request has
\* remembered one since; its receipt is stored then.
DrawnIdNeverConflicts ==
  \A r \in Requests : pc[r] # "idle" /\ input[r].body.id = Absent =>
    /\ pc[r] \in {"select", "insert"} => Stored(Tenant(r), contract[r].id) = {}
    /\ pc[r] = "refused" =>
         \/ Key(r) \in LongKeys
         \/ \E row \in Remembered(Tenant(r), Key(r)) : row.body # input[r].body
    /\ pc[r] = "failed" =>
         receipt[r] \in receipts /\ Remembered(Tenant(r), Key(r)) # {}

\* A receipt is stored, of the caller's tenant, and answers the question that
\* was asked: it was made for a request with the very same body.
AnswerIsOwn ==
  \A r \in Requests : AnsweredVerify(r) =>
    /\ receipt[r] \in receipts
    /\ receipt[r].tenant = Tenant(r)
    /\ input[receipt[r].id].body = input[r].body

-----------------------------------------------------------------------------
(* Idempotency                                                             *)

\* A remembered key leads to a stored receipt of the same tenant, made for
\* the request whose hash is remembered.
IdempotencyReferential ==
  \A row \in idempotency : \E x \in receipts :
    /\ x.id = row.receipt
    /\ x.tenant = row.tenant
    /\ input[x.id].body = row.body

\* All the answers one tenant gets under one Idempotency-Key are the same
\* receipt, however the requests race and whichever of them die.
SameKeySameAnswer ==
  \A r, q \in Requests :
    /\ AnsweredVerify(r) /\ AnsweredVerify(q)
    /\ Tenant(r) = Tenant(q) /\ Key(r) = Key(q) /\ Key(r) # Absent
    => receipt[r] = receipt[q]

\* A request that looks its key up after the key was remembered never goes
\* on to verify again: the fall-through after a missing receipt is dead.
RememberedIsReplayed ==
  [][\A r \in Requests :
       /\ pc[r] \in {"idempotency", "replay"}
       /\ Remembered(Tenant(r), Key(r)) # {}
       => pc'[r] \notin {"select", "baselines"}]_vars

\* The oracle's slots are the rows of the idempotency table; an answer is given
\* when a keyed verification is answered.
SlotPairs == {<<<<row.tenant, row.key>>, row.receipt>> : row \in idempotency}
GivenTriples == {<<r, <<Tenant(r), Key(r)>>, receipt[r].id>> :
                   r \in {q \in Requests : AnsweredVerify(q) /\ Key(q) # Absent}}

Oracle == INSTANCE IdempotentOracle WITH
  Callers  <- Requests,
  Slots    <- Tenants \X Keys,
  Answers  <- Requests,
  recorded <- SlotPairs,
  given    <- GivenTriples

\* The tables and handlers implement the write-once oracle, through every
\* race for a key and every death of an instance.
ImplementsOracle == Oracle!Spec

-----------------------------------------------------------------------------
(* Audit                                                                   *)

\* Whatever is answered with 200, a replayed receipt included, has its audit
\* row in the caller's tenant.
AnsweredIsAudited ==
  \A r \in Requests : pc[r] = "answered" => AuditRow(r) \in audits

\* The audit log never runs ahead: the object of each row is stored, for
\* the tenant the row belongs to.
AuditIsTruthful ==
  \A a \in audits :
    IF a.action = "verified"
      THEN \E x \in receipts : x.tenant = a.tenant /\ x.id = a.object
      ELSE Stored(a.tenant, a.object) # {}

-----------------------------------------------------------------------------
(* Assurance                                                               *)

\* "Changed from false to true during the run": a PASS on a require_change
\* condition rests on two observations of the run's own registration and
\* verification, unsatisfied first and satisfied later.
TransitionProven ==
  \A x \in receipts, c \in RequireChange :
    LET res == x.results[c] IN
      res.status = "PASS" =>
        /\ x.level = "registered"
        /\ IsRun(x.tenant, x.contract.id)
        /\ res.before # Absent
        /\ began[x.contract.id][c] <= res.before.epoch
        /\ ~Satisfied(res.before.epoch)
        /\ res.before.epoch < res.after.epoch
        /\ began[x.id][c] <= res.after.epoch
        /\ Satisfied(res.after.epoch)

\* A registered run is verified against all its baselines: its id cannot be
\* named before the last of them is committed.
RunBaselinesComplete ==
  \A x \in receipts :
    x.level = "registered" /\ IsRun(x.tenant, x.contract.id) =>
      \A c \in RequireChange : x.results[c].before # Absent

\* VERIFIED is said only of what was so: each required condition held in its
\* provider at some moment after the verification was asked for.
VerifiedIsGrounded ==
  \A x \in receipts : x.verdict = "VERIFIED" =>
    \A c \in Required :
      /\ x.results[c].after.status = "PASS"
      /\ began[x.id][c] <= x.results[c].after.epoch
      /\ x.results[c].after.epoch <= world[c]
      /\ Satisfied(x.results[c].after.epoch)

\* Every request that arrives ends: a provider that never answers only costs
\* the timeout, and no request waits for another.
EveryRequestEnds ==
  \A r \in Requests : pc[r] \in Running ~> pc[r] \in Finished

-----------------------------------------------------------------------------
(* The inductive invariant behind the safety theorems of AssuranceProofs.  *)

\* Where each handler may be, and what it then has in memory.
HandlerOK(r) ==
  /\ pc[r] # "idle" => input[r] \in Inputs
  /\ pc[r] = "lookup" => Endpoint(r) = "verifyRun"
  /\ pc[r] \in {"idempotency", "replay"} => Verifies(r) /\ Key(r) \in Keys
  /\ pc[r] \notin {"idle", "lookup", "refused", "aborted"} => contract[r] \in Contracts
  /\ pc[r] = "baselines" => Verifies(r)
  /\ pc[r] = "observe" => Endpoint(r) # "compile"
  /\ pc[r] \in {"baseline", "receipt"} =>
       \A c \in Targets(r) : observed[r][c] \in Observations
  /\ pc[r] = "receipt" => Verifies(r)
  /\ pc[r] = "baseline" => Endpoint(r) = "register"
  /\ pc[r] = "remember" => Verifies(r) /\ Key(r) \in Keys
  /\ pc[r] \in {"audit", "remember", "reply", "answered"} /\ Verifies(r) =>
       receipt[r] \in Receipts
  /\ pc[r] # "idle" /\ ~Verifies(r) => Key(r) = Absent

HandlerInv == \A r \in Requests : HandlerOK(r)

\* The primary keys.
UniqueRows ==
  /\ \A a, b \in contracts :
       a.tenant = b.tenant /\ a.contract.id = b.contract.id => a = b
  /\ \A a, b \in idempotency : a.tenant = b.tenant /\ a.key = b.key => a = b
  /\ \A x, y \in receipts : x.id = y.id => x = y

\* Past save_contract, or get_contract, the contract in hand is a stored row.
ContractOK(r) ==
  \/ pc[r] \in {"baselines", "observe", "baseline", "receipt"}
  \/ pc[r] \in {"idempotency", "replay"} /\ Endpoint(r) = "verifyRun"
  => [tenant |-> Tenant(r), contract |-> contract[r]] \in contracts

ContractHeld == \A r \in Requests : ContractOK(r)

\* A receipt belongs to the request that made it, and to a stored contract.
ReceiptOrigin ==
  \A x \in receipts :
    /\ pc[x.id] \in {"audit", "remember", "reply", "answered", "failed", "aborted"}
    /\ x.tenant = Tenant(x.id)
    /\ [tenant |-> x.tenant, contract |-> x.contract] \in contracts

\* The receipt in hand is a stored row of the caller's tenant for the body of
\* the caller, and until it is remembered it is the caller's own.
ReceiptOK(r) ==
  Verifies(r) /\ pc[r] \in {"audit", "remember", "reply", "answered"} =>
    /\ receipt[r] \in receipts
    /\ receipt[r].tenant = Tenant(r)
    /\ input[receipt[r].id].body = input[r].body
    /\ pc[r] \in {"audit", "remember"} => receipt[r].id = r

ReceiptHeld == \A r \in Requests : ReceiptOK(r)

\* A hit stays a hit, and a keyed answer is the remembered one.
KeyOK(r) ==
  /\ pc[r] = "replay" =>
       \E row \in Remembered(Tenant(r), Key(r)) : row.body = input[r].body
  /\ Verifies(r) /\ Key(r) # Absent /\ pc[r] \in {"reply", "answered"} =>
       \E row \in Remembered(Tenant(r), Key(r)) : row.receipt = receipt[r].id

KeyHeld == \A r \in Requests : KeyOK(r)

\* Together inductive: a table's rows keep the primary keys, and each handler's
\* memory keeps pointing at rows that are there.
IInv ==
  /\ TypeOK
  /\ HandlerInv
  /\ UniqueRows
  /\ ContractHeld
  /\ ReceiptOrigin
  /\ ReceiptHeld
  /\ KeyHeld
  /\ IdempotencyReferential
=============================================================================
