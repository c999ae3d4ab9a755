---------------------------- MODULE AssuranceApi ----------------------------
(***************************************************************************)
(* The assurance API of DoneProof: the handlers of doneproof/app.py that   *)
(* register, compile and verify completion contracts, the parts of         *)
(* doneproof/engine.py they await, and the tables of doneproof/store.py    *)
(* they read and write.                                                    *)
(*                                                                         *)
(* A request is a process.  Each store call opens its own connection and   *)
(* commits on its own, several server instances share one database, and    *)
(* an instance can die at any point: so each store call, and each          *)
(* provider observation, is one step, and Abort may come between any two.  *)
(*                                                                         *)
(* Identifiers the server draws at random (contract ids, receipt ids) are  *)
(* named by the request that draws them.                                   *)
(***************************************************************************)
EXTENDS Verdicts

CONSTANTS
  Requests,      \* the HTTP requests that may arrive
  Endpoints,     \* the endpoints the clients of this instance call
  Tenants,       \* workspaces
  Keys,          \* values of the Idempotency-Key header
  LongKeys,      \* the keys of more than 200 characters
  CallerIds,     \* contract ids chosen by callers
  Specs,         \* contract texts: task, assumptions and postconditions
  CallerTime,    \* timestamps the caller writes into a contract
  Absent,        \* a header or a field left out, a row not found
  Conditions,    \* the postconditions of every contract
  Required,      \* those with required = true
  RequireChange, \* those with require_change = true
  Flaky,         \* those whose provider may fail to establish the state
  MaxEpoch       \* bound on the changes of each provider resource

AllEndpoints == {"compile", "register", "verify", "verifyRun"}

ASSUME ConditionsAssumption ==
  /\ Required \subseteq Conditions
  /\ Required # {}
  /\ RequireChange \subseteq Conditions
  /\ Flaky \subseteq Conditions

ASSUME EndpointsAssumption == Endpoints \subseteq AllEndpoints

ASSUME KeysAssumption == LongKeys \subseteq Keys

ASSUME NamesAssumption ==
  /\ Absent \notin Requests \cup Keys \cup CallerIds \cup Specs \cup {CallerTime}
  /\ CallerTime \notin Requests
  /\ CallerIds \cap Requests = {}

ASSUME BoundAssumption == MaxEpoch \in Nat

ContractIds == CallerIds \cup Requests

\* A contract: two of them are the same text iff they agree on every field.
\* stamp stands for task_started_at and created_at.
Contracts == [id : ContractIds, spec : Specs, stamp : Requests \cup {CallerTime}]

\* What the caller wrote; the request hash of the idempotency table is a
\* hash of exactly this.
Bodies == [endpoint : AllEndpoints,
           id       : ContractIds \cup {Absent},
           spec     : Specs \cup {Absent},
           stamp    : Requests \cup {CallerTime, Absent}]

\* An observation of one condition: its status, and the epoch of the
\* provider's resource that was read (0 when nothing was established).
Observations == [status : Statuses, epoch : 0..MaxEpoch]
Observed == [Conditions -> Observations \cup {Absent}]

ASSUME AbsentAssumption == Absent \notin Observations

\* A condition's result in a receipt: the final status, the observation it
\* rests on and the baseline it was compared with.
Results == [status : Statuses, after : Observations,
            before : Observations \cup {Absent}]

Receipts == [id : Requests, tenant : Tenants, level : Levels,
             contract : Contracts, verdict : VerdictValues,
             results : [Conditions -> Results]]

VARIABLES
  \* the database
  contracts,   \* rows [tenant, contract], primary key (tenant, contract.id)
  baselines,   \* contract_baselines: (tenant, contract id) -> condition -> row
  receipts,    \* rows of receipts
  idempotency, \* rows [tenant, key, body, receipt], primary key (tenant, key)
  audits,      \* rows [tenant, action, object]
  \* the server's memory, one entry for each request
  pc,          \* where the request's handler is
  input,       \* what arrived: tenant, key, body
  contract,    \* the contract in hand
  observed,    \* the results gathered from the providers so far
  known,       \* the baselines read from the database
  receipt,     \* the receipt to be returned
  \* the providers
  world,       \* the epoch of each condition's resource: satisfied iff odd
  began        \* history: the epochs when each request arrived

database == <<contracts, baselines, receipts, idempotency, audits>>
memory == <<pc, input, contract, observed, known, receipt>>
vars == <<contracts, baselines, receipts, idempotency, audits, pc, input,
          contract, observed, known, receipt, world, began>>

Running == {"lookup", "idempotency", "replay", "select", "insert", "baselines",
            "observe", "baseline", "receipt", "audit", "remember", "reply"}

\* answered: 200; refused: 4xx; failed: 500; aborted: the instance died or
\* a store call raised, and the caller has no answer.
Finished == {"answered", "refused", "failed", "aborted"}

Labels == {"idle"} \cup Running \cup Finished

NothingObserved == [c \in Conditions |-> Absent]

Init ==
  /\ contracts = {}
  /\ baselines = [k \in Tenants \X ContractIds |-> NothingObserved]
  /\ receipts = {}
  /\ idempotency = {}
  /\ audits = {}
  /\ pc = [r \in Requests |-> "idle"]
  /\ input = [r \in Requests |-> Absent]
  /\ contract = [r \in Requests |-> Absent]
  /\ observed = [r \in Requests |-> NothingObserved]
  /\ known = [r \in Requests |-> NothingObserved]
  /\ receipt = [r \in Requests |-> Absent]
  /\ world = [c \in Conditions |-> 0]
  /\ began = [r \in Requests |-> world]

-----------------------------------------------------------------------------
(* Helpers                                                                 *)

Endpoint(r) == input[r].body.endpoint
Tenant(r) == input[r].tenant
Key(r) == input[r].key

\* The contract rows of one tenant under one id: none or one.
Stored(t, id) == {row \in contracts : row.tenant = t /\ row.contract.id = id}

\* The idempotency rows of one tenant under one key: none or one.
Remembered(t, k) == {row \in idempotency : row.tenant = t /\ row.key = k}

\* The contract ids a client can name: its own choices, and the random ones that
\* a receipt or the audit log has shown to a client, of whatever tenant.  A reply
\* shows no id that is not in one of the two.
Nameable ==
  CallerIds \cup {a.object : a \in {x \in audits : x.action \in {"registered", "compiled"}}}
            \cup {x.contract.id : x \in receipts}

\* Mutant of Parsed: the default id is drawn once, when the module is loaded.
Parsed_DefaultOnce(r, body) ==
  [id    |-> IF body.id = Absent THEN CHOOSE q \in Requests : TRUE ELSE body.id,
   spec  |-> body.spec,
   stamp |-> IF body.stamp = Absent THEN r ELSE body.stamp]

\* Parsing a contract fills the id and the timestamps the body leaves out.
Parsed(r, body) ==
  [id    |-> IF body.id = Absent THEN r ELSE body.id,
   spec  |-> body.spec,
   stamp |-> IF body.stamp = Absent THEN r ELSE body.stamp]

\* The conditions the request observes: snapshot() takes only those that
\* require a change, verify() all of them.
Targets(r) == IF Endpoint(r) = "register" THEN RequireChange ELSE Conditions

Satisfied(epoch) == epoch % 2 = 1

\* What follows save_contract in each handler.
AfterSave(r) ==
  IF Endpoint(r) = "compile" \/ Targets(r) = {} THEN "audit" ELSE "observe"

\* What follows a miss in the idempotency table.
AfterMiss(r) == IF Endpoint(r) = "verifyRun" THEN "baselines" ELSE "select"

Goto(r, label) == pc' = [pc EXCEPT ![r] = label]

-----------------------------------------------------------------------------
(* Arrivals.  The rate limiter and authentication have passed; the body    *)
(* is valid.                                                               *)

Arrive(r, t, k, body, held, label) ==
  /\ body.endpoint \in Endpoints
  /\ input' = [input EXCEPT ![r] = [tenant |-> t, key |-> k, body |-> body]]
  /\ contract' = [contract EXCEPT ![r] = held]
  /\ began' = [began EXCEPT ![r] = world]
  /\ Goto(r, label)
  /\ UNCHANGED <<database, observed, known, receipt, world>>

\* POST /v1/runs: whatever id and timestamps the body has are replaced.
ArriveRegister(r, t, s) ==
  LET body == [endpoint |-> "register", id |-> Absent, spec |-> s, stamp |-> Absent]
  IN  Arrive(r, t, Absent, body, Parsed(r, body), "select")

\* POST /v1/contracts/compile, once the model's answer has been accepted: the
\* caller may give task_started_at, the id is drawn.
ArriveCompile(r, t, s, stamp) ==
  LET body == [endpoint |-> "compile", id |-> Absent, spec |-> s, stamp |-> stamp]
  IN  /\ stamp \in {CallerTime, Absent}
      /\ Arrive(r, t, Absent, body, Parsed(r, body), "select")

\* POST /v1/runs/{contract_id}/verify
ArriveVerifyRun(r, t, k, id) ==
  LET body == [endpoint |-> "verifyRun", id |-> id, spec |-> Absent, stamp |-> Absent]
  IN  /\ id \in Nameable
      /\ Arrive(r, t, k, body, Absent, "lookup")

\* POST /v1/verify: the id and the timestamps may be left out, written by the
\* caller, or copied from contracts a client has been shown, together or not.
ArriveVerify(r, t, k, id, s, stamp) ==
  LET body == [endpoint |-> "verify", id |-> id, spec |-> s, stamp |-> stamp]
      shown == {row \in contracts : row.contract.id \in Nameable}
  IN  /\ id \in Nameable \cup {Absent}
      /\ stamp \in {CallerTime, Absent} \cup {row.contract.stamp : row \in shown}
      /\ Arrive(r, t, k, body, Parsed(r, body),
                IF k = Absent THEN "select" ELSE "idempotency")

-----------------------------------------------------------------------------
(* The handlers' steps.                                                    *)

\* store.get_contract in verify_registered_run: 404 when there is no row.
LookupContract(r) ==
  /\ pc[r] = "lookup"
  /\ LET rows == Stored(Tenant(r), input[r].body.id) IN
       IF rows = {}
         THEN Goto(r, "refused") /\ UNCHANGED contract
         ELSE /\ \E row \in rows : contract' = [contract EXCEPT ![r] = row.contract]
              /\ Goto(r, IF Key(r) = Absent THEN "baselines" ELSE "idempotency")
  /\ UNCHANGED <<database, input, observed, known, receipt, world, began>>

\* Mutants of GetIdempotency: another request's key counts as a miss; the
\* hash is not compared.
GetIdempotency_MissOnMismatch(r) ==
  /\ pc[r] = "idempotency"
  /\ Goto(r, IF Key(r) \in LongKeys THEN "refused"
             ELSE IF \E row \in Remembered(Tenant(r), Key(r)) : row.body = input[r].body
               THEN "replay" ELSE AfterMiss(r))
  /\ UNCHANGED <<database, input, contract, observed, known, receipt, world, began>>

GetIdempotency_NoHash(r) ==
  /\ pc[r] = "idempotency"
  /\ Goto(r, IF Key(r) \in LongKeys THEN "refused"
             ELSE IF Remembered(Tenant(r), Key(r)) = {} THEN AfterMiss(r)
             ELSE "replay")
  /\ UNCHANGED <<database, input, contract, observed, known, receipt, world, began>>

\* The length check and store.get_idempotency: 400 for a long key, 409 for
\* another request's key.
GetIdempotency(r) ==
  /\ pc[r] = "idempotency"
  /\ LET rows == Remembered(Tenant(r), Key(r)) IN
       IF Key(r) \in LongKeys
         THEN Goto(r, "refused")
       ELSE IF rows = {}
         THEN Goto(r, AfterMiss(r))
       ELSE IF \E row \in rows : row.body # input[r].body
         THEN Goto(r, "refused")
       ELSE Goto(r, "replay")
  /\ UNCHANGED <<database, input, contract, observed, known, receipt, world, began>>

\* store.get_receipt of the remembered receipt; the handler goes on as after
\* a miss should the receipt not be there.
ReplayReceipt(r) ==
  /\ pc[r] = "replay"
  /\ LET found == {x \in receipts : /\ x.tenant = Tenant(r)
                                    /\ \E row \in Remembered(Tenant(r), Key(r)) :
                                         x.id = row.receipt}
     IN  IF found = {}
           THEN Goto(r, AfterMiss(r)) /\ UNCHANGED receipt
           ELSE /\ \E x \in found : receipt' = [receipt EXCEPT ![r] = x]
                /\ Goto(r, "reply")
  /\ UNCHANGED <<database, input, contract, observed, known, world, began>>

\* The SELECT of store.save_contract: a row with other content raises
\* ValueError, which only verify turns into a 409; the same content is kept.
SelectContract(r) ==
  /\ pc[r] = "select"
  /\ LET rows == Stored(Tenant(r), contract[r].id) IN
       IF rows = {}
         THEN Goto(r, "insert")
       ELSE IF \E row \in rows : row.contract # contract[r]
         THEN Goto(r, IF Endpoint(r) = "verify" THEN "refused" ELSE "failed")
       ELSE Goto(r, AfterSave(r))
  /\ UNCHANGED <<database, input, contract, observed, known, receipt, world, began>>

\* Mutants of InsertContract: INSERT OR REPLACE, INSERT OR IGNORE.
InsertContract_Replace(r) ==
  /\ pc[r] = "insert"
  /\ contracts' = (contracts \ Stored(Tenant(r), contract[r].id)) \cup
                    {[tenant |-> Tenant(r), contract |-> contract[r]]}
  /\ Goto(r, AfterSave(r))
  /\ UNCHANGED <<baselines, receipts, idempotency, audits, input, contract,
                 observed, known, receipt, world, began>>

InsertContract_Ignore(r) ==
  /\ pc[r] = "insert"
  /\ contracts' = IF Stored(Tenant(r), contract[r].id) # {} THEN contracts
                  ELSE contracts \cup {[tenant |-> Tenant(r), contract |-> contract[r]]}
  /\ Goto(r, AfterSave(r))
  /\ UNCHANGED <<baselines, receipts, idempotency, audits, input, contract,
                 observed, known, receipt, world, began>>

\* The INSERT of store.save_contract: the primary key rejects a row that
\* another request has inserted since the SELECT, and nobody catches that.
InsertContract(r) ==
  /\ pc[r] = "insert"
  /\ IF Stored(Tenant(r), contract[r].id) = {}
       THEN /\ contracts' = contracts \cup
                 {[tenant |-> Tenant(r), contract |-> contract[r]]}
            /\ Goto(r, AfterSave(r))
       ELSE Goto(r, "failed") /\ UNCHANGED contracts
  /\ UNCHANGED <<baselines, receipts, idempotency, audits, input, contract,
                 observed, known, receipt, world, began>>

\* store.get_baselines
GetBaselines(r) ==
  /\ pc[r] = "baselines"
  /\ known' = [known EXCEPT ![r] = baselines[<<Tenant(r), contract[r].id>>]]
  /\ Goto(r, "observe")
  /\ UNCHANGED <<database, input, contract, observed, receipt, world, began>>

\* Mutant of Outcomes: no wait_for around a provider that hangs.
Outcomes_NoTimeout(c) ==
  {[status |-> IF Satisfied(world[c]) THEN "PASS" ELSE "FAIL",
    epoch |-> world[c]] : f \in {c} \ Flaky}

\* What _verify_one can return: either the provider's state is established and
\* the predicate evaluated, or the result is UNKNOWN: no adapter, a timeout, a
\* provider error, an indeterminate answer.
Outcomes(c) ==
  {[status |-> IF Satisfied(world[c]) THEN "PASS" ELSE "FAIL", epoch |-> world[c]]}
    \cup {[status |-> "UNKNOWN", epoch |-> 0] : f \in Flaky \cap {c}}

\* One _verify_one task of a gather completes, in any order.
Observe(r, c) ==
  /\ pc[r] = "observe"
  /\ c \in Targets(r)
  /\ observed[r][c] = Absent
  /\ \E o \in Outcomes(c) : observed' = [observed EXCEPT ![r][c] = o]
  /\ Goto(r, IF \E d \in Targets(r) \ {c} : observed[r][d] = Absent THEN "observe"
             ELSE IF Endpoint(r) = "register" THEN "baseline" ELSE "receipt")
  /\ UNCHANGED <<database, input, contract, known, receipt, world, began>>

\* Mutant of SaveBaseline: the loop ends with the first row.
SaveBaseline_FirstOnly(r, c) ==
  LET k == <<Tenant(r), contract[r].id>>
  IN  /\ pc[r] = "baseline"
      /\ c \in RequireChange
      /\ baselines' = [baselines EXCEPT ![k][c] = observed[r][c]]
      /\ Goto(r, "audit")
      /\ UNCHANGED <<contracts, receipts, idempotency, audits, input, contract,
                     observed, known, receipt, world, began>>

\* One store.save_baseline of register_run's loop; the last one ends the loop.
SaveBaseline(r, c) ==
  LET k == <<Tenant(r), contract[r].id>>
      left == {d \in RequireChange : baselines[k][d] # observed[r][d]}
  IN  /\ pc[r] = "baseline"
      /\ c \in left
      /\ baselines' = [baselines EXCEPT ![k][c] = observed[r][c]]
      /\ Goto(r, IF left = {c} THEN "audit" ELSE "baseline")
      /\ UNCHANGED <<contracts, receipts, idempotency, audits, input, contract,
                     observed, known, receipt, world, began>>

\* The receipt engine.verify builds once every task has completed.
Level(r) == IF Endpoint(r) = "verifyRun" THEN "registered" ELSE "submitted"

StatusOf(b) == IF b = Absent THEN NoBaseline ELSE b.status

ResultOf(r, c) ==
  [status |-> Transition(Level(r), c \in RequireChange, StatusOf(known[r][c]),
                         observed[r][c].status),
   after  |-> observed[r][c],
   before |-> known[r][c]]

NewReceipt(r) ==
  [id |-> r, tenant |-> Tenant(r), level |-> Level(r), contract |-> contract[r],
   verdict |-> VerdictOf([c \in Conditions |-> ResultOf(r, c).status], Required),
   results |-> [c \in Conditions |-> ResultOf(r, c)]]

\* Mutants of SaveReceipt: only certified work is stored; the key is remembered
\* before the audit row is written.
SaveReceipt_OnlyVerified(r) ==
  /\ pc[r] = "receipt"
  /\ receipts' = receipts \cup {x \in {NewReceipt(r)} : x.verdict = "VERIFIED"}
  /\ receipt' = [receipt EXCEPT ![r] = NewReceipt(r)]
  /\ Goto(r, "audit")
  /\ UNCHANGED <<contracts, baselines, idempotency, audits, input, contract,
                 observed, known, world, began>>

SaveReceipt_Remembers(r) ==
  /\ pc[r] = "receipt"
  /\ receipts' = receipts \cup {NewReceipt(r)}
  /\ receipt' = [receipt EXCEPT ![r] = NewReceipt(r)]
  /\ idempotency' = idempotency \cup
       {[tenant |-> Tenant(r), key |-> k, body |-> input[r].body, receipt |-> r] :
          k \in {Key(r)} \ {Absent}}
  /\ Goto(r, "audit")
  /\ UNCHANGED <<contracts, baselines, audits, input, contract, observed, known,
                 world, began>>

\* The end of engine.verify and store.save_receipt: no await between them.
SaveReceipt(r) ==
  /\ pc[r] = "receipt"
  /\ receipts' = receipts \cup {NewReceipt(r)}
  /\ receipt' = [receipt EXCEPT ![r] = NewReceipt(r)]
  /\ Goto(r, "audit")
  /\ UNCHANGED <<contracts, baselines, idempotency, audits, input, contract,
                 observed, known, world, began>>

\* Mutant of AuditRow: the row goes to the default tenant.
AuditRow_DefaultTenant(r) ==
  [tenant |-> CHOOSE t \in Tenants : TRUE,
   action |-> CASE Endpoint(r) = "compile"  -> "compiled"
                [] Endpoint(r) = "register" -> "registered"
                [] OTHER -> "verified",
   object |-> IF Endpoint(r) \in {"compile", "register"} THEN contract[r].id
              ELSE receipt[r].id]

\* The audit row each handler writes, and what it is about.
AuditRow(r) ==
  [tenant |-> Tenant(r),
   action |-> CASE Endpoint(r) = "compile"  -> "compiled"
                [] Endpoint(r) = "register" -> "registered"
                [] OTHER -> "verified",
   object |-> IF Endpoint(r) \in {"compile", "register"} THEN contract[r].id
              ELSE receipt[r].id]

\* store.audit
WriteAudit(r) ==
  /\ pc[r] = "audit"
  /\ audits' = audits \cup {AuditRow(r)}
  /\ Goto(r, IF Key(r) = Absent THEN "reply" ELSE "remember")
  /\ UNCHANGED <<contracts, baselines, receipts, idempotency, input, contract,
                 observed, known, receipt, world, began>>

\* Mutants of SaveIdempotency: INSERT OR REPLACE, INSERT OR IGNORE.
SaveIdempotency_Replace(r) ==
  /\ pc[r] = "remember"
  /\ idempotency' = (idempotency \ Remembered(Tenant(r), Key(r))) \cup
       {[tenant |-> Tenant(r), key |-> Key(r), body |-> input[r].body,
         receipt |-> receipt[r].id]}
  /\ Goto(r, "reply")
  /\ UNCHANGED <<contracts, baselines, receipts, audits, input, contract,
                 observed, known, receipt, world, began>>

SaveIdempotency_Ignore(r) ==
  /\ pc[r] = "remember"
  /\ idempotency' = idempotency \cup
       {row \in {[tenant |-> Tenant(r), key |-> Key(r), body |-> input[r].body,
                  receipt |-> receipt[r].id]} : Remembered(Tenant(r), Key(r)) = {}}
  /\ Goto(r, "reply")
  /\ UNCHANGED <<contracts, baselines, receipts, audits, input, contract,
                 observed, known, receipt, world, began>>

\* store.save_idempotency: a plain INSERT, so the primary key makes the second
\* of two racing requests fail after its receipt is stored.
SaveIdempotency(r) ==
  /\ pc[r] = "remember"
  /\ IF Remembered(Tenant(r), Key(r)) = {}
       THEN /\ idempotency' = idempotency \cup
                 {[tenant |-> Tenant(r), key |-> Key(r), body |-> input[r].body,
                   receipt |-> receipt[r].id]}
            /\ Goto(r, "reply")
       ELSE Goto(r, "failed") /\ UNCHANGED idempotency
  /\ UNCHANGED <<contracts, baselines, receipts, audits, input, contract,
                 observed, known, receipt, world, began>>

\* The response leaves: the contract (compile, register) or the receipt.
Reply(r) ==
  /\ pc[r] = "reply"
  /\ Goto(r, "answered")
  /\ UNCHANGED <<database, input, contract, observed, known, receipt, world, began>>

\* The instance dies, the platform kills the invocation, or the next store
\* call raises: what is committed stays, the caller has no answer.
Abort(r) ==
  /\ pc[r] \in Running
  /\ Goto(r, "aborted")
  /\ UNCHANGED <<database, input, contract, observed, known, receipt, world, began>>

\* The agent, or anyone else, changes a provider's resource.
ProviderChanges(c) ==
  /\ world[c] < MaxEpoch
  /\ world' = [world EXCEPT ![c] = @ + 1]
  /\ UNCHANGED <<database, memory, began>>

-----------------------------------------------------------------------------
Arrivals(r) ==
  /\ pc[r] = "idle"
  /\ \E t \in Tenants :
       \/ \E s \in Specs : ArriveRegister(r, t, s)
       \/ \E s \in Specs, stamp \in {CallerTime, Absent} : ArriveCompile(r, t, s, stamp)
       \/ \E k \in Keys \cup {Absent}, id \in ContractIds : ArriveVerifyRun(r, t, k, id)
       \/ \E k \in Keys \cup {Absent}, id \in ContractIds \cup {Absent}, s \in Specs,
             stamp \in Requests \cup {CallerTime, Absent} :
            ArriveVerify(r, t, k, id, s, stamp)

\* Every step of the handler of r.
Handle(r) ==
  \/ LookupContract(r)
  \/ GetIdempotency(r)
  \/ ReplayReceipt(r)
  \/ SelectContract(r)
  \/ InsertContract(r)
  \/ GetBaselines(r)
  \/ \E c \in Conditions : Observe(r, c) \/ SaveBaseline(r, c)
  \/ SaveReceipt(r)
  \/ WriteAudit(r)
  \/ SaveIdempotency(r)
  \/ Reply(r)

Next ==
  \/ \E r \in Requests : Arrivals(r) \/ Handle(r) \/ Abort(r)
  \/ \E c \in Conditions : ProviderChanges(c)

\* Fairness: an instance that lives keeps running its handlers, and a
\* provider call that does not answer ends in the timeout of wait_for.
\* Nothing is assumed of arrivals, of aborts or of the providers.
Fairness == \A r \in Requests : WF_vars(Handle(r))

Spec == Init /\ [][Next]_vars /\ Fairness
=============================================================================
