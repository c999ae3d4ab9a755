--------------------------- MODULE AssuranceProofs ---------------------------
(***************************************************************************)
(* Theorems of AssuranceApi, for any number of requests, tenants, keys,    *)
(* contract ids and conditions, and any number of changes of the           *)
(* providers.  The tables and the answers (IInv) come first, then what the *)
(* answers rest on: ids, audit log, observations and baselines (GInv).     *)
(***************************************************************************)
EXTENDS AssuranceGrounds, TLAPS

USE DEF AllEndpoints

-----------------------------------------------------------------------------
(* The decision rules.                                                     *)

\* The rule for transitions yields a status from a status.
LEMMA TransitionType ==
  ASSUME NEW level, NEW change, NEW baseline, NEW status \in Statuses
  PROVE  Transition(level, change, baseline, status) \in Statuses
BY DEF Transition, Statuses

\* The verdict of any results is one of the four.
LEMMA VerdictType ==
  ASSUME NEW status, NEW required
  PROVE  VerdictOf(status, required) \in VerdictValues
BY DEF VerdictOf, VerdictValues

\* The last branch of _verdict is dead: with at least one required condition,
\* whatever the number of conditions, the verdict is UNKNOWN exactly when a
\* required result is, VERIFIED and FAILED exactly when all of them are PASS and
\* FAIL, and PARTIAL exactly when some pass, some fail and none is UNKNOWN.
THEOREM VerdictMeaning ==
  ASSUME NEW S, NEW status \in [S -> Statuses], NEW required \in SUBSET S,
         required # {}
  PROVE  /\ VerdictOf(status, required) = "UNKNOWN"
              <=> \E c \in required : status[c] = "UNKNOWN"
         /\ VerdictOf(status, required) = "VERIFIED"
              <=> \A c \in required : status[c] = "PASS"
         /\ VerdictOf(status, required) = "FAILED"
              <=> \A c \in required : status[c] = "FAIL"
         /\ VerdictOf(status, required) = "PARTIAL"
              <=> /\ \A c \in required : status[c] # "UNKNOWN"
                  /\ \E c \in required : status[c] = "PASS"
                  /\ \E c \in required : status[c] = "FAIL"
<1> DEFINE passes == Having(status, required, "PASS")
           fails  == Having(status, required, "FAIL")
           unknowns == Having(status, required, "UNKNOWN")
<1>1. /\ passes = required <=> \A c \in required : status[c] = "PASS"
      /\ unknowns # {} <=> \E c \in required : status[c] = "UNKNOWN"
      /\ \A c \in required : c \in passes \/ c \in fails \/ c \in unknowns
      /\ \A c \in required : c \in passes => c \notin fails /\ c \notin unknowns
      /\ \A c \in required : c \in fails => c \notin unknowns
      /\ \A c \in required : c \in fails <=> status[c] = "FAIL"
      /\ \A c \in required : c \in passes <=> status[c] = "PASS"
      /\ passes \subseteq required /\ fails \subseteq required /\ unknowns \subseteq required
  BY DEF Having, Statuses
<1>2. VerdictOf(status, required) =
        IF required # {} /\ passes = required THEN "VERIFIED"
        ELSE IF unknowns # {} THEN "UNKNOWN"
        ELSE IF fails # {} /\ passes = {} THEN "FAILED"
        ELSE IF fails # {} /\ passes # {} THEN "PARTIAL"
        ELSE "UNKNOWN"
  BY DEF VerdictOf
<1> HIDE DEF passes, fails, unknowns
<1> QED
  BY <1>1, <1>2

-----------------------------------------------------------------------------
(* Types.                                                                  *)

\* A parsed contract has an id and timestamps whatever the body leaves out.
LEMMA ParsedType ==
  ASSUME NEW r \in Requests, NEW body \in Bodies, body.spec \in Specs
  PROVE  Parsed(r, body) \in Contracts
BY NamesAssumption DEF Parsed, Contracts, Bodies, ContractIds

\* What one observation returns.
LEMMA OutcomeType ==
  ASSUME NEW c \in Conditions, world \in [Conditions -> 0..MaxEpoch],
         NEW o \in Outcomes(c)
  PROVE  o \in Observations
<1>1. world[c] \in 0..MaxEpoch /\ 0 \in 0..MaxEpoch
  BY BoundAssumption
<1>2. \/ o = [status |-> IF Satisfied(world[c]) THEN "PASS" ELSE "FAIL", epoch |-> world[c]]
      \/ o = [status |-> "UNKNOWN", epoch |-> 0]
  BY DEF Outcomes
<1> QED
  BY <1>1, <1>2 DEF Observations, Statuses

\* The receipt built from a full set of observations.
LEMMA ReceiptType ==
  ASSUME NEW r \in Requests, input[r] \in Inputs, contract[r] \in Contracts,
         known \in [Requests -> Observed],
         \A c \in Conditions : observed[r][c] \in Observations
  PROVE  NewReceipt(r) \in Receipts
<1>1. ASSUME NEW c \in Conditions PROVE ResultOf(r, c) \in Results
  <2>1. observed[r][c].status \in Statuses
    BY DEF Observations
  <2>2. ResultOf(r, c).status \in Statuses
    BY <2>1, TransitionType DEF ResultOf
  <2>3. known[r][c] \in Observations \cup {Absent}
    BY DEF Observed
  <2> QED
    BY <2>2, <2>3 DEF ResultOf, Results
<1>2. NewReceipt(r).verdict \in VerdictValues
  BY VerdictType DEF NewReceipt
<1>3. NewReceipt(r).results \in [Conditions -> Results]
  BY <1>1 DEF NewReceipt
<1>4. Tenant(r) \in Tenants /\ Level(r) \in Levels
  BY DEF Tenant, Level, Levels, Inputs
<1> QED
  BY <1>2, <1>3, <1>4 DEF NewReceipt, Receipts

\* Every arrival puts a well-formed request at the start of its handler.
LEMMA ArrivalType ==
  ASSUME NEW r \in Requests, Arrivals(r)
  PROVE  \E t \in Tenants, k \in Keys \cup {Absent}, body \in Bodies,
            held \in Contracts \cup {Absent},
            label \in {"select", "lookup", "idempotency"} :
           /\ Arrive(r, t, k, body, held, label)
           /\ label = "lookup" <=> body.endpoint = "verifyRun"
           /\ label # "lookup" => held \in Contracts
           /\ label = "idempotency" => k \in Keys /\ body.endpoint = "verify"
           /\ body.endpoint \in {"register", "compile"} => k = Absent
<1>1. PICK t \in Tenants :
         \/ \E s \in Specs : ArriveRegister(r, t, s)
         \/ \E s \in Specs, stamp \in {CallerTime, Absent} : ArriveCompile(r, t, s, stamp)
         \/ \E k \in Keys \cup {Absent}, id \in ContractIds : ArriveVerifyRun(r, t, k, id)
         \/ \E k \in Keys \cup {Absent}, id \in ContractIds \cup {Absent}, s \in Specs,
               stamp \in Requests \cup {CallerTime, Absent} :
              ArriveVerify(r, t, k, id, s, stamp)
  BY DEF Arrivals
<1>2. CASE \E s \in Specs : ArriveRegister(r, t, s)
  <2>1. PICK s \in Specs : ArriveRegister(r, t, s)
    BY <1>2
  <2> DEFINE body == [endpoint |-> "register", id |-> Absent, spec |-> s, stamp |-> Absent]
  <2>2. body \in Bodies /\ body.spec \in Specs /\ body.endpoint = "register"
    BY DEF Bodies
  <2>3. Parsed(r, body) \in Contracts
    BY <2>2, ParsedType
  <2>4. Arrive(r, t, Absent, body, Parsed(r, body), "select")
    BY <2>1 DEF ArriveRegister
  <2> HIDE DEF body
  <2> QED
    BY <2>2, <2>3, <2>4
<1>3. CASE \E s \in Specs, stamp \in {CallerTime, Absent} : ArriveCompile(r, t, s, stamp)
  <2>1. PICK s \in Specs, stamp \in {CallerTime, Absent} : ArriveCompile(r, t, s, stamp)
    BY <1>3
  <2> DEFINE body == [endpoint |-> "compile", id |-> Absent, spec |-> s, stamp |-> stamp]
  <2>2. body \in Bodies /\ body.spec \in Specs /\ body.endpoint = "compile"
    BY DEF Bodies
  <2>3. Parsed(r, body) \in Contracts
    BY <2>2, ParsedType
  <2>4. Arrive(r, t, Absent, body, Parsed(r, body), "select")
    BY <2>1 DEF ArriveCompile
  <2> HIDE DEF body
  <2> QED
    BY <2>2, <2>3, <2>4
<1>4. CASE \E k \in Keys \cup {Absent}, id \in ContractIds : ArriveVerifyRun(r, t, k, id)
  <2>1. PICK k \in Keys \cup {Absent}, id \in ContractIds : ArriveVerifyRun(r, t, k, id)
    BY <1>4
  <2> DEFINE body == [endpoint |-> "verifyRun", id |-> id, spec |-> Absent, stamp |-> Absent]
  <2>2. body \in Bodies /\ body.endpoint = "verifyRun"
    BY DEF Bodies
  <2>3. Arrive(r, t, k, body, Absent, "lookup")
    BY <2>1 DEF ArriveVerifyRun
  <2> HIDE DEF body
  <2> QED
    BY <2>2, <2>3
<1>5. CASE \E k \in Keys \cup {Absent}, id \in ContractIds \cup {Absent}, s \in Specs,
             stamp \in Requests \cup {CallerTime, Absent} :
               ArriveVerify(r, t, k, id, s, stamp)
  <2>1. PICK k \in Keys \cup {Absent}, id \in ContractIds \cup {Absent}, s \in Specs,
             stamp \in Requests \cup {CallerTime, Absent} :
               ArriveVerify(r, t, k, id, s, stamp)
    BY <1>5
  <2> DEFINE body == [endpoint |-> "verify", id |-> id, spec |-> s, stamp |-> stamp]
             label == IF k = Absent THEN "select" ELSE "idempotency"
  <2>2. body \in Bodies /\ body.spec \in Specs /\ body.endpoint = "verify"
    BY DEF Bodies
  <2>3. Parsed(r, body) \in Contracts
    BY <2>2, ParsedType
  <2>4. Arrive(r, t, k, body, Parsed(r, body), label)
    BY <2>1 DEF ArriveVerify
  <2>5. label \in {"select", "idempotency"} /\ (label = "idempotency" => k \in Keys)
    OBVIOUS
  <2> HIDE DEF body, label
  <2> QED
    BY <2>2, <2>3, <2>4, <2>5
<1> QED
  BY <1>1, <1>2, <1>3, <1>4, <1>5

\* A step of the specification, action by action.
LEMMA NextCases ==
  ASSUME Next
  PROVE  \/ \E r \in Requests :
              \/ pc[r] = "idle" /\ Arrivals(r)
              \/ LookupContract(r) \/ GetIdempotency(r) \/ ReplayReceipt(r)
              \/ SelectContract(r) \/ InsertContract(r) \/ GetBaselines(r)
              \/ \E c \in Conditions : Observe(r, c)
              \/ \E c \in Conditions : SaveBaseline(r, c)
              \/ SaveReceipt(r) \/ WriteAudit(r) \/ SaveIdempotency(r)
              \/ Reply(r) \/ Abort(r)
         \/ \E c \in Conditions : ProviderChanges(c)
BY DEF Next, Handle, Arrivals

\* A step of one request leaves the memory of the others alone.
OthersUntouched(r) ==
  \A q \in Requests \ {r} :
    /\ pc'[q] = pc[q] /\ input'[q] = input[q] /\ contract'[q] = contract[q]
    /\ observed'[q] = observed[q] /\ known'[q] = known[q] /\ receipt'[q] = receipt[q]

\* No handler writes into the memory of another request.
LEMMA Others ==
  ASSUME TypeOK, NEW r \in Requests, Arrivals(r) \/ Handle(r) \/ Abort(r)
  PROVE  OthersUntouched(r)
<1> USE DEF TypeOK, OthersUntouched, Goto, database
<1>1. CASE Arrivals(r)
  BY <1>1, ArrivalType DEF Arrive
<1>2. CASE LookupContract(r)
  BY <1>2 DEF LookupContract
<1>3. CASE GetIdempotency(r)
  BY <1>3 DEF GetIdempotency
<1>4. CASE ReplayReceipt(r)
  BY <1>4 DEF ReplayReceipt
<1>5. CASE SelectContract(r)
  BY <1>5 DEF SelectContract
<1>6. CASE InsertContract(r)
  BY <1>6 DEF InsertContract
<1>7. CASE GetBaselines(r)
  BY <1>7 DEF GetBaselines
<1>8. CASE SaveReceipt(r)
  BY <1>8 DEF SaveReceipt
<1>9. CASE WriteAudit(r)
  BY <1>9 DEF WriteAudit
<1>10. CASE SaveIdempotency(r)
  BY <1>10 DEF SaveIdempotency
<1>11. CASE Reply(r)
  BY <1>11 DEF Reply
<1>12. CASE Abort(r)
  BY <1>12 DEF Abort
<1>13. ASSUME NEW c \in Conditions, Observe(r, c) PROVE OthersUntouched(r)
  BY <1>13 DEF Observe
<1>14. ASSUME NEW c \in Conditions, SaveBaseline(r, c) PROVE OthersUntouched(r)
  BY <1>14 DEF SaveBaseline
<1> QED
  BY <1>1, <1>2, <1>3, <1>4, <1>5, <1>6, <1>7, <1>8, <1>9, <1>10, <1>11, <1>12, <1>13, <1>14 DEF Handle

\* So only the request that moves has to be looked at.
LEMMA HandlerLift ==
  ASSUME HandlerInv, NEW r \in Requests, OthersUntouched(r), HandlerOK(r)'
  PROVE  HandlerInv'
<1>1. ASSUME NEW q \in Requests \ {r} PROVE HandlerOK(q)'
  <2>1. HandlerOK(q)
    BY DEF HandlerInv
  <2> QED
    BY <2>1 DEF OthersUntouched, HandlerOK, Verifies, Endpoint, Key, Targets
<1> QED
  BY <1>1 DEF HandlerInv

\* An audit row is well-formed when the receipt it may name is in hand.
LEMMA AuditRowType ==
  ASSUME NEW r \in Requests, pc[r] = "audit", HandlerOK(r)
  PROVE  AuditRow(r) \in AuditRows
<1>1. input[r] \in Inputs /\ contract[r] \in Contracts
  BY DEF HandlerOK
<1>2. Tenant(r) \in Tenants /\ contract[r].id \in ContractIds /\ Endpoint(r) \in AllEndpoints
  BY <1>1 DEF Tenant, Endpoint, Inputs, Bodies, Contracts
<1>3. Verifies(r) => receipt[r].id \in ContractIds
  BY DEF HandlerOK, Receipts, ContractIds
<1> QED
  BY <1>2, <1>3 DEF AuditRow, AuditRows, Verifies

\* save_contract goes on to the audit only where there is nothing to observe.
LEMMA AfterSaveLabel ==
  ASSUME NEW r \in Requests, pc[r] # "idle", input[r] \in Inputs
  PROVE  /\ AfterSave(r) \in {"audit", "observe"}
         /\ AfterSave(r) = "audit" => ~Verifies(r)
         /\ AfterSave(r) = "observe" => Endpoint(r) # "compile"
BY ConditionsAssumption DEF AfterSave, Targets, Verifies, Endpoint, Inputs, Bodies

\* Types and control points are kept by every step.
LEMMA TypeStep ==
  ASSUME TypeOK, HandlerInv, [Next]_vars
  PROVE  TypeOK' /\ HandlerInv'
<1> USE DEF Goto, Labels, Running, Finished, database
<1>1. CASE UNCHANGED vars
  BY <1>1 DEF vars, TypeOK, HandlerInv, HandlerOK, Verifies, Endpoint, Key, Targets
<1>2. ASSUME NEW r \in Requests, pc[r] = "idle", Arrivals(r)
      PROVE  TypeOK' /\ HandlerInv'
  <2>1. PICK t \in Tenants, k \in Keys \cup {Absent}, body \in Bodies,
             held \in Contracts \cup {Absent}, label \in {"select", "lookup", "idempotency"} :
           /\ Arrive(r, t, k, body, held, label)
           /\ label = "lookup" <=> body.endpoint = "verifyRun"
           /\ label # "lookup" => held \in Contracts
           /\ label = "idempotency" => k \in Keys /\ body.endpoint = "verify"
           /\ body.endpoint \in {"register", "compile"} => k = Absent
    BY <1>2, ArrivalType
  <2>2. [tenant |-> t, key |-> k, body |-> body] \in Inputs /\ body.endpoint \in AllEndpoints
    BY DEF Inputs, Bodies
  <2>3. TypeOK'
    BY <2>1, <2>2 DEF Arrive, TypeOK
  <2>4. HandlerOK(r)'
    BY <2>1, <2>2 DEF Arrive, TypeOK, HandlerOK, Verifies, Endpoint, Key, Targets
  <2> QED
    BY <1>2, <2>3, <2>4, Others, HandlerLift
<1>3. ASSUME NEW r \in Requests, LookupContract(r)
      PROVE  TypeOK' /\ HandlerInv'
  <2>1. HandlerOK(r)
    BY DEF HandlerInv
  <2>2. TypeOK'
    BY <1>3, <2>1 DEF LookupContract, TypeOK, HandlerOK, Stored, ContractRows
  <2>3. HandlerOK(r)'
    BY <1>3, <2>1 DEF LookupContract, TypeOK, HandlerOK, Verifies, Endpoint, Key, Inputs,
       Stored, ContractRows
  <2> QED
    BY <1>3, <2>2, <2>3, Others, HandlerLift DEF Handle
<1>4. ASSUME NEW r \in Requests, GetIdempotency(r)
      PROVE  TypeOK' /\ HandlerInv'
  <2>1. HandlerOK(r)
    BY DEF HandlerInv
  <2>2. TypeOK'
    BY <1>4, <2>1 DEF GetIdempotency, TypeOK, HandlerOK, AfterMiss
  <2>3. HandlerOK(r)'
    BY <1>4, <2>1 DEF GetIdempotency, TypeOK, HandlerOK, Verifies, Endpoint, Key, Targets, AfterMiss
  <2> QED
    BY <1>4, <2>2, <2>3, Others, HandlerLift DEF Handle
<1>5. ASSUME NEW r \in Requests, ReplayReceipt(r)
      PROVE  TypeOK' /\ HandlerInv'
  <2>1. HandlerOK(r)
    BY DEF HandlerInv
  <2>2. TypeOK'
    BY <1>5, <2>1 DEF ReplayReceipt, TypeOK, HandlerOK, AfterMiss
  <2>3. HandlerOK(r)'
    BY <1>5, <2>1 DEF ReplayReceipt, TypeOK, HandlerOK, Verifies, Endpoint, Key, Targets, AfterMiss
  <2> QED
    BY <1>5, <2>2, <2>3, Others, HandlerLift DEF Handle
<1>6. ASSUME NEW r \in Requests, SelectContract(r)
      PROVE  TypeOK' /\ HandlerInv'
  <2>1. HandlerOK(r)
    BY DEF HandlerInv
  <2>2. TypeOK'
    BY <1>6, <2>1, AfterSaveLabel DEF SelectContract, TypeOK, HandlerOK
  <2>3. HandlerOK(r)'
    BY <1>6, <2>1, AfterSaveLabel DEF SelectContract, TypeOK, HandlerOK, Verifies, Endpoint, Key, Targets
  <2> QED
    BY <1>6, <2>2, <2>3, Others, HandlerLift DEF Handle
<1>7. ASSUME NEW r \in Requests, InsertContract(r)
      PROVE  TypeOK' /\ HandlerInv'
  <2>1. HandlerOK(r)
    BY DEF HandlerInv
  <2>4. [tenant |-> Tenant(r), contract |-> contract[r]] \in ContractRows
    BY <1>7, <2>1 DEF InsertContract, HandlerOK, ContractRows, Inputs, Tenant
  <2>2. TypeOK'
    BY <1>7, <2>1, <2>4, AfterSaveLabel DEF InsertContract, TypeOK, HandlerOK
  <2>3. HandlerOK(r)'
    BY <1>7, <2>1, AfterSaveLabel DEF InsertContract, TypeOK, HandlerOK, Verifies, Endpoint, Key, Targets, ContractRows, Inputs, Tenant
  <2> QED
    BY <1>7, <2>2, <2>3, Others, HandlerLift DEF Handle
<1>8. ASSUME NEW r \in Requests, GetBaselines(r)
      PROVE  TypeOK' /\ HandlerInv'
  <2>1. HandlerOK(r)
    BY DEF HandlerInv
  <2>2. TypeOK'
    BY <1>8, <2>1 DEF GetBaselines, TypeOK, HandlerOK, Inputs, Contracts, Tenant
  <2>3. HandlerOK(r)'
    BY <1>8, <2>1 DEF GetBaselines, TypeOK, HandlerOK, Verifies, Endpoint, Key, Targets, Inputs, Contracts, Tenant
  <2> QED
    BY <1>8, <2>2, <2>3, Others, HandlerLift DEF Handle
<1>9. ASSUME NEW r \in Requests, SaveReceipt(r)
      PROVE  TypeOK' /\ HandlerInv'
  <2>1. HandlerOK(r)
    BY DEF HandlerInv
  <2>0. NewReceipt(r) \in Receipts
    BY <1>9, <2>1, ReceiptType DEF SaveReceipt, TypeOK, HandlerOK, Verifies, Targets
  <2>2. TypeOK'
    BY <1>9, <2>1, <2>0 DEF SaveReceipt, TypeOK, HandlerOK
  <2>3. HandlerOK(r)'
    BY <1>9, <2>1, <2>0 DEF SaveReceipt, TypeOK, HandlerOK, Verifies, Endpoint, Key, Targets
  <2> QED
    BY <1>9, <2>2, <2>3, Others, HandlerLift DEF Handle
<1>10. ASSUME NEW r \in Requests, WriteAudit(r)
      PROVE  TypeOK' /\ HandlerInv'
  <2>1. HandlerOK(r)
    BY DEF HandlerInv
  <2>2. TypeOK'
    BY <1>10, <2>1, AuditRowType DEF WriteAudit, TypeOK, HandlerOK
  <2>3. HandlerOK(r)'
    BY <1>10, <2>1, AuditRowType DEF WriteAudit, TypeOK, HandlerOK, Verifies, Endpoint, Key, Inputs
  <2> QED
    BY <1>10, <2>2, <2>3, Others, HandlerLift DEF Handle
<1>11. ASSUME NEW r \in Requests, SaveIdempotency(r)
      PROVE  TypeOK' /\ HandlerInv'
  <2>1. HandlerOK(r)
    BY DEF HandlerInv
  <2>4. [tenant |-> Tenant(r), key |-> Key(r), body |-> input[r].body,
         receipt |-> receipt[r].id] \in IdempotencyRows
    BY <1>11, <2>1 DEF SaveIdempotency, HandlerOK, IdempotencyRows, Inputs, Receipts, Tenant, Key
  <2>2. TypeOK'
    BY <1>11, <2>1, <2>4 DEF SaveIdempotency, TypeOK, HandlerOK
  <2>3. HandlerOK(r)'
    BY <1>11, <2>1 DEF SaveIdempotency, TypeOK, HandlerOK, Verifies, Endpoint, Key, Targets, IdempotencyRows, Inputs, Receipts, Tenant
  <2> QED
    BY <1>11, <2>2, <2>3, Others, HandlerLift DEF Handle
<1>12. ASSUME NEW r \in Requests, Reply(r)
      PROVE  TypeOK' /\ HandlerInv'
  <2>1. HandlerOK(r)
    BY DEF HandlerInv
  <2>2. TypeOK'
    BY <1>12, <2>1 DEF Reply, TypeOK, HandlerOK
  <2>3. HandlerOK(r)'
    BY <1>12, <2>1 DEF Reply, TypeOK, HandlerOK, Verifies, Endpoint, Key, Targets
  <2> QED
    BY <1>12, <2>2, <2>3, Others, HandlerLift DEF Handle
<1>13. ASSUME NEW r \in Requests, Abort(r)
      PROVE  TypeOK' /\ HandlerInv'
  <2>1. HandlerOK(r)
    BY DEF HandlerInv
  <2>2. TypeOK'
    BY <1>13, <2>1 DEF Abort, TypeOK, HandlerOK
  <2>3. HandlerOK(r)'
    BY <1>13, <2>1 DEF Abort, TypeOK, HandlerOK, Verifies, Endpoint, Key, Targets
  <2> QED
    BY <1>13, <2>2, <2>3, Others, HandlerLift DEF Handle
<1>14. ASSUME NEW r \in Requests, NEW c \in Conditions, Observe(r, c)
      PROVE  TypeOK' /\ HandlerInv'
  <2>1. HandlerOK(r)
    BY DEF HandlerInv
  <2>2. PICK o \in Observations : observed' = [observed EXCEPT ![r][c] = o]
    BY <1>14, OutcomeType DEF Observe, TypeOK
  <2>3. TypeOK'
    BY <1>14, <2>2 DEF Observe, TypeOK, Observed
  <2>5. observed'[r][c] = o /\ \A d \in Conditions \ {c} : observed'[r][d] = observed[r][d]
    BY <2>2 DEF TypeOK, Observed
  <2>6. \A d \in Conditions : observed[r][d] \in Observations \cup {Absent}
    BY DEF TypeOK, Observed
  <2>7. Targets(r) \subseteq Conditions /\ Targets(r)' = Targets(r)
    BY <1>14, ConditionsAssumption DEF Observe, Targets, Endpoint
  <2>8. pc'[r] \in {"baseline", "receipt"} => \A d \in Targets(r)' : observed'[r][d] \in Observations
    BY <1>14, <2>5, <2>6, <2>7 DEF Observe, TypeOK
  <2>9. /\ input[r] \in Inputs /\ contract[r] \in Contracts /\ Endpoint(r) \in AllEndpoints
        /\ Endpoint(r) # "compile" /\ (~Verifies(r) => Key(r) = Absent)
    BY <1>14, <2>1 DEF Observe, HandlerOK, Inputs, Bodies, Endpoint
  <2>10. /\ pc'[r] \in {"observe", "baseline", "receipt"}
         /\ pc'[r] = "baseline" => Endpoint(r) = "register"
         /\ pc'[r] = "receipt" => Endpoint(r) # "register"
    BY <1>14 DEF Observe, TypeOK
  <2>4. HandlerOK(r)'
    BY <1>14, <2>8, <2>9, <2>10 DEF Observe, HandlerOK, Verifies, Endpoint, Key
  <2> QED
    BY <1>14, <2>3, <2>4, Others, HandlerLift DEF Handle
<1>15. ASSUME NEW r \in Requests, NEW c \in Conditions, SaveBaseline(r, c)
      PROVE  TypeOK' /\ HandlerInv'
  <2>1. HandlerOK(r)
    BY DEF HandlerInv
  <2>4. observed[r][c] \in Observations \cup {Absent}
    BY <1>15, ConditionsAssumption DEF TypeOK, Observed
  <2>5. <<Tenant(r), contract[r].id>> \in Tenants \X ContractIds
    BY <1>15, <2>1 DEF SaveBaseline, HandlerOK, Inputs, Contracts, Tenant
  <2>6. baselines' \in [Tenants \X ContractIds -> Observed]
    BY <1>15, <2>4, <2>5 DEF SaveBaseline, TypeOK, Observed
  <2>2. TypeOK'
    BY <1>15, <2>6 DEF SaveBaseline, TypeOK
  <2>3. HandlerOK(r)'
    BY <1>15, <2>1 DEF SaveBaseline, TypeOK, HandlerOK, Verifies, Endpoint, Key, Targets
  <2> QED
    BY <1>15, <2>2, <2>3, Others, HandlerLift DEF Handle
<1>16. ASSUME NEW c \in Conditions, ProviderChanges(c)
      PROVE  TypeOK' /\ HandlerInv'
  <2>1. TypeOK'
    BY <1>16, BoundAssumption DEF ProviderChanges, TypeOK, memory
  <2>2. HandlerInv'
    BY <1>16 DEF ProviderChanges, memory, HandlerInv, HandlerOK, Verifies, Endpoint, Key, Targets
  <2> QED
    BY <2>1, <2>2
<1> QED
  BY <1>1, <1>2, <1>3, <1>4, <1>5, <1>6, <1>7, <1>8, <1>9, <1>10, <1>11, <1>12, <1>13, <1>14, <1>15, <1>16, NextCases

-----------------------------------------------------------------------------
(* Tables only grow, and each has one action that adds to it.              *)

\* The row InsertContract adds.
HeldRow(r) == [tenant |-> Tenant(r), contract |-> contract[r]]

\* The row SaveIdempotency adds.
KeyRow(r) == [tenant |-> Tenant(r), key |-> Key(r), body |-> input[r].body,
              receipt |-> receipt[r].id]

\* Each of contracts, receipts and idempotency is either left alone by a step or
\* gains exactly the row its one writer adds, under the writer's guard.
LEMMA TableSteps ==
  ASSUME [Next]_vars
  PROVE  /\ \/ contracts' = contracts
            \/ \E r \in Requests : /\ pc[r] = "insert"
                                   /\ Stored(Tenant(r), contract[r].id) = {}
                                   /\ contracts' = contracts \cup {HeldRow(r)}
         /\ \/ receipts' = receipts
            \/ \E r \in Requests : SaveReceipt(r)
         /\ \/ idempotency' = idempotency
            \/ \E r \in Requests : /\ pc[r] = "remember"
                                   /\ SaveIdempotency(r)
                                   /\ Remembered(Tenant(r), Key(r)) = {}
                                   /\ idempotency' = idempotency \cup {KeyRow(r)}
<1> USE DEF database, HeldRow, KeyRow
<1>1. CASE UNCHANGED vars
  BY <1>1 DEF vars
<1>2. ASSUME NEW r \in Requests, Arrivals(r)
      PROVE  UNCHANGED database
  BY <1>2, ArrivalType DEF Arrive
<1>3. ASSUME NEW r \in Requests,
             \/ LookupContract(r) \/ GetIdempotency(r) \/ ReplayReceipt(r)
             \/ SelectContract(r) \/ GetBaselines(r) \/ Reply(r) \/ Abort(r)
             \/ \E c \in Conditions : Observe(r, c)
      PROVE  UNCHANGED database
  BY <1>3 DEF LookupContract, GetIdempotency, ReplayReceipt, SelectContract,
              GetBaselines, Reply, Abort, Observe
<1>4. ASSUME NEW r \in Requests, InsertContract(r)
      PROVE  /\ UNCHANGED <<receipts, idempotency>>
             /\ \/ contracts' = contracts
                \/ /\ pc[r] = "insert" /\ Stored(Tenant(r), contract[r].id) = {}
                   /\ contracts' = contracts \cup {HeldRow(r)}
  BY <1>4 DEF InsertContract
<1>5. ASSUME NEW r \in Requests,
             WriteAudit(r) \/ \E c \in Conditions : SaveBaseline(r, c)
      PROVE  UNCHANGED <<contracts, receipts, idempotency>>
  BY <1>5 DEF WriteAudit, SaveBaseline
<1>6. ASSUME NEW r \in Requests, SaveReceipt(r)
      PROVE  UNCHANGED <<contracts, idempotency>>
  BY <1>6 DEF SaveReceipt
<1>7. ASSUME NEW r \in Requests, SaveIdempotency(r)
      PROVE  /\ UNCHANGED <<contracts, receipts>>
             /\ \/ idempotency' = idempotency
                \/ /\ pc[r] = "remember" /\ Remembered(Tenant(r), Key(r)) = {}
                   /\ idempotency' = idempotency \cup {KeyRow(r)}
  BY <1>7 DEF SaveIdempotency
<1>8. ASSUME NEW c \in Conditions, ProviderChanges(c)
      PROVE  UNCHANGED database
  BY <1>8 DEF ProviderChanges
<1> QED
  BY <1>1, <1>2, <1>3, <1>4, <1>5, <1>6, <1>7, <1>8, NextCases

\* Rows are never removed, and what arrived is never rewritten.
LEMMA Monotone ==
  ASSUME TypeOK, [Next]_vars
  PROVE  /\ contracts \subseteq contracts'
         /\ receipts \subseteq receipts'
         /\ idempotency \subseteq idempotency'
         /\ \A q \in Requests : pc[q] # "idle" => pc'[q] # "idle" /\ input'[q] = input[q]
<1>1. /\ contracts \subseteq contracts'
      /\ receipts \subseteq receipts'
      /\ idempotency \subseteq idempotency'
  BY TableSteps DEF SaveReceipt
<1>2. CASE UNCHANGED vars
  BY <1>1, <1>2 DEF vars
<1>3. ASSUME NEW r \in Requests, pc[r] = "idle", Arrivals(r)
      PROVE  \A q \in Requests : pc[q] # "idle" => pc'[q] # "idle" /\ input'[q] = input[q]
  BY <1>3, Others DEF OthersUntouched
<1>4. ASSUME NEW r \in Requests, Handle(r) \/ Abort(r)
      PROVE  \A q \in Requests : pc[q] # "idle" => pc'[q] # "idle" /\ input'[q] = input[q]
  <2>1. pc'[r] # "idle" /\ input' = input
    BY <1>4 DEF Handle, TypeOK, Goto, database, AfterMiss, AfterSave, LookupContract,
         GetIdempotency, ReplayReceipt, SelectContract, InsertContract, GetBaselines,
         SaveReceipt, WriteAudit, SaveIdempotency, Reply, Abort, Observe, SaveBaseline
  <2> QED
    BY <1>4, <2>1, Others DEF OthersUntouched
<1>5. ASSUME NEW c \in Conditions, ProviderChanges(c)
      PROVE  \A q \in Requests : pc[q] # "idle" => pc'[q] # "idle" /\ input'[q] = input[q]
  BY <1>5 DEF ProviderChanges, memory
<1> QED
  BY <1>1, <1>2, <1>3, <1>4, <1>5 DEF Next, Arrivals

\* The primary keys hold: an INSERT happens only where the key is free, and a
\* request stores its receipt once.
LEMMA UniqueStep ==
  ASSUME IInv, [Next]_vars
  PROVE  UniqueRows'
<1>1. \A a, b \in contracts' :
        a.tenant = b.tenant /\ a.contract.id = b.contract.id => a = b
  BY TableSteps DEF IInv, UniqueRows, HeldRow, Stored
<1>2. \A a, b \in idempotency' : a.tenant = b.tenant /\ a.key = b.key => a = b
  BY TableSteps DEF IInv, UniqueRows, KeyRow, Remembered
<1>3. \A x, y \in receipts' : x.id = y.id => x = y
  <2>1. ASSUME NEW r \in Requests, SaveReceipt(r), NEW x \in receipts
        PROVE  x.id # NewReceipt(r).id
    <3>1. pc[r] = "receipt" /\ pc[x.id] # "receipt"
      BY <2>1 DEF IInv, ReceiptOrigin, SaveReceipt
    <3> QED
      BY <3>1 DEF NewReceipt
  <2> QED
    BY <2>1, TableSteps DEF IInv, UniqueRows, SaveReceipt
<1> QED
  BY <1>1, <1>2, <1>3 DEF UniqueRows

\* A step moves one request, or none.
LEMMA Moves ==
  ASSUME TypeOK, [Next]_vars
  PROVE  \/ UNCHANGED <<pc, input, contract, receipt>>
         \/ \E r \in Requests :
              /\ (pc[r] = "idle" /\ Arrivals(r)) \/ Handle(r) \/ Abort(r)
              /\ OthersUntouched(r)
<1>1. CASE UNCHANGED vars
  BY <1>1 DEF vars
<1>2. ASSUME NEW r \in Requests, Arrivals(r) \/ Handle(r) \/ Abort(r)
      PROVE  /\ (pc[r] = "idle" /\ Arrivals(r)) \/ Handle(r) \/ Abort(r)
             /\ OthersUntouched(r)
  BY <1>2, Others DEF Arrivals
<1>3. ASSUME NEW c \in Conditions, ProviderChanges(c)
      PROVE  UNCHANGED <<pc, input, contract, receipt>>
  BY <1>3 DEF ProviderChanges, memory
<1> QED
  BY <1>1, <1>2, <1>3 DEF Next

\* The contract a handler goes on with is a row: SELECT found it, or INSERT
\* put it there, and rows stay.
LEMMA ContractStep ==
  ASSUME IInv, [Next]_vars
  PROVE  ContractHeld'
<1> USE DEF IInv, HeldRow
<1>1. contracts \subseteq contracts'
  BY Monotone
<1>2. ASSUME NEW q \in Requests, pc'[q] = pc[q], input'[q] = input[q], contract'[q] = contract[q]
      PROVE  ContractOK(q)'
  BY <1>1, <1>2 DEF ContractHeld, ContractOK, Endpoint, Tenant
<1>3. ASSUME NEW r \in Requests, pc[r] = "idle", Arrivals(r) PROVE ContractOK(r)'
  BY <1>3, ArrivalType DEF Arrive, Goto, TypeOK, ContractOK, Endpoint
<1>4. ASSUME NEW r \in Requests, Handle(r) \/ Abort(r) PROVE ContractOK(r)'
  <2> USE DEF Goto, TypeOK, Tenant, Endpoint, database
  <2>1. ContractOK(r)
    BY DEF ContractHeld
  <2>2. CASE LookupContract(r)
    <3>1. ASSUME NEW row \in Stored(Tenant(r), input[r].body.id)
          PROVE  [tenant |-> Tenant(r), contract |-> row.contract] \in contracts
      BY DEF Stored, ContractRows
    <3> QED
      BY <2>2, <3>1 DEF LookupContract, ContractOK
  <2>3. CASE GetIdempotency(r) \/ ReplayReceipt(r)
    BY <2>1, <2>3 DEF GetIdempotency, ReplayReceipt, AfterMiss, ContractOK
  <2>4. CASE SelectContract(r)
    <3>1. ASSUME NEW row \in Stored(Tenant(r), contract[r].id), row.contract = contract[r]
          PROVE  HeldRow(r) \in contracts
      BY <3>1 DEF Stored, ContractRows
    <3>2. AfterSave(r) \in {"audit", "observe"}
      BY DEF AfterSave
    <3> QED
      BY <2>4, <3>1, <3>2 DEF SelectContract, ContractOK
  <2>5. CASE InsertContract(r)
    BY <2>5 DEF InsertContract, AfterSave, ContractOK
  <2>6. CASE GetBaselines(r)
    BY <2>1, <2>6 DEF GetBaselines, ContractOK
  <2>7. CASE \E c \in Conditions : Observe(r, c) \/ SaveBaseline(r, c)
    BY <1>1, <2>1, <2>7 DEF Observe, SaveBaseline, ContractOK
  <2>8. CASE SaveReceipt(r) \/ WriteAudit(r) \/ SaveIdempotency(r) \/ Reply(r) \/ Abort(r)
    BY <2>8 DEF SaveReceipt, WriteAudit, SaveIdempotency, Reply, Abort, ContractOK
  <2> QED
    BY <1>4, <2>2, <2>3, <2>4, <2>5, <2>6, <2>7, <2>8 DEF Handle
<1> QED
  BY <1>2, <1>3, <1>4, Moves DEF ContractHeld, OthersUntouched

\* A stored receipt is past its SaveReceipt for good, and so is its contract.
LEMMA OriginStep ==
  ASSUME IInv, [Next]_vars
  PROVE  ReceiptOrigin'
<1> USE DEF IInv
<1> DEFINE Past == {"audit", "remember", "reply", "answered", "failed", "aborted"}
<1>1. ASSUME NEW q \in Requests, pc[q] \in Past PROVE pc'[q] \in Past
  <2>1. ASSUME NEW r \in Requests, pc[r] \in Past, Handle(r) \/ Abort(r)
        PROVE  pc'[r] \in Past
    BY <2>1 DEF Handle, TypeOK, Goto, LookupContract, GetIdempotency, ReplayReceipt,
         SelectContract, InsertContract, GetBaselines, SaveReceipt, WriteAudit,
         SaveIdempotency, Reply, Abort, Observe, SaveBaseline
  <2> QED
    BY <1>1, <2>1, Moves DEF OthersUntouched
<1>2. ASSUME NEW x \in receipts
      PROVE  /\ pc'[x.id] \in Past
             /\ x.tenant = Tenant(x.id)'
             /\ [tenant |-> x.tenant, contract |-> x.contract] \in contracts'
  BY <1>1, Monotone DEF ReceiptOrigin, TypeOK, Receipts, Tenant
<1>3. ASSUME NEW r \in Requests, SaveReceipt(r), NEW x, x = NewReceipt(r)
      PROVE  /\ pc'[x.id] \in Past
             /\ x.tenant = Tenant(x.id)'
             /\ [tenant |-> x.tenant, contract |-> x.contract] \in contracts'
  BY <1>3 DEF SaveReceipt, NewReceipt, TypeOK, Goto, Tenant, ContractHeld, ContractOK
<1> QED
  BY <1>2, <1>3, TableSteps DEF ReceiptOrigin, SaveReceipt

\* The receipt a handler is about to return is a row of its caller.
LEMMA ReceiptStep ==
  ASSUME IInv, [Next]_vars
  PROVE  ReceiptHeld'
<1> USE DEF IInv
<1>1. ASSUME NEW q \in Requests, pc'[q] = pc[q], input'[q] = input[q], receipt'[q] = receipt[q]
      PROVE  ReceiptOK(q)'
  <2>1. ReceiptOK(q)
    BY DEF ReceiptHeld
  <2>2. ASSUME NEW x \in receipts PROVE input'[x.id] = input[x.id]
    BY Monotone DEF ReceiptOrigin, TypeOK, Receipts
  <2> QED
    BY <1>1, <2>1, <2>2, Monotone DEF ReceiptOK, Verifies, Endpoint, Tenant
<1>2. ASSUME NEW r \in Requests, pc[r] = "idle", Arrivals(r) PROVE ReceiptOK(r)'
  BY <1>2, ArrivalType DEF Arrive, Goto, TypeOK, ReceiptOK
<1>3. ASSUME NEW r \in Requests, Handle(r) \/ Abort(r) PROVE ReceiptOK(r)'
  <2> USE DEF Goto, TypeOK, Tenant, Endpoint, Verifies, database
  <2>1. ReceiptOK(r)
    BY DEF ReceiptHeld
  <2>2. CASE \/ LookupContract(r) \/ GetIdempotency(r) \/ GetBaselines(r) \/ Abort(r)
             \/ \E c \in Conditions : Observe(r, c)
    BY <2>2 DEF LookupContract, GetIdempotency, AfterMiss, GetBaselines, Abort, Observe, ReceiptOK
  <2>3. CASE ReplayReceipt(r)
    <3>1. ASSUME NEW x \in receipts, x.tenant = Tenant(r),
                 NEW row \in Remembered(Tenant(r), Key(r)), x.id = row.receipt
          PROVE  input[x.id].body = input[r].body
      <4>1. row.body = input[r].body
        BY <2>3 DEF ReplayReceipt, KeyHeld, KeyOK, UniqueRows, Remembered
      <4>2. PICK y \in receipts : y.id = row.receipt /\ input[y.id].body = row.body
        BY DEF IdempotencyReferential, Remembered
      <4> QED
        BY <3>1, <4>1, <4>2
    <3> QED
      BY <2>3, <3>1 DEF ReplayReceipt, AfterMiss, ReceiptOK
  <2>4. CASE SelectContract(r) \/ InsertContract(r)
    <3>1. pc[r] # "idle" /\ input[r] \in Inputs
      BY <2>4 DEF SelectContract, InsertContract, HandlerInv, HandlerOK
    <3> QED
      BY <2>4, <3>1, AfterSaveLabel DEF SelectContract, InsertContract, ReceiptOK
  <2>5. CASE \E c \in Conditions : SaveBaseline(r, c)
    BY <2>5 DEF SaveBaseline, ReceiptOK, HandlerInv, HandlerOK
  <2>6. CASE SaveReceipt(r)
    BY <2>6 DEF SaveReceipt, NewReceipt, ReceiptOK
  <2>7. CASE WriteAudit(r) \/ SaveIdempotency(r) \/ Reply(r)
    BY <2>1, <2>7 DEF WriteAudit, SaveIdempotency, Reply, ReceiptOK
  <2> QED
    BY <1>3, <2>2, <2>3, <2>4, <2>5, <2>6, <2>7 DEF Handle
<1> QED
  BY <1>1, <1>2, <1>3, Moves DEF ReceiptHeld, OthersUntouched

\* A key that was found stays found, and an answer under a key is the row's.
LEMMA KeyStep ==
  ASSUME IInv, [Next]_vars
  PROVE  KeyHeld'
<1> USE DEF IInv
<1>1. ASSUME NEW q \in Requests, pc'[q] = pc[q], input'[q] = input[q], receipt'[q] = receipt[q]
      PROVE  KeyOK(q)'
  <2>1. KeyOK(q)
    BY DEF KeyHeld
  <2> QED
    BY <1>1, <2>1, Monotone DEF KeyOK, Remembered, Verifies, Endpoint, Tenant, Key
<1>2. ASSUME NEW r \in Requests, pc[r] = "idle", Arrivals(r) PROVE KeyOK(r)'
  BY <1>2, ArrivalType DEF Arrive, Goto, TypeOK, KeyOK
<1>3. ASSUME NEW r \in Requests, Handle(r) \/ Abort(r) PROVE KeyOK(r)'
  <2> USE DEF Goto, TypeOK, Tenant, Endpoint, Verifies, Key, database
  <2>1. KeyOK(r) /\ HandlerOK(r)
    BY DEF KeyHeld, HandlerInv
  <2>2. CASE \/ LookupContract(r) \/ GetBaselines(r) \/ Abort(r) \/ SaveReceipt(r)
             \/ \E c \in Conditions : Observe(r, c) \/ SaveBaseline(r, c)
    BY <2>2 DEF LookupContract, GetBaselines, Abort, SaveReceipt, Observe, SaveBaseline, KeyOK
  <2>3. CASE SelectContract(r) \/ InsertContract(r)
    BY <2>3 DEF SelectContract, InsertContract, AfterSave, KeyOK
  <2>4. CASE GetIdempotency(r)
    BY <2>4 DEF GetIdempotency, AfterMiss, Remembered, KeyOK
  <2>5. CASE ReplayReceipt(r)
    BY <2>5 DEF ReplayReceipt, AfterMiss, Remembered, KeyOK
  <2>6. CASE WriteAudit(r)
    BY <2>6 DEF WriteAudit, KeyOK
  <2>7. CASE SaveIdempotency(r)
    <3>1. input' = input /\ receipt' = receipt /\ pc'[r] \in {"reply", "failed"}
      BY <2>7 DEF SaveIdempotency
    <3>2. pc'[r] = "reply" => KeyRow(r) \in idempotency'
      BY <2>7 DEF SaveIdempotency, KeyRow
    <3>3. pc'[r] = "reply" => KeyRow(r) \in Remembered(Tenant(r), Key(r))'
      BY <3>1, <3>2 DEF Remembered, KeyRow
    <3>4. KeyRow(r).receipt = receipt'[r].id
      BY <3>1 DEF KeyRow
    <3> QED
      BY <3>1, <3>3, <3>4 DEF KeyOK
  <2>8. CASE Reply(r)
    BY <2>1, <2>8 DEF Reply, Remembered, KeyOK
  <2> QED
    BY <1>3, <2>2, <2>3, <2>4, <2>5, <2>6, <2>7, <2>8 DEF Handle
<1> QED
  BY <1>1, <1>2, <1>3, Moves DEF KeyHeld, OthersUntouched

\* A row of the idempotency table is written with its receipt in hand.
LEMMA ReferentialStep ==
  ASSUME IInv, [Next]_vars
  PROVE  IdempotencyReferential'
<1> USE DEF IInv
<1>1. ASSUME NEW x \in receipts PROVE x \in receipts' /\ input'[x.id] = input[x.id]
  BY Monotone DEF ReceiptOrigin, TypeOK, Receipts
<1>2. ASSUME NEW row \in idempotency
      PROVE  \E x \in receipts' : /\ x.id = row.receipt /\ x.tenant = row.tenant
                                  /\ input'[x.id].body = row.body
  BY <1>1 DEF IdempotencyReferential
<1>3. ASSUME NEW r \in Requests, pc[r] = "remember"
      PROVE  \E x \in receipts' : /\ x.id = KeyRow(r).receipt /\ x.tenant = KeyRow(r).tenant
                                  /\ input'[x.id].body = KeyRow(r).body
  <2>1. HandlerOK(r) /\ ReceiptOK(r)
    BY DEF HandlerInv, ReceiptHeld
  <2> QED
    BY <1>1, <1>3, <2>1 DEF HandlerOK, ReceiptOK, KeyRow
<1> QED
  BY <1>2, <1>3, TableSteps DEF IdempotencyReferential

-----------------------------------------------------------------------------
(* The theorems.                                                           *)

\* The inductive invariant holds in every reachable state.
THEOREM Invariance == Spec => []IInv
<1>1. Init => IInv
  BY BoundAssumption, NamesAssumption
     DEF Init, IInv, TypeOK, HandlerInv, HandlerOK, UniqueRows, ContractHeld, ContractOK,
         ReceiptOrigin, ReceiptHeld, ReceiptOK, KeyHeld, KeyOK, IdempotencyReferential,
         NothingObserved, Observed, Labels, Verifies
<1>2. IInv /\ [Next]_vars => IInv'
  BY TypeStep, UniqueStep, ContractStep, OriginStep, ReceiptStep, KeyStep, ReferentialStep
     DEF IInv
<1> QED
  BY <1>1, <1>2, PTL DEF Spec

\* Every table and every handler's memory keeps its type.
THEOREM TypeCorrect == Spec => []TypeOK
<1>1. IInv => TypeOK
  BY DEF IInv
<1> QED
  BY <1>1, Invariance, PTL

\* A stored contract is never replaced or doubled, under any interleaving.
THEOREM ContractsAreImmutable == Spec => ContractImmutable
<1>1. [Next]_vars => [\A t \in Tenants, id \in ContractIds :
                        Stored(t, id) # {} => Stored(t, id)' = Stored(t, id)]_vars
  <2> SUFFICES ASSUME [Next]_vars, NEW t \in Tenants, NEW id \in ContractIds,
                      Stored(t, id) # {}
               PROVE  Stored(t, id)' = Stored(t, id)
    OBVIOUS
  <2> QED
    BY TableSteps DEF Stored, HeldRow
<1> QED
  BY <1>1, PTL DEF Spec, ContractImmutable

\* The contract of a receipt is for ever the one row under its tenant and id.
THEOREM ReceiptsBindContracts == Spec => []ReceiptBindsContract
<1>1. IInv => ReceiptBindsContract
  <2> SUFFICES ASSUME IInv, NEW x \in receipts
               PROVE  Stored(x.tenant, x.contract.id)
                        = {[tenant |-> x.tenant, contract |-> x.contract]}
    BY DEF ReceiptBindsContract
  <2>1. [tenant |-> x.tenant, contract |-> x.contract] \in contracts
    BY DEF IInv, ReceiptOrigin
  <2> QED
    BY <2>1 DEF IInv, UniqueRows, Stored
<1> QED
  BY <1>1, Invariance, PTL

\* A remembered key leads to a stored receipt made for the remembered body.
THEOREM KeysLeadToReceipts == Spec => []IdempotencyReferential
<1>1. IInv => IdempotencyReferential
  BY DEF IInv
<1> QED
  BY <1>1, Invariance, PTL

\* An answer is a stored receipt of the caller's tenant for the caller's body.
THEOREM AnswersAreOwn == Spec => []AnswerIsOwn
<1>1. IInv => AnswerIsOwn
  BY DEF IInv, ReceiptHeld, ReceiptOK, AnswerIsOwn, AnsweredVerify
<1> QED
  BY <1>1, Invariance, PTL

\* All answers of one tenant under one key are the same receipt.
THEOREM SameKeyGetsSameAnswer == Spec => []SameKeySameAnswer
<1>1. IInv => SameKeySameAnswer
  <2> SUFFICES ASSUME IInv, NEW r \in Requests, NEW q \in Requests,
                      AnsweredVerify(r), AnsweredVerify(q),
                      Tenant(r) = Tenant(q), Key(r) = Key(q), Key(r) # Absent
               PROVE  receipt[r] = receipt[q]
    BY DEF SameKeySameAnswer
  <2>1. PICK a \in Remembered(Tenant(r), Key(r)) : a.receipt = receipt[r].id
    BY DEF IInv, KeyHeld, KeyOK, AnsweredVerify
  <2>2. PICK b \in Remembered(Tenant(r), Key(r)) : b.receipt = receipt[q].id
    BY DEF IInv, KeyHeld, KeyOK, AnsweredVerify
  <2>3. a = b
    BY DEF IInv, UniqueRows, Remembered
  <2>4. receipt[r] \in receipts /\ receipt[q] \in receipts
    BY DEF IInv, ReceiptHeld, ReceiptOK, AnsweredVerify
  <2> QED
    BY <2>1, <2>2, <2>3, <2>4 DEF IInv, UniqueRows
<1> QED
  BY <1>1, Invariance, PTL

\* A lookup after the key was remembered never leads to a second verification:
\* the handlers' fall-through for a missing receipt is unreachable.
THEOREM RememberedKeysReplay == Spec => RememberedIsReplayed
<1> DEFINE Replayed(r) == /\ pc[r] \in {"idempotency", "replay"}
                          /\ Remembered(Tenant(r), Key(r)) # {}
                          => pc'[r] \notin {"select", "baselines"}
<1>1. IInv /\ [Next]_vars => [\A r \in Requests : Replayed(r)]_vars
  <2> SUFFICES ASSUME IInv, [Next]_vars, NEW r \in Requests,
                      pc[r] \in {"idempotency", "replay"},
                      Remembered(Tenant(r), Key(r)) # {}
               PROVE  pc'[r] \notin {"select", "baselines"}
    OBVIOUS
  <2> USE DEF IInv, TypeOK, Goto
  <2>1. CASE pc'[r] = pc[r]
    BY <2>1
  <2>2. CASE GetIdempotency(r)
    BY <2>2 DEF GetIdempotency
  <2>3. CASE ReplayReceipt(r)
    <3>1. PICK row \in Remembered(Tenant(r), Key(r)) : TRUE
      OBVIOUS
    <3>2. PICK x \in receipts : x.id = row.receipt /\ x.tenant = row.tenant
      BY DEF IdempotencyReferential, Remembered
    <3>3. x.tenant = Tenant(r)
      BY <3>1, <3>2 DEF Remembered
    <3> QED
      BY <2>3, <3>1, <3>2, <3>3 DEF ReplayReceipt
  <2>4. CASE Abort(r)
    BY <2>4 DEF Abort
  <2>5. Handle(r) => GetIdempotency(r) \/ ReplayReceipt(r)
    BY DEF Handle, LookupContract, SelectContract, InsertContract, GetBaselines, SaveReceipt,
           WriteAudit, SaveIdempotency, Reply, Observe, SaveBaseline
  <2> QED
    BY <2>1, <2>2, <2>3, <2>4, <2>5, Moves DEF OthersUntouched
<1> QED
  BY <1>1, Invariance, PTL DEF Spec, RememberedIsReplayed

-----------------------------------------------------------------------------
(* Refinement: the handlers implement the write-once oracle.               *)

\* A request is given its answer by Reply and by nothing else.
LEMMA GivenSteps ==
  ASSUME TypeOK, [Next]_vars
  PROVE  \/ GivenTriples' = GivenTriples
         \/ \E r \in Requests : Reply(r) /\ Verifies(r) /\ Key(r) # Absent
              /\ GivenTriples' = GivenTriples \cup
                   {<<r, <<Tenant(r), Key(r)>>, receipt[r].id>>}
<1> DEFINE Triple(q) == <<q, <<Tenant(q), Key(q)>>, receipt[q].id>>
           Is(q) == AnsweredVerify(q) /\ Key(q) # Absent
<1> USE DEF TypeOK, Goto
<1>1. ASSUME NEW q \in Requests, pc'[q] = pc[q], input'[q] = input[q], receipt'[q] = receipt[q]
      PROVE  (Is(q)' <=> Is(q)) /\ Triple(q)' = Triple(q)
  BY <1>1 DEF AnsweredVerify, Verifies, Endpoint, Tenant, Key
<1>2. CASE UNCHANGED <<pc, input, contract, receipt>>
  BY <1>2 DEF GivenTriples, AnsweredVerify, Verifies, Endpoint, Tenant, Key
<1>3. ASSUME NEW r \in Requests, OthersUntouched(r), ~Is(r), ~Is(r)'
      PROVE  GivenTriples' = GivenTriples
  <2>1. \A q \in Requests : Is(q)' <=> Is(q)
    BY <1>1, <1>3 DEF OthersUntouched
  <2>2. \A q \in Requests : Is(q) => Triple(q)' = Triple(q)
    BY <1>1, <1>3 DEF OthersUntouched
  <2> QED
    BY <2>1, <2>2 DEF GivenTriples
<1>4. ASSUME NEW r \in Requests, pc[r] = "idle", Arrivals(r), OthersUntouched(r)
      PROVE  GivenTriples' = GivenTriples
  <2>1. pc'[r] # "answered"
    BY <1>4, ArrivalType DEF Arrive
  <2> QED
    BY <1>3, <1>4, <2>1 DEF AnsweredVerify
<1>5. ASSUME NEW r \in Requests, Handle(r) \/ Abort(r), OthersUntouched(r), ~Reply(r)
      PROVE  GivenTriples' = GivenTriples
  <2>1. pc[r] # "answered" /\ pc'[r] # "answered"
    BY <1>5 DEF Handle, AfterMiss, AfterSave, LookupContract, GetIdempotency, ReplayReceipt,
         SelectContract, InsertContract, GetBaselines, SaveReceipt, WriteAudit,
         SaveIdempotency, Abort, Observe, SaveBaseline, Running
  <2> QED
    BY <1>3, <1>5, <2>1 DEF AnsweredVerify
<1>6. ASSUME NEW r \in Requests, OthersUntouched(r), Reply(r)
      PROVE  \/ GivenTriples' = GivenTriples
             \/ /\ Verifies(r) /\ Key(r) # Absent
                /\ GivenTriples' = GivenTriples \cup {Triple(r)}
  <2>1. /\ pc[r] = "reply" /\ pc'[r] = "answered" /\ input' = input /\ receipt' = receipt
        /\ \A q \in Requests \ {r} : pc'[q] = pc[q]
    BY <1>6 DEF Reply
  <2>2. CASE Verifies(r) /\ Key(r) # Absent
    <3>1. ~Is(r) /\ Is(r)' /\ Triple(r)' = Triple(r)
      BY <2>1, <2>2 DEF AnsweredVerify, Verifies, Endpoint, Tenant, Key
    <3>2. \A q \in Requests \ {r} : (Is(q)' <=> Is(q)) /\ Triple(q)' = Triple(q)
      BY <1>1, <2>1
    <3> QED
      BY <2>2, <3>1, <3>2 DEF GivenTriples
  <2>3. CASE ~(Verifies(r) /\ Key(r) # Absent)
    <3>1. ~Is(r) /\ ~Is(r)'
      BY <2>1, <2>3 DEF AnsweredVerify, Verifies, Endpoint, Key
    <3> QED
      BY <1>3, <1>6, <3>1
  <2> QED
    BY <2>2, <2>3
<1> QED
  BY <1>2, <1>4, <1>5, <1>6, Moves

\* An INSERT into the table fills an empty slot; a keyed Reply gives what the
\* slot holds; nothing else is seen by the oracle.
THEOREM OracleIsImplemented == Spec => ImplementsOracle
<1>1. Init => Oracle!Init
  BY DEF Init, Oracle!Init, SlotPairs, GivenTriples, AnsweredVerify
<1>2. ASSUME IInv, [Next]_vars
      PROVE  [Oracle!Next]_<<SlotPairs, GivenTriples>>
  <2> DEFINE Pair(row) == <<<<row.tenant, row.key>>, row.receipt>>
  <2>0. TypeOK /\ SlotPairs = {Pair(row) : row \in idempotency}
        /\ SlotPairs' = {Pair(row) : row \in idempotency'}
    BY <1>2 DEF IInv, SlotPairs
  <2>1. CASE idempotency' = idempotency /\ GivenTriples' = GivenTriples
    BY <2>1 DEF SlotPairs
  <2>2. ASSUME NEW r \in Requests, pc[r] = "remember", SaveIdempotency(r),
               Remembered(Tenant(r), Key(r)) = {},
               idempotency' = idempotency \cup {KeyRow(r)}
        PROVE  Oracle!Next
    <3>1. HandlerOK(r)
      BY <1>2 DEF IInv, HandlerInv
    <3>2. Tenant(r) \in Tenants /\ Key(r) \in Keys /\ receipt[r].id \in Requests
      BY <2>2, <3>1 DEF HandlerOK, Inputs, Receipts, Tenant
    <3>3. \A row \in idempotency : ~(row.tenant = Tenant(r) /\ row.key = Key(r))
      BY <2>2 DEF Remembered
    <3>4. Pair(KeyRow(r)) = <<<<Tenant(r), Key(r)>>, receipt[r].id>>
      BY DEF KeyRow
    <3>5. ASSUME NEW b PROVE <<<<Tenant(r), Key(r)>>, b>> \notin SlotPairs
      BY <2>0, <3>3
    <3>6. SlotPairs' = SlotPairs \cup {Pair(KeyRow(r))}
      <4> HIDE DEF Pair
      <4> QED
        BY <2>0, <2>2
    <3>7. idempotency' # idempotency
      <4>1. KeyRow(r).tenant = Tenant(r) /\ KeyRow(r).key = Key(r)
        BY DEF KeyRow
      <4> QED
        BY <2>2, <3>3, <4>1
    <3>8. GivenTriples' = GivenTriples
      BY <2>0, <1>2, <3>7, GivenSteps DEF Reply, database
    <3>9. PICK slot \in Tenants \X Keys, a \in Requests :
            slot = <<Tenant(r), Key(r)>> /\ a = receipt[r].id
      BY <3>2
    <3>10. Oracle!Record(slot, a)
      BY <3>4, <3>5, <3>6, <3>8, <3>9 DEF Oracle!Record, SlotPairs, GivenTriples
    <3> QED
      BY <3>9, <3>10 DEF Oracle!Next
  <2>3. ASSUME NEW r \in Requests, Reply(r), Verifies(r), Key(r) # Absent,
               GivenTriples' = GivenTriples \cup
                   {<<r, <<Tenant(r), Key(r)>>, receipt[r].id>>}
        PROVE  Oracle!Next
    <3>1. KeyOK(r) /\ pc[r] = "reply" /\ idempotency' = idempotency
      BY <1>2, <2>3 DEF IInv, KeyHeld, Reply, database
    <3>2. PICK row \in Remembered(Tenant(r), Key(r)) : row.receipt = receipt[r].id
      BY <2>3, <3>1 DEF KeyOK
    <3>3. row \in idempotency /\ row.tenant = Tenant(r) /\ row.key = Key(r)
      BY <3>2 DEF Remembered
    <3>4. Tenant(r) \in Tenants /\ Key(r) \in Keys /\ receipt[r].id \in Requests
      BY <2>0, <3>2, <3>3 DEF TypeOK, IdempotencyRows
    <3>5. <<<<Tenant(r), Key(r)>>, receipt[r].id>> \in SlotPairs
      BY <2>0, <3>2, <3>3
    <3>6. SlotPairs' = SlotPairs
      BY <3>1 DEF SlotPairs
    <3>7. PICK slot \in Tenants \X Keys, a \in Requests :
            slot = <<Tenant(r), Key(r)>> /\ a = receipt[r].id
      BY <3>4
    <3>8. Oracle!Give(r, slot, a)
      BY <2>3, <3>5, <3>6, <3>7 DEF Oracle!Give, SlotPairs, GivenTriples
    <3> QED
      BY <3>7, <3>8 DEF Oracle!Next
  <2>4. \/ idempotency' = idempotency
        \/ \E r \in Requests : pc[r] = "remember" /\ SaveIdempotency(r)
             /\ Remembered(Tenant(r), Key(r)) = {} /\ idempotency' = idempotency \cup {KeyRow(r)}
    BY <1>2, TableSteps
  <2>5. \/ GivenTriples' = GivenTriples
        \/ \E r \in Requests : Reply(r) /\ Verifies(r) /\ Key(r) # Absent
             /\ GivenTriples' = GivenTriples \cup
                  {<<r, <<Tenant(r), Key(r)>>, receipt[r].id>>}
    BY <1>2, <2>0, GivenSteps
  <2> QED
    BY <2>1, <2>2, <2>3, <2>4, <2>5
<1> QED
  BY <1>1, <1>2, Invariance, PTL DEF Spec, ImplementsOracle, Oracle!Spec, SlotPairs, GivenTriples

-----------------------------------------------------------------------------
(* What answers rest on: first, what a step can do to each variable.       *)

\* What is known of a request that has just arrived.
LEMMA Arrived ==
  ASSUME TypeOK, NEW r \in Requests, Arrivals(r)
  PROVE  /\ UNCHANGED <<contracts, baselines, receipts, idempotency, audits,
                        observed, known, receipt, world>>
         /\ began' = [began EXCEPT ![r] = world]
         /\ pc'[r] \in {"select", "lookup", "idempotency"}
         /\ pc'[r] = "lookup" <=> Endpoint(r)' = "verifyRun"
         /\ ~Verifies(r)' => input'[r].body.id = Absent
         /\ Endpoint(r)' = "verifyRun" => input'[r].body.id # Absent
         /\ Endpoint(r)' # "verifyRun" =>
              contract'[r].id = IF input'[r].body.id = Absent THEN r ELSE input'[r].body.id
         /\ input'[r].body.id \in Requests => input'[r].body.id \in Nameable
<1> USE DEF Arrive, Goto, TypeOK, database, Endpoint, Tenant, Verifies
<1>1. PICK t \in Tenants :
         \/ \E s \in Specs : ArriveRegister(r, t, s)
         \/ \E s \in Specs, stamp \in {CallerTime, Absent} : ArriveCompile(r, t, s, stamp)
         \/ \E k \in Keys \cup {Absent}, id \in ContractIds : ArriveVerifyRun(r, t, k, id)
         \/ \E k \in Keys \cup {Absent}, id \in ContractIds \cup {Absent}, s \in Specs,
               stamp \in Requests \cup {CallerTime, Absent} :
              ArriveVerify(r, t, k, id, s, stamp)
  BY DEF Arrivals
<1>2. CASE \E s \in Specs : ArriveRegister(r, t, s)
  BY <1>2, NamesAssumption DEF ArriveRegister, Parsed
<1>3. CASE \E s \in Specs, stamp \in {CallerTime, Absent} : ArriveCompile(r, t, s, stamp)
  BY <1>3, NamesAssumption DEF ArriveCompile, Parsed
<1>4. CASE \E k \in Keys \cup {Absent}, id \in ContractIds : ArriveVerifyRun(r, t, k, id)
  BY <1>4, NamesAssumption DEF ArriveVerifyRun, ContractIds
<1>5. CASE \E k \in Keys \cup {Absent}, id \in ContractIds \cup {Absent}, s \in Specs,
             stamp \in Requests \cup {CallerTime, Absent} :
               ArriveVerify(r, t, k, id, s, stamp)
  <2>1. PICK k \in Keys \cup {Absent}, id \in ContractIds \cup {Absent}, s \in Specs,
             stamp \in Requests \cup {CallerTime, Absent} :
               ArriveVerify(r, t, k, id, s, stamp)
    BY <1>5
  <2>2. id \in Requests => id \in Nameable
    BY <2>1, NamesAssumption DEF ArriveVerify
  <2> QED
    BY <2>1, <2>2 DEF ArriveVerify, Parsed
<1> QED
  BY <1>1, <1>2, <1>3, <1>4, <1>5

\* Each of the other variables has one action that writes it.
LEMMA Writers ==
  ASSUME [Next]_vars
  PROVE  /\ contracts' = contracts \/ \E r \in Requests : InsertContract(r)
         /\ audits' = audits \/ \E r \in Requests : WriteAudit(r)
         /\ \/ baselines' = baselines
            \/ \E r \in Requests, c \in Conditions : SaveBaseline(r, c)
         /\ \/ observed' = observed
            \/ \E r \in Requests, c \in Conditions : Observe(r, c)
         /\ known' = known \/ \E r \in Requests : GetBaselines(r)
         /\ receipt' = receipt \/ \E r \in Requests : ReplayReceipt(r) \/ SaveReceipt(r)
         /\ world' = world \/ \E c \in Conditions : ProviderChanges(c)
         /\ began' = began \/ \E r \in Requests : pc[r] = "idle" /\ Arrivals(r)
         /\ \/ contract' = contract
            \/ \E r \in Requests : (pc[r] = "idle" /\ Arrivals(r)) \/ LookupContract(r)
<1> USE DEF database, memory
<1>1. CASE UNCHANGED vars
  BY <1>1 DEF vars
<1>2. ASSUME NEW r \in Requests, Arrivals(r)
      PROVE  UNCHANGED <<contracts, audits, baselines, observed, known, world, receipt>>
  BY <1>2, ArrivalType DEF Arrive
<1>3. ASSUME NEW r \in Requests,
             \/ LookupContract(r) \/ GetIdempotency(r) \/ ReplayReceipt(r)
             \/ SelectContract(r) \/ InsertContract(r) \/ SaveReceipt(r)
             \/ SaveIdempotency(r) \/ Reply(r) \/ Abort(r)
      PROVE  /\ UNCHANGED <<audits, baselines, observed, known, world, began>>
             /\ contracts' = contracts \/ InsertContract(r)
  BY <1>3 DEF LookupContract, GetIdempotency, ReplayReceipt, SelectContract,
              InsertContract, SaveReceipt, SaveIdempotency, Reply, Abort
<1>4. ASSUME NEW r \in Requests,
             \/ GetIdempotency(r) \/ ReplayReceipt(r) \/ SelectContract(r)
             \/ InsertContract(r) \/ SaveReceipt(r) \/ SaveIdempotency(r)
             \/ Reply(r) \/ Abort(r) \/ GetBaselines(r) \/ WriteAudit(r)
             \/ \E c \in Conditions : Observe(r, c) \/ SaveBaseline(r, c)
      PROVE  /\ contract' = contract
             /\ receipt' = receipt \/ ReplayReceipt(r) \/ SaveReceipt(r)
  BY <1>4 DEF GetIdempotency, ReplayReceipt, SelectContract, InsertContract, SaveReceipt,
              SaveIdempotency, Reply, Abort, GetBaselines, WriteAudit, Observe, SaveBaseline
<1>5. ASSUME NEW r \in Requests, GetBaselines(r)
      PROVE  UNCHANGED <<contracts, audits, baselines, observed, world, began>>
  BY <1>5 DEF GetBaselines
<1>6. ASSUME NEW r \in Requests, WriteAudit(r)
      PROVE  UNCHANGED <<contracts, baselines, observed, known, world, began>>
  BY <1>6 DEF WriteAudit
<1>7. ASSUME NEW r \in Requests, NEW c \in Conditions, Observe(r, c)
      PROVE  UNCHANGED <<contracts, audits, baselines, known, world, began>>
  BY <1>7 DEF Observe
<1>8. ASSUME NEW r \in Requests, NEW c \in Conditions, SaveBaseline(r, c)
      PROVE  UNCHANGED <<contracts, audits, observed, known, world, began>>
  BY <1>8 DEF SaveBaseline
<1>9. ASSUME NEW c \in Conditions, ProviderChanges(c)
      PROVE  UNCHANGED <<contracts, audits, baselines, observed, known, began, contract,
                        receipt>>
  BY <1>9 DEF ProviderChanges
<1>10. ASSUME NEW r \in Requests, LookupContract(r)
      PROVE  receipt' = receipt
  BY <1>10 DEF LookupContract
<1> QED
  BY <1>1, <1>2, <1>3, <1>4, <1>5, <1>6, <1>7, <1>8, <1>9, <1>10, NextCases


\* What is committed, observed or begun stays: the audit log, the epochs, the
\* observations and the baselines only grow.
LEMMA Stays ==
  ASSUME IInv, [Next]_vars
  PROVE  /\ audits \subseteq audits'
         /\ \A c \in Conditions : world[c] <= world'[c]
         /\ \A q \in Requests : pc[q] # "idle" => began'[q] = began[q]
         /\ \A q \in Requests, c \in Conditions :
              observed[q][c] # Absent => observed'[q][c] = observed[q][c]
         /\ \A k \in Tenants \X ContractIds, c \in Conditions :
              baselines[k][c] # Absent => baselines'[k][c] # Absent
<1>0. TypeOK
  BY DEF IInv
<1>1. audits \subseteq audits'
  BY Writers DEF WriteAudit
<1>2. ASSUME NEW c \in Conditions PROVE world[c] <= world'[c]
  <2>1. world[c] \in Nat
    BY <1>0, BoundAssumption DEF TypeOK
  <2>2. ASSUME NEW d \in Conditions, ProviderChanges(d)
        PROVE  world'[c] = world[c] \/ world'[c] = world[c] + 1
    BY <1>0, <2>2 DEF ProviderChanges, TypeOK
  <2> QED
    BY <2>1, <2>2, Writers
<1>3. ASSUME NEW q \in Requests, pc[q] # "idle" PROVE began'[q] = began[q]
  <2>1. ASSUME NEW r \in Requests, pc[r] = "idle", Arrivals(r)
        PROVE  began'[q] = began[q]
    BY <1>0, <1>3, <2>1, Arrived DEF TypeOK
  <2> QED
    BY <2>1, Writers
<1>4. ASSUME NEW q \in Requests, NEW c \in Conditions, observed[q][c] # Absent
      PROVE  observed'[q][c] = observed[q][c]
  <2>1. ASSUME NEW r \in Requests, NEW d \in Conditions, Observe(r, d)
        PROVE  observed'[q][c] = observed[q][c]
    BY <1>0, <1>4, <2>1 DEF Observe, TypeOK, Observed
  <2> QED
    BY <2>1, Writers
<1>5. ASSUME NEW k \in Tenants \X ContractIds, NEW c \in Conditions, baselines[k][c] # Absent
      PROVE  baselines'[k][c] # Absent
  <2>1. ASSUME NEW r \in Requests, NEW d \in Conditions, SaveBaseline(r, d)
        PROVE  baselines'[k][c] # Absent
    <3>1. HandlerOK(r) /\ pc[r] = "baseline" /\ d \in Targets(r)
      BY <2>1 DEF IInv, HandlerInv, HandlerOK, SaveBaseline, Targets
    <3>2. observed[r][d] \in Observations
      BY <3>1 DEF HandlerOK
    <3>3. observed[r][d] # Absent
      BY <3>2, AbsentAssumption
    <3> QED
      BY <1>0, <1>5, <2>1, <3>3 DEF SaveBaseline, TypeOK, Observed
  <2> QED
    BY <1>5, <2>1, Writers
<1> QED
  BY <1>1, <1>2, <1>3, <1>4, <1>5

\* The first step of a request is its arrival.
LEMMA FirstStep ==
  ASSUME IInv, [Next]_vars, NEW q \in Requests, pc[q] = "idle"
  PROVE  pc'[q] = "idle" \/ Arrivals(q)
<1>1. ~Handle(q) /\ ~Abort(q)
  BY DEF Running, Handle, LookupContract, GetIdempotency, ReplayReceipt, SelectContract,
     InsertContract, GetBaselines, SaveReceipt, WriteAudit, SaveIdempotency, Reply, Abort,
     Observe, SaveBaseline
<1> QED
  BY <1>1, Moves DEF IInv, OthersUntouched

\* A request keeps what it asked for, and the contract it is past looking up.
LEMMA Keeps ==
  ASSUME IInv, [Next]_vars, NEW q \in Requests, pc[q] # "idle"
  PROVE  /\ pc'[q] # "idle"
         /\ input'[q] = input[q]
         /\ Endpoint(q)' = Endpoint(q)
         /\ Tenant(q)' = Tenant(q)
         /\ Verifies(q)' <=> Verifies(q)
         /\ IsRegistered(q)' <=> IsRegistered(q)
         /\ pc[q] # "lookup" => contract'[q] = contract[q]
<1>0. TypeOK
  BY DEF IInv
<1>1. pc'[q] # "idle" /\ input'[q] = input[q]
  BY <1>0, Monotone
<1>2. ASSUME NEW r \in Requests, (pc[r] = "idle" /\ Arrivals(r)) \/ LookupContract(r),
             pc[q] # "lookup"
      PROVE  contract'[q] = contract[q]
  <2>1. pc[r] \in {"idle", "lookup"}
    BY <1>2 DEF LookupContract
  <2>2. OthersUntouched(r)
    BY <1>0, <1>2, Others DEF Handle
  <2> QED
    BY <1>2, <2>1, <2>2 DEF OthersUntouched
<1>3. pc[q] # "lookup" => contract'[q] = contract[q]
  BY <1>2, Writers
<1> QED
  BY <1>1, <1>3 DEF Endpoint, Tenant, Verifies, IsRegistered

\* Once its contract is stored or found, a request never looks for one again.
LEMMA NeverEarlyAgain ==
  ASSUME IInv, [Next]_vars, NEW q \in Requests, pc[q] \notin Early
  PROVE  pc'[q] \notin Early
<1>0. TypeOK
  BY DEF IInv
<1>1. CASE Handle(q) \/ Abort(q)
  <2>1. \A label : Goto(q, label) => pc'[q] = label
    BY <1>0 DEF TypeOK, Goto
  <2>2. CASE LookupContract(q) \/ GetIdempotency(q) \/ ReplayReceipt(q)
    BY <2>2 DEF Early, LookupContract, GetIdempotency, ReplayReceipt
  <2>3. CASE SelectContract(q) \/ InsertContract(q)
    BY <2>3 DEF Early, SelectContract, InsertContract
  <2>4. CASE \E c \in Conditions : Observe(q, c) \/ SaveBaseline(q, c)
    <3>1. PICK c \in Conditions : Observe(q, c) \/ SaveBaseline(q, c)
      BY <2>4
    <3>2. CASE Observe(q, c)
      BY <1>0, <2>1, <3>2 DEF TypeOK, Early, Observe
    <3>3. CASE SaveBaseline(q, c)
      BY <1>0, <2>1, <3>3 DEF TypeOK, Early, SaveBaseline
    <3>. QED  BY <3>1, <3>2, <3>3
  <2>5. CASE GetBaselines(q) \/ SaveReceipt(q)
    BY <1>0, <2>1, <2>5 DEF TypeOK, Early, GetBaselines, SaveReceipt
  <2>6. CASE WriteAudit(q)
    BY <1>0, <2>1, <2>6 DEF TypeOK, Early, WriteAudit
  <2>7. CASE SaveIdempotency(q) \/ Reply(q) \/ Abort(q)
    BY <2>1, <2>7 DEF Early, SaveIdempotency, Reply, Abort
  <2>. QED  BY <1>1, <2>2, <2>3, <2>4, <2>5, <2>6, <2>7 DEF Handle
<1>2. pc[q] # "idle"
  BY DEF Early
<1> QED
  BY <1>0, <1>1, <1>2, Moves DEF OthersUntouched

\* Where each label is reached from.
LEMMA Comes ==
  ASSUME IInv, [Next]_vars, NEW q \in Requests, pc'[q] # pc[q], pc[q] # "idle"
  PROVE  Handle(q) \/ Abort(q)
BY Moves DEF IInv, OthersUntouched


-----------------------------------------------------------------------------
(* Ids.                                                                    *)

\* An answer, a refusal or a death is final.
LEMMA FinishedStays ==
  ASSUME IInv, [Next]_vars, NEW q \in Requests, pc[q] \in Finished
  PROVE  pc'[q] = pc[q]
<1>1. ~Handle(q) /\ ~Abort(q) /\ pc[q] # "idle"
  BY DEF Finished, Running, Handle, LookupContract, GetIdempotency, ReplayReceipt, SelectContract,
     InsertContract, GetBaselines, SaveReceipt, WriteAudit, SaveIdempotency, Reply, Abort,
     Observe, SaveBaseline
<1> QED
  BY <1>1, Comes

\* The contract in hand keeps its id.
LEMMA IdStep ==
  ASSUME GInv, [Next]_vars
  PROVE  IdHeld'
<1> SUFFICES ASSUME NEW q \in Requests PROVE IdOK(q)'
  BY DEF IdHeld
<1> USE DEF GInv
<1>0. TypeOK /\ HandlerOK(q) /\ IdOK(q)
  BY DEF IInv, HandlerInv, IdHeld
<1>1. CASE pc[q] = "idle" /\ pc'[q] = "idle"
  BY <1>1 DEF IdOK, Verifies
<1>2. CASE Arrivals(q)
  BY <1>0, <1>2, Arrived DEF IdOK
<1>3. CASE pc[q] # "idle" /\ pc[q] # "lookup"
  <2>1. /\ pc'[q] # "idle" /\ input'[q] = input[q] /\ Endpoint(q)' = Endpoint(q)
        /\ (Verifies(q)' <=> Verifies(q)) /\ contract'[q] = contract[q]
    BY <1>3, Keeps
  <2>2. pc[q] \in {"refused", "aborted"} => pc'[q] = pc[q]
    BY FinishedStays DEF Finished
  <2> QED
    BY <1>0, <1>3, <2>1, <2>2 DEF IdOK
<1>4. CASE pc[q] = "lookup"
  <2>1. /\ pc'[q] # "idle" /\ input'[q] = input[q] /\ Endpoint(q)' = Endpoint(q)
        /\ (Verifies(q)' <=> Verifies(q))
    BY <1>4, Keeps
  <2>2. Endpoint(q) = "verifyRun" /\ input[q].body.id # Absent
    BY <1>0, <1>4 DEF HandlerOK, IdOK
  <2>3. CASE LookupContract(q)
    <3>1. ASSUME NEW row \in Stored(Tenant(q), input[q].body.id)
          PROVE  row.contract.id = input[q].body.id
      BY DEF Stored
    <3>2. \/ pc'[q] = "refused"
          \/ \E row \in Stored(Tenant(q), input[q].body.id) : contract'[q] = row.contract
      BY <1>0, <2>3 DEF LookupContract, Goto, TypeOK
    <3>3. pc'[q] = "refused" \/ contract'[q].id = input[q].body.id
      BY <3>1, <3>2
    <3>4. /\ Verifies(q)' /\ input'[q].body.id # Absent
          /\ pc'[q] # "refused" => contract'[q].id = input'[q].body.id
      BY <1>4, <2>1, <2>2, <3>3 DEF Verifies
    <3> QED
      BY <3>4 DEF IdOK
  <2>4. CASE ~LookupContract(q)
    <3>1. pc'[q] = "lookup" \/ pc'[q] = "aborted"
      <4>1. Handle(q) => LookupContract(q)
        BY <1>4 DEF Handle, GetIdempotency, ReplayReceipt, SelectContract, InsertContract,
           GetBaselines, SaveReceipt, WriteAudit, SaveIdempotency, Reply, Observe, SaveBaseline
      <4>2. Abort(q) => pc'[q] = "aborted"
        BY <1>0 DEF Abort, Goto, TypeOK
      <4> QED
        BY <1>4, <2>4, <4>1, <4>2, Comes
    <3> QED
      BY <1>0, <1>4, <2>1, <2>2, <3>1 DEF IdOK
  <2> QED
    BY <2>3, <2>4
<1> QED
  BY <1>1, <1>2, <1>3, <1>4, FirstStep

\* A row under a drawn id is inserted by the request that drew it, or by one that
\* names the id, when the first has stored it.
LEMMA DrawnStep ==
  ASSUME GInv, [Next]_vars
  PROVE  DrawnRows'
<1> USE DEF GInv
<1>0. TypeOK /\ HandlerInv /\ IdHeld /\ NamedHeld /\ DrawnRows
  BY DEF IInv
<1>1. ASSUME NEW row \in contracts, row.contract.id \in Requests
      PROVE  pc'[row.contract.id] \notin Early
  <2>1. pc[row.contract.id] \notin Early
    BY <1>0, <1>1 DEF DrawnRows
  <2> QED
    BY <1>1, <2>1, NeverEarlyAgain
<1>2. ASSUME NEW r \in Requests, InsertContract(r), NEW id \in Requests,
             id = contract[r].id, Stored(Tenant(r), id) = {}
      PROVE  pc'[id] \notin Early
  <2>1. pc[r] = "insert" /\ IdOK(r) /\ NamedOK(r)
    BY <1>0, <1>2 DEF InsertContract, IdHeld, NamedHeld
  <2>2. CASE input[r].body.id = Absent
    <3>1. id = r
      BY <1>2, <2>1, <2>2 DEF IdOK
    <3>2. pc'[r] \in {"audit", "observe"}
      BY <1>0, <1>2, <2>1 DEF InsertContract, Goto, TypeOK, AfterSave
    <3> QED
      BY <3>1, <3>2 DEF Early
  <2>3. CASE input[r].body.id # Absent
    <3>1. pc[id] \notin Early
      BY <1>2, <2>1, <2>3 DEF IdOK, NamedOK
    <3> QED
      BY <3>1, NeverEarlyAgain
  <2> QED
    BY <2>2, <2>3
<1>3. ASSUME NEW r \in Requests, InsertContract(r)
      PROVE  \/ contracts' = contracts
             \/ /\ Stored(Tenant(r), contract[r].id) = {}
                /\ contracts' = contracts \cup {HeldRow(r)}
  BY <1>3 DEF InsertContract, HeldRow
<1>4. ASSUME NEW r \in Requests
      PROVE  HeldRow(r).contract.id = contract[r].id
  BY DEF HeldRow
<1>5. ASSUME NEW row \in contracts', row.contract.id \in Requests
      PROVE  pc'[row.contract.id] \notin Early
  <2>1. CASE row \in contracts
    BY <1>1, <1>5, <2>1
  <2>2. CASE row \notin contracts
    <3>1. PICK r \in Requests : InsertContract(r)
      BY <1>5, <2>2, Writers
    <3>2. row = HeldRow(r) /\ Stored(Tenant(r), contract[r].id) = {}
      BY <1>3, <1>5, <2>2, <3>1
    <3>3. row.contract.id = contract[r].id
      BY <1>4, <3>2
    <3> QED
      BY <1>2, <1>5, <3>1, <3>2, <3>3
  <2> QED
    BY <2>1, <2>2
<1> QED
  BY <1>5 DEF DrawnRows

\* The request behind a stored drawn id has stored it.
LEMMA DrawnArrived ==
  ASSUME DrawnRows, NEW t, NEW id \in Requests, Stored(t, id) # {}
  PROVE  pc[id] \notin Early
BY DEF DrawnRows, Stored

\* Nothing is stored under a drawn id before its own request stores it.
LEMMA DrawnUnstored ==
  ASSUME DrawnRows, NEW t, NEW id \in Requests, pc[id] \in Early
  PROVE  Stored(t, id) = {}
BY DEF DrawnRows, Stored

\* Baselines that are complete stay complete.
LEMMA CompleteStays ==
  ASSUME IInv, [Next]_vars, NEW id \in Requests, pc[id] # "idle", Complete(id)
  PROVE  Complete(id)'
<1>1. Tenant(id)' = Tenant(id)
  BY Keeps
<1>2. <<Tenant(id), id>> \in Tenants \X ContractIds
  BY DEF IInv, HandlerInv, HandlerOK, Inputs, Tenant, ContractIds
<1> QED
  BY <1>1, <1>2, Stays, ConditionsAssumption DEF Complete

\* What is true of a stored drawn id stays true.
LEMMA NamedCarries ==
  ASSUME GInv, [Next]_vars, NEW id \in Requests, pc[id] \notin Early,
         IsRegistered(id) => Complete(id)
  PROVE  /\ pc'[id] \notin Early
         /\ IsRegistered(id)' => Complete(id)'
<1>1. pc[id] # "idle" /\ IInv
  BY DEF Early, GInv
<1>2. pc'[id] \notin Early
  BY <1>1, NeverEarlyAgain
<1> QED
  BY <1>1, <1>2, Keeps, CompleteStays

\* Whoever names a drawn id has been shown it.
LEMMA NamedStep ==
  ASSUME GInv, [Next]_vars
  PROVE  NamedHeld'
<1> SUFFICES ASSUME NEW q \in Requests PROVE NamedOK(q)'
  BY DEF NamedHeld
<1> USE DEF GInv
<1>0. TypeOK
  BY DEF IInv
<1>1. CASE pc[q] = "idle" /\ pc'[q] = "idle"
  BY <1>1 DEF NamedOK
<1>2. CASE pc[q] # "idle"
  <2>1. input'[q] = input[q]
    BY <1>2, Keeps
  <2>2. NamedOK(q)
    BY DEF NamedHeld
  <2> QED
    BY <1>2, <2>1, <2>2, NamedCarries DEF NamedOK
<1>3. CASE Arrivals(q)
  <2>1. PICK id : id = input'[q].body.id
    OBVIOUS
  <2>2. SUFFICES ASSUME id \in Requests
                 PROVE  pc'[id] \notin Early /\ (IsRegistered(id)' => Complete(id)')
    BY <2>1 DEF NamedOK
  <2>3. id \in Nameable /\ id \notin CallerIds
    BY <1>0, <1>3, <2>1, <2>2, Arrived, NamesAssumption
  <2>4. ASSUME NEW a \in audits, a.action \in {"registered", "compiled"}, a.object = id
        PROVE  pc[id] \notin Early /\ (IsRegistered(id) => Complete(id))
    <3>1. Stored(a.tenant, id) # {}
      BY <2>4 DEF AuditIsTruthful
    <3>2. IsRegistered(id) => Complete(id)
      BY <2>4 DEF ShownComplete
    <3> QED
      BY <2>2, <3>1, <3>2, DrawnArrived
  <2>5. ASSUME NEW x \in receipts, x.contract.id = id
        PROVE  pc[id] \notin Early /\ (IsRegistered(id) => Complete(id))
    <3>1. [tenant |-> x.tenant, contract |-> x.contract] \in Stored(x.tenant, id)
      BY <2>5 DEF IInv, ReceiptOrigin, Stored
    <3>2. IsRegistered(id) => Complete(id)
      BY <2>5 DEF ShownComplete
    <3> QED
      BY <2>2, <3>1, <3>2, DrawnArrived
  <2>6. \/ \E a \in audits : a.action \in {"registered", "compiled"} /\ a.object = id
        \/ \E x \in receipts : x.contract.id = id
    BY <2>3 DEF Nameable
  <2>7. pc[id] \notin Early /\ (IsRegistered(id) => Complete(id))
    BY <2>4, <2>5, <2>6
  <2> QED
    BY <2>2, <2>7, NamedCarries
<1> QED
  BY <1>1, <1>2, <1>3, FirstStep


\* The last baseline of a registration makes them complete.
LEMMA LastBaseline ==
  ASSUME GInv, NEW r \in Requests, NEW c \in Conditions, SaveBaseline(r, c),
         pc'[r] = "audit"
  PROVE  Complete(r)'
<1> USE DEF GInv
<1>0. TypeOK /\ HandlerOK(r) /\ IdOK(r) /\ pc[r] = "baseline"
  BY DEF IInv, HandlerInv, IdHeld, SaveBaseline
<1> DEFINE k == <<Tenant(r), r>>
<1>1. ~Verifies(r) /\ Targets(r) = RequireChange
  BY <1>0 DEF HandlerOK, Verifies, Targets
<1>2. contract[r].id = r
  BY <1>0, <1>1 DEF IdOK
<1>3. \A d \in RequireChange : observed[r][d] # Absent
  BY <1>0, <1>1, AbsentAssumption DEF HandlerOK
<1>4. k \in Tenants \X ContractIds
  BY <1>0 DEF HandlerOK, Inputs, Tenant, ContractIds
<1>5. /\ baselines' = [baselines EXCEPT ![k][c] = observed[r][c]]
      /\ {d \in RequireChange : baselines[k][d] # observed[r][d]} = {c}
  BY <1>0, <1>2 DEF SaveBaseline, Goto, TypeOK
<1>6. ASSUME NEW d \in RequireChange PROVE baselines'[k][d] = observed[r][d]
  BY <1>0, <1>4, <1>5, ConditionsAssumption DEF TypeOK, Observed
<1>7. Tenant(r)' = Tenant(r)
  BY <1>0 DEF SaveBaseline, Tenant
<1> QED
  BY <1>3, <1>6, <1>7 DEF Complete

\* A registered run whose handler shows its id has all its baselines.
LEMMA ShownStep ==
  ASSUME GInv, [Next]_vars
  PROVE  ShownComplete'
<1> USE DEF GInv
<1> DEFINE Shows(r) == /\ pc[r] \in {"audit", "reply", "answered"}
                       /\ Endpoint(r) = "register"
<1>0. TypeOK /\ HandlerInv /\ IdHeld /\ NamedHeld /\ DrawnRows /\ ShownComplete /\ IInv
  BY DEF IInv
<1>1. ASSUME NEW r \in Requests, Shows(r)' PROVE Complete(r)'
  <2>1. CASE Shows(r)
    <3>1. Complete(r) /\ pc[r] # "idle"
      BY <1>0, <2>1 DEF ShownComplete
    <3> QED
      BY <3>1, CompleteStays
  <2>2. CASE ~Shows(r) /\ pc[r] = "idle"
    <3>1. pc'[r] \in {"idle", "select", "lookup", "idempotency"}
      BY <1>0, <2>2, FirstStep, Arrived
    <3> QED
      BY <1>1, <3>1
  <2>3. CASE ~Shows(r) /\ pc[r] # "idle"
    <3>1. Endpoint(r) = "register" /\ pc'[r] # pc[r] /\ ~Verifies(r)
      BY <1>1, <2>3, Keeps DEF Verifies
    <3>2. HandlerOK(r) /\ Targets(r) = RequireChange /\ pc'[r] \in {"audit", "reply", "answered"}
      BY <1>0, <1>1, <3>1 DEF HandlerInv, Targets
    <3>3. pc[r] \notin {"audit", "reply", "answered"}
      BY <2>3, <3>1
    <3>4. CASE \E c \in Conditions : SaveBaseline(r, c)
      <4>1. pc'[r] = "audit"
        BY <1>0, <3>2, <3>4 DEF SaveBaseline, Goto, TypeOK
      <4> QED
        BY <3>4, <4>1, LastBaseline
    <3>5. CASE RequireChange = {}
      BY <3>5 DEF Complete
    <3>6. CASE SelectContract(r) \/ InsertContract(r)
      BY <1>0, <3>1, <3>2, <3>5, <3>6 DEF SelectContract, InsertContract, Goto, TypeOK, AfterSave
    <3>7. CASE \/ LookupContract(r) \/ GetIdempotency(r) \/ ReplayReceipt(r) \/ GetBaselines(r)
               \/ SaveReceipt(r) \/ WriteAudit(r) \/ SaveIdempotency(r) \/ Reply(r) \/ Abort(r)
               \/ \E c \in Conditions : Observe(r, c)
      BY <1>0, <3>1, <3>2, <3>3, <3>7
         DEF HandlerOK, LookupContract, GetIdempotency, ReplayReceipt, GetBaselines, SaveReceipt,
             WriteAudit, SaveIdempotency, Reply, Abort, Observe, Goto, TypeOK
    <3>8. Handle(r) \/ Abort(r)
      BY <1>0, <2>3, <3>1, Comes
    <3> QED
      BY <3>4, <3>6, <3>7, <3>8 DEF Handle
  <2> QED
    BY <2>1, <2>2, <2>3
<1>2. ASSUME NEW id, IsRegistered(id)', IsRegistered(id) => Complete(id),
             id \in Requests => pc[id] \notin Early
      PROVE  Complete(id)'
  <2>1. id \in Requests
    BY <1>2 DEF IsRegistered
  <2> QED
    BY <1>2, <2>1, NamedCarries
<1>3. ASSUME NEW a \in audits', a.action # "verified", IsRegistered(a.object)'
      PROVE  Complete(a.object)'
  <2>1. CASE a \in audits
    <3>1. a.object \in Requests => pc[a.object] \notin Early
      BY <1>0, <1>3, <2>1, DrawnArrived DEF AuditIsTruthful
    <3>2. IsRegistered(a.object) => Complete(a.object)
      BY <1>0, <1>3, <2>1 DEF ShownComplete
    <3> QED
      BY <1>2, <1>3, <3>1, <3>2
  <2>2. CASE a \notin audits
    <3>1. PICK r \in Requests : WriteAudit(r)
      BY <1>3, <2>2, Writers
    <3>2. a = AuditRow(r) /\ pc[r] = "audit"
      BY <1>3, <2>2, <3>1 DEF WriteAudit
    <3>3. IdOK(r) /\ HandlerOK(r)
      BY <1>0 DEF IdHeld, HandlerInv
    <3>4. Endpoint(r) \in {"compile", "register"} /\ ~Verifies(r) /\ a.object = contract[r].id
      BY <1>3, <3>2, <3>3 DEF AuditRow, Verifies, HandlerOK, Inputs, Bodies, Endpoint
    <3>5. a.object = r
      BY <3>2, <3>3, <3>4 DEF IdOK
    <3>6. IsRegistered(r)
      BY <1>0, <1>3, <3>2, <3>5, Keeps
    <3>7. Complete(r)
      BY <1>0, <3>2, <3>6 DEF ShownComplete, IsRegistered
    <3> QED
      BY <1>0, <3>2, <3>5, <3>7, CompleteStays
  <2> QED
    BY <2>1, <2>2
<1>4. ASSUME NEW x \in receipts', IsRegistered(x.contract.id)'
      PROVE  Complete(x.contract.id)'
  <2>1. CASE x \in receipts
    <3>1. [tenant |-> x.tenant, contract |-> x.contract] \in contracts
      BY <1>0, <2>1 DEF IInv, ReceiptOrigin
    <3>2. x.contract.id \in Requests => pc[x.contract.id] \notin Early
      BY <1>0, <3>1 DEF DrawnRows
    <3>3. IsRegistered(x.contract.id) => Complete(x.contract.id)
      BY <1>0, <2>1 DEF ShownComplete
    <3> QED
      BY <1>2, <1>4, <3>2, <3>3
  <2>2. CASE x \notin receipts
    <3>1. PICK r \in Requests : SaveReceipt(r) /\ x = NewReceipt(r)
      BY <1>4, <2>2, TableSteps DEF SaveReceipt
    <3>2. x.contract.id = contract[r].id /\ pc[r] = "receipt"
      BY <3>1 DEF NewReceipt, SaveReceipt
    <3>3. IdOK(r) /\ HandlerOK(r) /\ NamedOK(r) /\ Verifies(r)
      BY <1>0, <3>2 DEF IdHeld, HandlerInv, NamedHeld, HandlerOK
    <3>4. CASE input[r].body.id = Absent
      <4>1. x.contract.id = r
        BY <3>2, <3>3, <3>4 DEF IdOK
      <4>2. ~IsRegistered(r)
        BY <3>3 DEF Verifies, IsRegistered
      <4> QED
        BY <1>0, <1>4, <3>2, <4>1, <4>2, Keeps
    <3>5. CASE input[r].body.id # Absent
      <4>1. x.contract.id = input[r].body.id /\ x.contract.id \in Requests
        BY <1>4, <3>2, <3>3, <3>5 DEF IdOK, IsRegistered
      <4>2. /\ pc[x.contract.id] \notin Early
            /\ IsRegistered(x.contract.id) => Complete(x.contract.id)
        BY <3>2, <3>3, <4>1 DEF NamedOK
      <4> QED
        BY <1>2, <1>4, <4>2
    <3> QED
      BY <3>4, <3>5
  <2> QED
    BY <2>1, <2>2
<1> QED
  BY <1>1, <1>3, <1>4 DEF ShownComplete

\* A baseline row is written once, by the registration that observed it.
LEMMA BaselineStep ==
  ASSUME GInv, [Next]_vars
  PROVE  BaselineRows'
<1> USE DEF GInv
<1>0. TypeOK /\ HandlerInv /\ IdHeld /\ BaselineRows /\ IInv
  BY DEF IInv
<1> SUFFICES ASSUME NEW t \in Tenants, NEW id \in ContractIds, NEW c \in Conditions,
                    baselines'[<<t, id>>][c] # Absent
             PROVE  IsRegistered(id)' /\ t = Tenant(id)' /\ baselines'[<<t, id>>][c] = observed'[id][c]
  BY DEF BaselineRows
<1>1. CASE baselines'[<<t, id>>][c] = baselines[<<t, id>>][c]
  <2>1. /\ IsRegistered(id) /\ t = Tenant(id)
        /\ baselines[<<t, id>>][c] = observed[id][c]
    BY <1>0, <1>1 DEF BaselineRows
  <2>2. id \in Requests /\ pc[id] # "idle" /\ observed[id][c] # Absent
    BY <1>1, <2>1 DEF IsRegistered
  <2> QED
    BY <1>0, <1>1, <2>1, <2>2, Keeps, Stays
<1>2. CASE baselines'[<<t, id>>][c] # baselines[<<t, id>>][c]
  <2>1. PICK r \in Requests, d \in Conditions : SaveBaseline(r, d)
    BY <1>2, Writers
  <2>2. /\ pc[r] = "baseline" /\ input' = input /\ observed' = observed
        /\ baselines' = [baselines EXCEPT ![<<Tenant(r), contract[r].id>>][d] = observed[r][d]]
    BY <2>1 DEF SaveBaseline
  <2>3. HandlerOK(r) /\ IdOK(r) /\ Endpoint(r) = "register" /\ ~Verifies(r)
    BY <1>0, <2>2 DEF HandlerInv, IdHeld, HandlerOK, Verifies
  <2>4. contract[r].id = r
    BY <2>2, <2>3 DEF IdOK
  <2>5. t = Tenant(r) /\ id = r /\ c = d /\ baselines'[<<t, id>>][c] = observed[r][c]
    BY <1>0, <1>2, <2>2, <2>4 DEF TypeOK, Observed
  <2>6. IsRegistered(r)' /\ Tenant(r)' = Tenant(r)
    BY <1>0, <2>2, <2>3, Keeps DEF IsRegistered
  <2> QED
    BY <2>2, <2>5, <2>6
<1> QED
  BY <1>1, <1>2


-----------------------------------------------------------------------------
(* Observations and baselines.                                             *)

\* A request that may have observed something never goes back to before.
LEMMA NeverBlindAgain ==
  ASSUME IInv, [Next]_vars, NEW q \in Requests, pc'[q] \in Early \cup {"baselines"}
  PROVE  pc[q] \in Early \cup {"baselines"}
<1>0. TypeOK
  BY DEF IInv
<1>1. CASE Handle(q) \/ Abort(q)
  <2>1. \A label : Goto(q, label) => pc'[q] = label
    BY <1>0 DEF TypeOK, Goto
  <2>2. CASE LookupContract(q) \/ GetIdempotency(q) \/ ReplayReceipt(q)
    BY <2>2 DEF Early, LookupContract, GetIdempotency, ReplayReceipt
  <2>3. CASE SelectContract(q) \/ InsertContract(q) \/ GetBaselines(q)
    BY <2>3 DEF Early, SelectContract, InsertContract, GetBaselines
  <2>4. CASE \E c \in Conditions : Observe(q, c) \/ SaveBaseline(q, c)
    <3>1. PICK c \in Conditions : Observe(q, c) \/ SaveBaseline(q, c)
      BY <2>4
    <3>2. CASE Observe(q, c)
      BY <1>0, <2>1, <3>2 DEF TypeOK, Early, Observe
    <3>3. CASE SaveBaseline(q, c)
      BY <1>0, <2>1, <3>3 DEF TypeOK, Early, SaveBaseline
    <3>. QED  BY <3>1, <3>2, <3>3
  <2>5. CASE SaveReceipt(q)
    BY <1>0, <2>1, <2>5 DEF TypeOK, Early, SaveReceipt
  <2>6. CASE WriteAudit(q)
    BY <1>0, <2>1, <2>6 DEF TypeOK, Early, WriteAudit
  <2>7. CASE SaveIdempotency(q) \/ Reply(q) \/ Abort(q)
    BY <2>1, <2>7 DEF Early, SaveIdempotency, Reply, Abort
  <2>. QED  BY <1>1, <2>2, <2>3, <2>4, <2>5, <2>6, <2>7 DEF Handle
<1>2. CASE pc[q] = "idle" \/ pc'[q] = pc[q]
  BY <1>2 DEF Early
<1> QED
  BY <1>1, <1>2, Comes

\* An observation is of the provider's state at that moment.
LEMMA Observing ==
  ASSUME TypeOK, NEW q \in Requests, NEW c \in Conditions, Observe(q, c)
  PROVE  /\ \A d \in Conditions \ {c} : observed'[q][d] = observed[q][d]
         /\ observed[q][c] = Absent
         /\ pc[q] = "observe"
         /\ world' = world /\ began' = began
         /\ observed'[q][c].status # "UNKNOWN" =>
              /\ observed'[q][c].epoch = world[c]
              /\ observed'[q][c].status = "PASS" <=> Satisfied(world[c])
<1>1. PICK o \in Outcomes(c) : observed' = [observed EXCEPT ![q][c] = o]
  BY DEF Observe
<1>2. o.status # "UNKNOWN" => o.epoch = world[c] /\ (o.status = "PASS" <=> Satisfied(world[c]))
  <2>1. \/ o = [status |-> IF Satisfied(world[c]) THEN "PASS" ELSE "FAIL", epoch |-> world[c]]
        \/ o = [status |-> "UNKNOWN", epoch |-> 0]
    BY DEF Outcomes
  <2> QED
    BY <2>1
<1>3. observed'[q][c] = o /\ \A d \in Conditions \ {c} : observed'[q][d] = observed[q][d]
  BY <1>1 DEF TypeOK, Observed
<1> QED
  BY <1>2, <1>3 DEF Observe

\* What was observed since the request arrived, was observed since then.
LEMMA ObservedStep ==
  ASSUME GInv, [Next]_vars
  PROVE  ObservedHeld'
<1> SUFFICES ASSUME NEW q \in Requests PROVE ObservedOK(q)'
  BY DEF ObservedHeld
<1> USE DEF GInv
<1>0. TypeOK /\ IInv /\ ObservedOK(q)
  BY DEF IInv, ObservedHeld
<1>1. ASSUME pc'[q] \in Early \cup {"baselines"} PROVE observed'[q] = NothingObserved
  <2>1. pc[q] \in Early \cup {"baselines"} /\ observed[q] = NothingObserved
    BY <1>0, <1>1, NeverBlindAgain DEF ObservedOK
  <2>2. ASSUME NEW r \in Requests, NEW d \in Conditions, Observe(r, d)
        PROVE  observed'[q] = observed[q]
    <3>1. r # q
      BY <2>1, <2>2 DEF Observe, Early
    <3> QED
      BY <1>0, <2>2, <3>1 DEF Observe, TypeOK
  <2> QED
    BY <2>1, <2>2, Writers
<1>2. ASSUME NEW c \in Conditions
      PROVE  /\ world[c] \in Nat /\ world'[c] \in Nat /\ world[c] <= world'[c]
             /\ began[q][c] \in Nat /\ began[q][c] <= world[c]
  BY <1>0, TypeStep, Stays, BoundAssumption DEF IInv, TypeOK, ObservedOK
<1>3. ASSUME NEW c \in Conditions
      PROVE  began'[q][c] = began[q][c] \/ began'[q][c] = world[c]
  <2>1. ASSUME NEW r \in Requests, Arrivals(r)
        PROVE  began'[q] = began[q] \/ began'[q] = world
    BY <1>0, <2>1, Arrived DEF TypeOK
  <2> QED
    BY <2>1, Writers
<1>4. ASSUME NEW c \in Conditions PROVE began'[q][c] <= world'[c]
  BY <1>2, <1>3
<1>5. ASSUME NEW c \in Conditions, observed'[q][c] # Absent
      PROVE  Grounded(observed[q][c], c, began[q][c])'
  <2>1. CASE observed'[q][c] = observed[q][c]
    <3>1. pc[q] # "idle"
      BY <1>0, <1>5, <2>1 DEF ObservedOK, Early, NothingObserved
    <3>2. began'[q] = began[q]
      BY <1>0, <3>1, Stays
    <3>3. Grounded(observed[q][c], c, began[q][c])
      BY <1>0, <1>5, <2>1 DEF ObservedOK
    <3>4. observed[q][c].epoch \in Nat
      BY <1>0, <1>5, <2>1, BoundAssumption DEF TypeOK, Observed, Observations
    <3> QED
      BY <1>2, <2>1, <3>2, <3>3, <3>4 DEF Grounded
  <2>2. CASE observed'[q][c] # observed[q][c]
    <3>1. PICK r \in Requests, d \in Conditions : Observe(r, d)
      BY <2>2, Writers
    <3>2. r = q /\ d = c
      BY <1>0, <2>2, <3>1 DEF Observe, TypeOK, Observed
    <3>3. /\ world' = world /\ began' = began
          /\ observed'[q][c].status # "UNKNOWN" =>
              /\ observed'[q][c].epoch = world[c]
              /\ observed'[q][c].status = "PASS" <=> Satisfied(world[c])
      BY <1>0, <3>1, <3>2, Observing
    <3> QED
      BY <1>2, <3>3 DEF Grounded
  <2> QED
    BY <2>1, <2>2
<1> QED
  BY <1>1, <1>4, <1>5 DEF ObservedOK

\* A drawn id that is verified as a run has been stored, with all its baselines if
\* it is one.
LEMMA RunNamed ==
  ASSUME GInv, NEW q \in Requests, pc[q] \notin {"idle", "lookup", "refused", "aborted"},
         Endpoint(q) = "verifyRun", contract[q].id \in Requests
  PROVE  /\ pc[contract[q].id] # "idle"
         /\ IsRegistered(contract[q].id) => Complete(contract[q].id)
<1>1. IdOK(q) /\ NamedOK(q)
  BY DEF GInv, IdHeld, NamedHeld
<1>2. contract[q].id = input[q].body.id
  BY <1>1 DEF IdOK
<1>3. /\ pc[contract[q].id] \notin Early
      /\ IsRegistered(contract[q].id) => Complete(contract[q].id)
  BY <1>1, <1>2 DEF NamedOK
<1> QED
  BY <1>3 DEF Early

\* The baselines in hand are those of the run, all of them, and older than what
\* is observed after they were read.
LEMMA KnownStep ==
  ASSUME GInv, [Next]_vars
  PROVE  KnownHeld'
<1> SUFFICES ASSUME NEW q \in Requests PROVE KnownOK(q)'
  BY DEF KnownHeld
<1> USE DEF GInv
<1>0. TypeOK /\ IInv /\ KnownOK(q) /\ ObservedOK(q) /\ HandlerOK(q)
  BY DEF IInv, ObservedHeld, KnownHeld, HandlerInv
<1>1. known'[q] = known[q] \/ GetBaselines(q)
  BY <1>0, Writers DEF GetBaselines, TypeOK
<1>2. ASSUME GetBaselines(q)
      PROVE  /\ pc[q] = "baselines" /\ pc'[q] = "observe" /\ observed' = observed
             /\ contract' = contract /\ input' = input
             /\ known'[q] = baselines[<<Tenant(q), contract[q].id>>]
             /\ observed[q] = NothingObserved
  BY <1>0, <1>2 DEF GetBaselines, Goto, TypeOK, ObservedOK
<1>3. ASSUME pc'[q] \in {"select", "insert"} PROVE Endpoint(q)' # "verifyRun"
  <2>1. CASE pc[q] = "idle"
    BY <1>0, <1>3, <2>1, FirstStep, Arrived
  <2>2. CASE pc[q] \in {"select", "insert"}
    BY <1>0, <2>2, Keeps DEF KnownOK
  <2>3. CASE pc[q] \notin {"idle", "select", "insert"}
    <3>1. Handle(q) \/ Abort(q)
      BY <1>0, <1>3, <2>3, Comes
    <3>2. GetIdempotency(q) \/ ReplayReceipt(q)
      BY <1>0, <1>3, <2>3, <3>1
         DEF TypeOK, Handle, Goto, LookupContract, SelectContract, InsertContract, GetBaselines,
             SaveReceipt, WriteAudit, SaveIdempotency, Reply, Abort, Observe, SaveBaseline, AfterSave
    <3>3. Endpoint(q) # "verifyRun"
      BY <1>0, <1>3, <3>2 DEF TypeOK, Goto, GetIdempotency, ReplayReceipt, AfterMiss
    <3> QED
      BY <1>0, <2>3, <3>3, Keeps
  <2> QED
    BY <2>1, <2>2, <2>3
<1>4. ASSUME pc'[q] \in Early \cup {"baselines"} PROVE known'[q] = NothingObserved
  BY <1>0, <1>1, <1>2, <1>4, NeverBlindAgain DEF KnownOK, Early
<1>5. ASSUME NEW c \in Conditions, known'[q][c] # Absent
      PROVE  /\ IsRun(Tenant(q), contract[q].id)'
             /\ known'[q][c] = observed'[contract'[q].id][c]
             /\ /\ known'[q][c].status # "UNKNOWN"
                /\ observed'[q][c] # Absent
                /\ observed'[q][c].status # "UNKNOWN"
                => known'[q][c].epoch <= observed'[q][c].epoch
  <2>1. CASE GetBaselines(q)
    <3>1. HandlerOK(q) /\ contract[q] \in Contracts /\ pc[q] # "idle"
      BY <1>0, <1>2, <2>1 DEF HandlerOK
    <3>2. <<Tenant(q), contract[q].id>> \in Tenants \X ContractIds
      BY <3>1 DEF HandlerOK, Inputs, Contracts, Tenant
    <3>3. /\ IsRegistered(contract[q].id) /\ Tenant(q) = Tenant(contract[q].id)
          /\ known'[q][c] = observed[contract[q].id][c]
      BY <1>2, <1>5, <2>1, <3>2 DEF BaselineRows
    <3>4. PICK id \in Requests : id = contract[q].id /\ pc[id] # "idle"
      BY <3>3 DEF IsRegistered
    <3>6. IsRegistered(id)' /\ Tenant(q)' = Tenant(id)'
      BY <1>0, <3>1, <3>3, <3>4, Keeps
    <3>7. IsRun(Tenant(q), contract[q].id)'
      BY <1>2, <2>1, <3>4, <3>6 DEF IsRun
    <3>5. observed'[q][c] = Absent
      BY <1>2, <2>1 DEF NothingObserved
    <3> QED
      BY <1>2, <2>1, <3>3, <3>5, <3>7
  <2>2. CASE known'[q] = known[q]
    <3>1. pc[q] \notin Early \cup {"baselines"}
      BY <1>0, <1>5, <2>2 DEF KnownOK, NothingObserved
    <3>2. contract'[q] = contract[q]
      BY <1>0, <3>1, Keeps DEF Early
    <3>3. PICK id \in Requests : /\ id = contract[q].id /\ IsRegistered(id) /\ pc[id] # "idle"
                                 /\ Tenant(q) = Tenant(id)
      BY <1>0, <1>5, <2>2 DEF KnownOK, IsRun, IsRegistered
    <3>4. known[q][c] = observed[id][c] /\ observed[id][c] # Absent
      BY <1>0, <1>5, <2>2, <3>3 DEF KnownOK
    <3>5. IsRegistered(id)' /\ observed'[id][c] = observed[id][c]
      BY <1>0, <3>3, <3>4, Keeps, Stays
    <3>7. Tenant(q)' = Tenant(id)'
      BY <1>0, <3>1, <3>3, Keeps DEF Early
    <3>8. IsRun(Tenant(q), contract[q].id)'
      BY <3>2, <3>3, <3>5, <3>7 DEF IsRun
    <3>6. ASSUME known[q][c].status # "UNKNOWN", observed'[q][c] # Absent,
                 observed'[q][c].status # "UNKNOWN"
          PROVE  known[q][c].epoch <= observed'[q][c].epoch
      <4>1. CASE observed'[q][c] = observed[q][c]
        BY <1>0, <1>5, <2>2, <3>6, <4>1 DEF KnownOK
      <4>2. CASE observed'[q][c] # observed[q][c]
        <5>1. PICK r \in Requests, d \in Conditions : Observe(r, d)
          BY <4>2, Writers
        <5>2. r = q /\ d = c
          BY <1>0, <4>2, <5>1 DEF Observe, TypeOK, Observed
        <5>3. observed'[q][c].epoch = world[c]
          BY <1>0, <3>6, <5>1, <5>2, Observing
        <5>4. Grounded(observed[id][c], c, began[id][c])
          BY <3>4 DEF ObservedHeld, ObservedOK
        <5> QED
          BY <3>4, <3>6, <5>3, <5>4 DEF Grounded
      <4> QED
        BY <4>1, <4>2
    <3> QED
      BY <2>2, <3>2, <3>3, <3>4, <3>5, <3>6, <3>8
  <2> QED
    BY <1>1, <2>1, <2>2
<1>6. ASSUME pc'[q] \in {"observe", "receipt"}, Endpoint(q)' = "verifyRun",
             IsRun(Tenant(q), contract[q].id)', NEW c \in RequireChange
      PROVE  known'[q][c] # Absent
  <2>1. pc[q] # "idle"
    BY <1>0, <1>6, FirstStep, Arrived
  <2>2. Endpoint(q) = "verifyRun" /\ Verifies(q)
    BY <1>0, <1>6, <2>1, Keeps DEF Verifies
  <2>3. pc[q] \in {"baselines", "observe", "receipt"}
    <3>1. CASE pc'[q] = pc[q]
      BY <1>6, <3>1
    <3>2. CASE Handle(q) \/ Abort(q)
      BY <1>0, <1>6, <2>2, <3>2
         DEF TypeOK, KnownOK, Handle, Goto, LookupContract, GetIdempotency, ReplayReceipt,
             SelectContract, InsertContract, GetBaselines, SaveReceipt, WriteAudit,
             SaveIdempotency, Reply, Abort, Observe, SaveBaseline, AfterMiss
    <3> QED
      BY <1>0, <2>1, <3>1, <3>2, Comes
  <2>4. contract'[q] = contract[q]
    BY <1>0, <2>1, <2>3, Keeps
  <2>5. PICK id \in Requests : id = contract[q].id /\ IsRegistered(id)' /\ Tenant(q)' = Tenant(id)'
    BY <1>6, <2>4 DEF IsRun, IsRegistered
  <2>10. pc[id] # "idle" /\ (IsRegistered(id) => Complete(id))
    BY <2>2, <2>3, <2>5, RunNamed
  <2>6. /\ pc[id] # "idle" /\ Tenant(q) = Tenant(id)
        /\ IsRegistered(id) => Complete(id)
    BY <1>0, <2>1, <2>5, <2>10, Keeps
  <2>7. IsRegistered(id) /\ Complete(id)
    BY <1>0, <2>5, <2>6, Keeps
  <2>8. CASE known'[q] = known[q]
    <3>1. pc[q] # "baselines"
      <4>1. pc[q] = "baselines" => ~Abort(q) /\ ~(Handle(q) /\ ~GetBaselines(q))
        BY <1>0, <1>6 DEF TypeOK, Handle, Goto, LookupContract, GetIdempotency,
           ReplayReceipt, SelectContract, InsertContract, SaveReceipt, WriteAudit,
           SaveIdempotency, Reply, Abort, Observe, SaveBaseline
      <4>2. pc[q] = "baselines" => GetBaselines(q)
        BY <1>0, <1>6, <2>1, <4>1, Comes
      <4>3. pc[q] = "baselines" => known'[q] = baselines[<<Tenant(id), id>>] /\ known[q] = NothingObserved
        BY <1>0, <1>2, <2>5, <2>6, <4>2 DEF KnownOK
      <4> QED
        BY <2>7, <2>8, <4>3, ConditionsAssumption DEF Complete, NothingObserved
    <3> QED
      BY <1>0, <2>2, <2>3, <2>5, <2>6, <2>7, <2>8, <3>1 DEF KnownOK, IsRun
  <2>9. CASE GetBaselines(q)
    BY <1>2, <2>5, <2>6, <2>7, <2>9 DEF Complete
  <2> QED
    BY <1>1, <2>8, <2>9
<1> QED
  BY <1>3, <1>4, <1>5, <1>6 DEF KnownOK

-----------------------------------------------------------------------------
(* The audit log.                                                          *)

\* What is answered, or would be replayed, is in the audit log.
LEMMA AuditStep ==
  ASSUME GInv, [Next]_vars
  PROVE  AuditHeld'
<1> USE DEF GInv
<1>0. IInv /\ TypeOK /\ HandlerInv /\ AuditHeld /\ audits \subseteq audits' /\ contracts \subseteq contracts'
  BY Stays, Monotone DEF IInv
<1>1. ASSUME NEW q \in Requests, pc'[q] \in {"remember", "reply", "answered"}
      PROVE  AuditRow(q)' \in audits'
  <2>0. HandlerOK(q) /\ AuditOK(q)
    BY <1>0 DEF HandlerInv, AuditHeld
  <2>1. pc[q] # "idle"
    BY <1>0, <1>1, FirstStep, Arrived
  <2>2. CASE pc[q] \in {"audit", "remember", "reply", "answered"}
    <3>1. receipt'[q] = receipt[q]
      BY <1>0, <2>2, Writers DEF ReplayReceipt, SaveReceipt, TypeOK
    <3>2. AuditRow(q)' = AuditRow(q)
      BY <1>0, <2>1, <2>2, <3>1, Keeps DEF AuditRow
    <3>3. CASE pc[q] # "audit"
      BY <1>0, <2>0, <2>2, <3>2, <3>3 DEF AuditOK
    <3>4. CASE pc[q] = "audit"
      <4>1. Handle(q) \/ Abort(q)
        BY <1>0, <1>1, <2>1, <3>4, Comes
      <4>2. WriteAudit(q)
        BY <1>0, <1>1, <3>4, <4>1
           DEF TypeOK, Handle, Goto, LookupContract, GetIdempotency, ReplayReceipt, SelectContract,
               InsertContract, GetBaselines, SaveReceipt, SaveIdempotency, Reply, Abort, Observe,
               SaveBaseline
      <4> QED
        BY <3>2, <4>2 DEF WriteAudit
    <3> QED
      BY <3>3, <3>4
  <2>3. CASE pc[q] \notin {"audit", "remember", "reply", "answered"}
    <3>1. Handle(q) \/ Abort(q)
      BY <1>0, <1>1, <2>1, <2>3, Comes
    <3>2. ReplayReceipt(q) /\ pc[q] = "replay" /\ pc'[q] = "reply"
      BY <1>0, <1>1, <2>3, <3>1
         DEF TypeOK, Handle, Goto, LookupContract, GetIdempotency, ReplayReceipt, SelectContract,
             InsertContract, GetBaselines, SaveReceipt, WriteAudit, SaveIdempotency, Reply, Abort,
             Observe, SaveBaseline, AfterSave, AfterMiss
    <3>3. PICK row \in idempotency : row.tenant = Tenant(q) /\ receipt'[q].id = row.receipt
      BY <1>0, <3>2 DEF ReplayReceipt, Remembered, Goto, TypeOK, AfterMiss
    <3>4. Verifies(q) /\ Endpoint(q)' = Endpoint(q) /\ Tenant(q)' = Tenant(q)
      BY <1>0, <2>0, <2>1, <3>2, Keeps DEF HandlerOK
    <3>5. AuditRow(q)' = [tenant |-> row.tenant, action |-> "verified", object |-> row.receipt]
      BY <3>3, <3>4 DEF AuditRow, Verifies
    <3> QED
      BY <1>0, <3>5 DEF AuditHeld
  <2> QED
    BY <2>2, <2>3
<1>2. ASSUME NEW q \in Requests, pc'[q] = "audit", ~Verifies(q)'
      PROVE  Stored(Tenant(q), contract[q].id)' # {}
  <2>0. HandlerOK(q) /\ AuditOK(q) /\ ContractOK(q)
    BY <1>0 DEF HandlerInv, AuditHeld, IInv, ContractHeld
  <2>1. pc[q] # "idle"
    BY <1>0, <1>2, FirstStep, Arrived
  <2>2. ~Verifies(q) /\ Tenant(q)' = Tenant(q)
    BY <1>0, <1>2, <2>1, Keeps
  <2>3. CASE pc[q] = "audit"
    <3>1. Stored(Tenant(q), contract[q].id) # {} /\ contract'[q] = contract[q]
      BY <1>0, <2>0, <2>1, <2>2, <2>3, Keeps DEF AuditOK
    <3> QED
      BY <1>0, <2>2, <3>1 DEF Stored
  <2>4. CASE pc[q] # "audit"
    <3>1. Handle(q) \/ Abort(q)
      BY <1>0, <1>2, <2>1, <2>4, Comes
    <3>2. SelectContract(q) \/ InsertContract(q) \/ \E c \in Conditions : SaveBaseline(q, c)
      BY <1>0, <1>2, <2>0, <2>2, <2>4, <3>1
         DEF TypeOK, HandlerOK, Handle, Goto, LookupContract, GetIdempotency, ReplayReceipt,
             GetBaselines, SaveReceipt, WriteAudit, SaveIdempotency, Reply, Abort, Observe, AfterMiss
    <3>3. contract'[q] = contract[q]
      BY <3>2 DEF SelectContract, InsertContract, SaveBaseline
    <3>4. CASE SelectContract(q)
      <4>1. Stored(Tenant(q), contract[q].id) # {}
        BY <1>0, <1>2, <3>4 DEF SelectContract, Goto, TypeOK
      <4> QED
        BY <1>0, <2>2, <3>3, <4>1 DEF Stored
    <3>5. CASE InsertContract(q)
      <4>1. HeldRow(q) \in contracts'
        BY <1>0, <1>2, <3>5 DEF InsertContract, Goto, TypeOK, HeldRow
      <4>2. HeldRow(q).tenant = Tenant(q) /\ HeldRow(q).contract = contract[q]
        BY DEF HeldRow
      <4> QED
        BY <2>2, <3>3, <4>1, <4>2 DEF Stored
    <3>6. CASE \E c \in Conditions : SaveBaseline(q, c)
      <4>1. HeldRow(q) \in contracts'
        BY <1>0, <2>0, <3>6 DEF SaveBaseline, ContractOK, HeldRow
      <4>2. HeldRow(q).tenant = Tenant(q) /\ HeldRow(q).contract = contract[q]
        BY DEF HeldRow
      <4> QED
        BY <2>2, <3>3, <4>1, <4>2 DEF Stored
    <3> QED
      BY <3>2, <3>4, <3>5, <3>6
  <2> QED
    BY <2>3, <2>4
<1>3. ASSUME NEW row \in idempotency'
      PROVE  [tenant |-> row.tenant, action |-> "verified", object |-> row.receipt] \in audits'
  <2>1. CASE row \in idempotency
    BY <1>0, <2>1 DEF AuditHeld
  <2>2. CASE row \notin idempotency
    <3>1. PICK r \in Requests : pc[r] = "remember" /\ row = KeyRow(r)
      BY <1>3, <2>2, TableSteps
    <3>2. AuditRow(r) \in audits /\ Verifies(r)
      BY <1>0, <3>1 DEF AuditHeld, AuditOK, HandlerInv, HandlerOK
    <3>3. AuditRow(r) = [tenant |-> row.tenant, action |-> "verified", object |-> row.receipt]
      BY <3>1, <3>2 DEF AuditRow, KeyRow, Verifies
    <3> QED
      BY <1>0, <3>2, <3>3
  <2> QED
    BY <2>1, <2>2
<1> QED
  BY <1>1, <1>2, <1>3 DEF AuditHeld, AuditOK

\* An audit row is written when its object is stored, and objects stay.
LEMMA TruthfulStep ==
  ASSUME GInv, [Next]_vars
  PROVE  AuditIsTruthful'
<1> USE DEF GInv
<1>0. IInv /\ TypeOK /\ receipts \subseteq receipts' /\ contracts \subseteq contracts'
  BY Monotone DEF IInv
<1> DEFINE Backed(a) == IF a.action = "verified"
                          THEN \E x \in receipts : x.tenant = a.tenant /\ x.id = a.object
                          ELSE Stored(a.tenant, a.object) # {}
<1>1. ASSUME NEW a, Backed(a) PROVE Backed(a)'
  BY <1>0, <1>1 DEF Stored
<1>2. ASSUME NEW r \in Requests, pc[r] = "audit" PROVE Backed(AuditRow(r))
  <2>0. HandlerOK(r) /\ ReceiptOK(r) /\ AuditOK(r)
    BY DEF IInv, HandlerInv, ReceiptHeld, AuditHeld
  <2>1. CASE Verifies(r)
    <3>1. receipt[r] \in receipts /\ receipt[r].tenant = Tenant(r)
      BY <1>2, <2>0, <2>1 DEF ReceiptOK
    <3>2. /\ AuditRow(r).action = "verified" /\ AuditRow(r).tenant = Tenant(r)
          /\ AuditRow(r).object = receipt[r].id
      BY <2>1 DEF AuditRow, Verifies
    <3> QED
      BY <3>1, <3>2
  <2>2. CASE ~Verifies(r)
    <3>0. input[r] \in Inputs
      BY <1>2, <2>0 DEF HandlerOK
    <3>1. Endpoint(r) \in {"compile", "register"}
      <4>1. Endpoint(r) \in AllEndpoints
        BY <3>0 DEF Inputs, Bodies, Endpoint
      <4> QED
        BY <1>2, <2>2, <4>1 DEF Verifies, AllEndpoints
    <3>2. /\ AuditRow(r).action # "verified" /\ AuditRow(r).tenant = Tenant(r)
          /\ AuditRow(r).object = contract[r].id
      BY <3>1 DEF AuditRow
    <3> QED
      BY <1>2, <2>0, <2>2, <3>2 DEF AuditOK
  <2> QED
    BY <2>1, <2>2
<1>3. ASSUME NEW a \in audits' PROVE Backed(a)'
  <2>1. CASE a \in audits
    BY <1>1, <2>1 DEF AuditIsTruthful
  <2>2. CASE a \notin audits
    <3>1. PICK r \in Requests : pc[r] = "audit" /\ a = AuditRow(r)
      BY <1>3, <2>2, Writers DEF WriteAudit
    <3>2. Backed(a)
      BY <1>2, <3>1
    <3> QED
      BY <1>1, <3>2
  <2> QED
    BY <2>1, <2>2
<1> QED
  BY <1>3 DEF AuditIsTruthful


-----------------------------------------------------------------------------
(* How far a handler is.                                                   *)

\* The places in their order.
LEMMA Places ==
  /\ Place("idle") = 0 /\ Place("lookup") = 1 /\ Place("idempotency") = 2
  /\ Place("replay") = 3 /\ Place("select") = 4 /\ Place("insert") = 5
  /\ Place("baselines") = 6 /\ Place("observe") = 7 /\ Place("baseline") = 8
  /\ Place("receipt") = 9 /\ Place("audit") = 10 /\ Place("remember") = 11
  /\ Place("reply") = 12
  /\ \A label \in Finished : Place(label) = 13
BY DEF Place, Finished

\* Who is still to save a baseline was never past saving one.
LEMMA NeverUnsavedAgain ==
  ASSUME IInv, [Next]_vars, NEW q \in Requests,
         pc'[q] \in Early \cup {"baselines", "observe"}
  PROVE  pc[q] \in Early \cup {"baselines", "observe"}
<1>0. TypeOK
  BY DEF IInv
<1>1. CASE pc'[q] # "observe"
  BY <1>1, NeverBlindAgain
<1>2. CASE pc'[q] = "observe"
  <2>1. \A label : Goto(q, label) => pc'[q] = label
    BY <1>0 DEF TypeOK, Goto
  <2>2. CASE \E c \in Conditions : SaveBaseline(q, c)
    <3>1. PICK c \in Conditions : SaveBaseline(q, c)
      BY <2>2
    <3>. QED  BY <1>2, <2>1, <3>1 DEF SaveBaseline
  <2>3. CASE SaveReceipt(q) \/ WriteAudit(q) \/ SaveIdempotency(q) \/ Reply(q) \/ Abort(q)
    BY <1>2, <2>1, <2>3 DEF SaveReceipt, WriteAudit, SaveIdempotency, Reply, Abort
  <2>4. CASE \/ LookupContract(q) \/ GetIdempotency(q) \/ ReplayReceipt(q)
             \/ SelectContract(q) \/ InsertContract(q) \/ GetBaselines(q)
             \/ \E c \in Conditions : Observe(q, c)
    BY <2>4 DEF Early, LookupContract, GetIdempotency, ReplayReceipt, SelectContract,
                InsertContract, GetBaselines, Observe
  <2>5. CASE pc[q] = "idle" \/ pc'[q] = pc[q]
    BY <1>2, <2>5 DEF Early
  <2>. QED  BY <2>2, <2>3, <2>4, <2>5, Comes DEF Handle
<1>. QED
  BY <1>1, <1>2

\* A baseline is saved under the id that the registration has drawn.
LEMMA SavesOwn ==
  ASSUME GInv, NEW r \in Requests, NEW d \in Conditions, SaveBaseline(r, d)
  PROVE  /\ pc[r] = "baseline" /\ contract[r].id = r /\ Targets(r) = RequireChange
         /\ <<Tenant(r), r>> \in Tenants \X ContractIds
         /\ d \in RequireChange
         /\ baselines' = [baselines EXCEPT ![<<Tenant(r), r>>][d] = observed[r][d]]
         /\ UNCHANGED <<input, contract, observed>>
<1>1. TypeOK /\ HandlerOK(r) /\ IdOK(r) /\ pc[r] = "baseline"
  BY DEF GInv, IInv, HandlerInv, IdHeld, SaveBaseline
<1>2. Endpoint(r) = "register" /\ input[r] \in Inputs
  BY <1>1 DEF HandlerOK
<1>3. contract[r].id = r
  BY <1>1, <1>2 DEF IdOK, Verifies
<1>4. <<Tenant(r), r>> \in Tenants \X ContractIds
  BY <1>2 DEF Inputs, Tenant, ContractIds
<1>5. Targets(r) = RequireChange
  BY <1>2 DEF Targets
<1>. QED
  BY <1>1, <1>3, <1>4, <1>5 DEF SaveBaseline

\* Nothing is saved under an id before its registration saves it.
LEMMA UnsavedStep ==
  ASSUME GInv, [Next]_vars
  PROVE  Unsaved'
<1>0. TypeOK /\ IInv
  BY DEF GInv, IInv
<1>. SUFFICES ASSUME NEW q \in Requests, NEW t \in Tenants, NEW c \in Conditions,
                    pc'[q] \in Early \cup {"baselines", "observe"}
             PROVE  baselines'[<<t, q>>][c] = Absent
  BY DEF Unsaved
<1>1. pc[q] \in Early \cup {"baselines", "observe"}
  BY <1>0, NeverUnsavedAgain
<1>2. baselines[<<t, q>>][c] = Absent
  BY <1>1 DEF GInv, Unsaved
<1>3. ASSUME NEW r \in Requests, NEW d \in Conditions, SaveBaseline(r, d)
      PROVE  baselines'[<<t, q>>] = baselines[<<t, q>>]
  <2>1. /\ pc[r] = "baseline" /\ <<Tenant(r), r>> \in Tenants \X ContractIds
        /\ baselines' = [baselines EXCEPT ![<<Tenant(r), r>>][d] = observed[r][d]]
    BY <1>3, SavesOwn
  <2>2. <<t, q>> # <<Tenant(r), r>> /\ <<t, q>> \in Tenants \X ContractIds
    BY <1>1, <2>1 DEF Early, ContractIds
  <2>. QED  BY <1>0, <2>1, <2>2 DEF TypeOK
<1>. QED
  BY <1>2, <1>3, Writers

\* A handler's step takes it on, to something it can do.
LEMMA HandlerGoesOn ==
  ASSUME GInv, NEW r \in Requests, Handle(r), [Next]_vars
  PROVE  Advances(r) /\ (pc'[r] \in {"observe", "baseline"} => Left(r)' # {})
<1>0. /\ TypeOK /\ IInv /\ HandlerOK(r) /\ IdOK(r) /\ ObservedOK(r)
      /\ \A label : Goto(r, label) => pc'[r] = label
  BY DEF GInv, IInv, HandlerInv, IdHeld, ObservedHeld, TypeOK, Goto
<1>1. pc[r] # "idle" => input[r] \in Inputs /\ input'[r] = input[r]
                        /\ Endpoint(r)' = Endpoint(r) /\ Targets(r)' = Targets(r)
  BY <1>0, Keeps DEF HandlerOK, Targets
<1>2. Conditions # {} /\ RequireChange \subseteq Conditions
  BY ConditionsAssumption
<1>3. AfterMiss(r) \in {"baselines", "select"}
  BY DEF AfterMiss
<1>4. pc'[r] = "observe" => Left(r)' = {c \in Targets(r)' : observed'[r][c] = Absent}
  BY DEF Left
<1>5. CASE LookupContract(r)
  <2>1. pc[r] = "lookup" /\ pc'[r] \in {"refused", "baselines", "idempotency"}
    BY <1>0, <1>5 DEF LookupContract
  <2>. QED  BY <2>1, Places DEF Advances, Finished
<1>6. CASE GetIdempotency(r)
  <2>1. pc[r] = "idempotency" /\ pc'[r] \in {"refused", "baselines", "select", "replay"}
    BY <1>0, <1>3, <1>6 DEF GetIdempotency
  <2>. QED  BY <2>1, Places DEF Advances, Finished
<1>7. CASE ReplayReceipt(r)
  <2>1. pc[r] = "replay" /\ pc'[r] \in {"baselines", "select", "reply"}
    BY <1>0, <1>3, <1>7 DEF ReplayReceipt
  <2>. QED  BY <2>1, Places DEF Advances
<1>8. CASE SelectContract(r) \/ InsertContract(r)
  <2>1. /\ pc[r] \in {"select", "insert"}
        /\ \/ pc'[r] \in {"insert", "refused", "failed"} /\ Place(pc[r]) < Place(pc'[r])
           \/ pc'[r] = AfterSave(r)
        /\ observed' = observed
    <3>1. CASE SelectContract(r)
      BY <1>0, <3>1, Places DEF SelectContract, Finished
    <3>2. CASE InsertContract(r)
      BY <1>0, <3>2, Places DEF InsertContract, Finished
    <3>. QED  BY <1>8, <3>1, <3>2
  <2>2. AfterSave(r) = "audit" \/ (AfterSave(r) = "observe" /\ Targets(r) # {})
    BY DEF AfterSave
  <2>3. Advances(r)
    BY <2>1, <2>2, Places DEF Advances
  <2>4. ASSUME pc'[r] \in {"observe", "baseline"}
        PROVE  Left(r)' # {}
    <3>1. pc'[r] = "observe" /\ Targets(r) # {}
      BY <2>1, <2>2, <2>4
    <3>2. observed'[r] = NothingObserved
      BY <1>0, <2>1 DEF ObservedOK, Early
    <3>3. Left(r)' = {c \in Targets(r) : observed'[r][c] = Absent}
      BY <1>1, <1>4, <2>1, <3>1
    <3>4. Targets(r) \subseteq Conditions
      BY <1>2 DEF Targets
    <3>. QED  BY <3>1, <3>2, <3>3, <3>4 DEF NothingObserved
  <2>. QED  BY <2>3, <2>4
<1>9. CASE GetBaselines(r)
  <2>1. pc[r] = "baselines" /\ pc'[r] = "observe" /\ observed' = observed
    BY <1>0, <1>9 DEF GetBaselines
  <2>2. Targets(r) = Conditions
    BY <1>0, <2>1 DEF HandlerOK, Verifies, Targets
  <2>3. observed'[r] = NothingObserved
    BY <1>0, <2>1 DEF ObservedOK
  <2>4. Left(r)' = Conditions
    BY <1>1, <1>4, <2>1, <2>2, <2>3 DEF NothingObserved
  <2>. QED  BY <1>2, <2>1, <2>4, Places DEF Advances
<1>10. ASSUME NEW c \in Conditions, Observe(r, c)
       PROVE  Advances(r) /\ (pc'[r] \in {"observe", "baseline"} => Left(r)' # {})
  <2>1. /\ pc[r] = "observe" /\ c \in Targets(r) /\ observed[r][c] = Absent
        /\ pc'[r] \in {"observe", "baseline", "receipt"}
        /\ pc'[r] = "observe" <=> \E d \in Targets(r) \ {c} : observed[r][d] = Absent
        /\ pc'[r] = "baseline" => Endpoint(r) = "register"
        /\ UNCHANGED <<baselines, contract>>
    BY <1>0, <1>10 DEF Observe, database
  <2>2. /\ \A d \in Conditions \ {c} : observed'[r][d] = observed[r][d]
        /\ observed'[r][c] # Absent
    <3>1. PICK o \in Outcomes(c) : observed' = [observed EXCEPT ![r][c] = o]
      BY <1>10 DEF Observe
    <3>2. o \in Observations
      BY <1>0, OutcomeType DEF TypeOK
    <3>. QED  BY <1>0, <3>1, <3>2, AbsentAssumption DEF TypeOK, Observed
  <2>3. Targets(r) \subseteq Conditions
    BY <1>2 DEF Targets
  <2>4. CASE pc'[r] = "observe"
    <3>1. Left(r) = {d \in Targets(r) : observed[r][d] = Absent}
      BY <2>1 DEF Left
    <3>2. Left(r)' = {d \in Targets(r) : observed'[r][d] = Absent}
      BY <1>1, <1>4, <2>1, <2>4
    <3>3. Left(r)' = Left(r) \ {c} /\ c \in Left(r)
      BY <2>1, <2>2, <2>3, <3>1, <3>2
    <3>4. Left(r)' # {}
      BY <2>1, <2>4, <3>1, <3>3
    <3>. QED  BY <2>1, <2>4, <3>3, <3>4 DEF Advances
  <2>5. CASE pc'[r] = "baseline"
    <3>1. Endpoint(r) = "register" /\ Targets(r) = RequireChange
      BY <2>1, <2>5 DEF Targets
    <3>2. contract'[r].id = r /\ Tenant(r)' \in Tenants
      BY <1>0, <1>1, <2>1, <3>1 DEF IdOK, Verifies, Tenant, Inputs
    <3>3. baselines'[<<Tenant(r)', r>>][c] = Absent
      BY <2>1, <3>2 DEF GInv, Unsaved
    <3>4. Left(r)' = {d \in RequireChange :
                        baselines'[<<Tenant(r)', contract'[r].id>>][d] # observed'[r][d]}
      BY <2>5 DEF Left
    <3>5. c \in Left(r)'
      BY <2>1, <2>2, <3>1, <3>2, <3>3, <3>4
    <3>. QED  BY <2>1, <2>5, <3>5, Places DEF Advances
  <2>6. CASE pc'[r] = "receipt"
    BY <2>1, <2>6, Places DEF Advances
  <2>. QED  BY <2>1, <2>4, <2>5, <2>6
<1>11. ASSUME NEW c \in Conditions, SaveBaseline(r, c)
       PROVE  Advances(r) /\ (pc'[r] \in {"observe", "baseline"} => Left(r)' # {})
  <2> DEFINE k == <<Tenant(r), r>>
             B == {d \in RequireChange : baselines[k][d] # observed[r][d]}
  <2>1. /\ pc[r] = "baseline" /\ contract[r].id = r
        /\ k \in Tenants \X ContractIds /\ c \in RequireChange
        /\ baselines' = [baselines EXCEPT ![k][c] = observed[r][c]]
        /\ UNCHANGED <<input, contract, observed>>
    BY <1>11, SavesOwn
  <2>2. c \in B /\ pc'[r] = IF B = {c} THEN "audit" ELSE "baseline"
    BY <1>0, <1>11, <2>1 DEF SaveBaseline
  <2>3. /\ \A d \in Conditions \ {c} : baselines'[k][d] = baselines[k][d]
        /\ baselines'[k][c] = observed'[r][c]
    BY <1>0, <2>1 DEF TypeOK, Observed
  <2>4. CASE B = {c}
    <3>1. pc'[r] = "audit"
      BY <2>2, <2>4
    <3>. QED  BY <2>1, <3>1, Places DEF Advances
  <2>5. CASE B # {c}
    <3>1. pc'[r] = "baseline"
      BY <2>2, <2>5
    <3>2. Left(r) = B
      BY <2>1 DEF Left
    <3>3. Left(r)' = {d \in RequireChange : baselines'[k][d] # observed'[r][d]}
      BY <2>1, <3>1 DEF Left, Tenant
    <3>4. Left(r)' = B \ {c}
      BY <1>2, <2>1, <2>3, <3>3
    <3> HIDE DEF B
    <3>. QED  BY <2>1, <2>2, <2>5, <3>1, <3>2, <3>4 DEF Advances
  <2>. QED  BY <2>4, <2>5
<1>12. CASE SaveReceipt(r) \/ WriteAudit(r)
  <2>1. \/ pc[r] = "receipt" /\ pc'[r] = "audit"
        \/ pc[r] = "audit" /\ pc'[r] \in {"reply", "remember"}
    BY <1>0, <1>12 DEF SaveReceipt, WriteAudit
  <2>. QED  BY <2>1, Places DEF Advances
<1>13. CASE SaveIdempotency(r) \/ Reply(r)
  <2>1. \/ pc[r] = "remember" /\ pc'[r] \in {"reply", "failed"}
        \/ pc[r] = "reply" /\ pc'[r] = "answered"
    BY <1>0, <1>13 DEF SaveIdempotency, Reply
  <2>. QED  BY <2>1, Places DEF Advances, Finished
<1>. QED
  BY <1>5, <1>6, <1>7, <1>8, <1>9, <1>10, <1>11, <1>12, <1>13 DEF Handle

\* Nobody else sets a handler back: at most it dies.
LEMMA OthersDoNotInterfere ==
  ASSUME GInv, [Next]_vars, NEW r \in Requests, ~Handle(r)
  PROVE  Place(pc[r]) < Place(pc'[r]) \/ (pc'[r] = pc[r] /\ Left(r)' = Left(r))
<1>0. TypeOK /\ IInv
  BY DEF GInv, IInv
<1>1. CASE pc'[r] # pc[r] /\ pc[r] = "idle"
  <2>1. Arrivals(r)
    BY <1>0, <1>1, FirstStep
  <2>2. pc'[r] \in {"select", "lookup", "idempotency"}
    BY <1>0, <2>1, Arrived
  <2>. QED  BY <1>1, <2>2, Places
<1>2. CASE pc'[r] # pc[r] /\ pc[r] # "idle"
  <2>1. Abort(r)
    BY <1>0, <1>2, Comes
  <2>2. pc[r] \in Running /\ pc'[r] = "aborted"
    BY <1>0, <2>1 DEF Abort, Goto, TypeOK
  <2>. QED  BY <2>2, Places DEF Running, Finished
<1>3. CASE pc'[r] = pc[r] /\ pc[r] \notin {"observe", "baseline"}
  BY <1>3 DEF Left
<1>4. CASE pc'[r] = pc[r] /\ pc[r] \in {"observe", "baseline"}
  <2>1. /\ Targets(r)' = Targets(r) /\ Tenant(r)' = Tenant(r) /\ contract'[r] = contract[r]
    BY <1>0, <1>4, Keeps DEF Targets
  <2>2. observed'[r] = observed[r]
    <3>1. ASSUME NEW q \in Requests, NEW c \in Conditions, Observe(q, c)
          PROVE  observed'[r] = observed[r]
      <4>1. q # r
        BY <3>1 DEF Handle
      <4>. QED  BY <1>0, <3>1, <4>1, Others DEF Handle, OthersUntouched
    <3>. QED  BY <3>1, Writers
  <2>3. CASE pc[r] = "observe"
    <3>1. Left(r) = {c \in Targets(r) : observed[r][c] = Absent}
      BY <2>3 DEF Left
    <3>2. Left(r)' = {c \in Targets(r) : observed'[r][c] = Absent}
      BY <1>4, <2>1, <2>3 DEF Left
    <3>. QED  BY <1>4, <2>2, <3>1, <3>2
  <2>4. CASE pc[r] = "baseline"
    <3>1. contract[r].id = r
      BY <1>0, <2>4 DEF GInv, IdHeld, IdOK, IInv, HandlerInv, HandlerOK, Verifies
    <3>2. <<Tenant(r), r>> \in Tenants \X ContractIds
      BY <1>0, <2>4 DEF IInv, HandlerInv, HandlerOK, Inputs, Tenant, ContractIds
    <3>3. baselines'[<<Tenant(r), r>>] = baselines[<<Tenant(r), r>>]
      <4>1. ASSUME NEW q \in Requests, NEW c \in Conditions, SaveBaseline(q, c)
            PROVE  baselines'[<<Tenant(r), r>>] = baselines[<<Tenant(r), r>>]
        <5>1. q # r
          BY <4>1 DEF Handle
        <5>2. /\ <<Tenant(q), q>> \in Tenants \X ContractIds
              /\ baselines' = [baselines EXCEPT ![<<Tenant(q), q>>][c] = observed[q][c]]
          BY <4>1, SavesOwn
        <5>. QED  BY <1>0, <3>2, <5>1, <5>2 DEF TypeOK
      <4>. QED  BY <4>1, Writers
    <3>4. Left(r) = {c \in RequireChange : baselines[<<Tenant(r), r>>][c] # observed[r][c]}
      BY <2>4, <3>1 DEF Left
    <3>5. Left(r)' = {c \in RequireChange : baselines'[<<Tenant(r), r>>][c] # observed'[r][c]}
      BY <1>4, <2>1, <2>4, <3>1 DEF Left
    <3>. QED  BY <1>4, <2>2, <3>3, <3>4, <3>5
  <2>. QED  BY <1>4, <2>3, <2>4
<1>. QED
  BY <1>1, <1>2, <1>3, <1>4

\* A handler that observes or saves has something left to.
LEMMA NeverStuckStep ==
  ASSUME GInv, [Next]_vars
  PROVE  NeverStuck'
<1>. SUFFICES ASSUME NEW r \in Requests, pc'[r] \in {"observe", "baseline"}
             PROVE  Left(r)' # {}
  BY DEF NeverStuck
<1>1. CASE Handle(r)
  BY <1>1, HandlerGoesOn
<1>2. CASE ~Handle(r) /\ pc'[r] = pc[r]
  <2>1. ~(Place(pc[r]) < Place(pc'[r]))
    BY <1>2, Places
  <2>2. Left(r)' = Left(r)
    BY <1>2, <2>1, OthersDoNotInterfere
  <2>. QED  BY <1>2, <2>2 DEF GInv, NeverStuck
<1>3. CASE ~Handle(r) /\ pc'[r] # pc[r]
  <2>0. IInv /\ TypeOK
    BY DEF GInv, IInv
  <2>1. CASE pc[r] = "idle"
    <3>1. Arrivals(r)
      BY <1>3, <2>0, <2>1, FirstStep
    <3>. QED  BY <2>0, <3>1, Arrived
  <2>2. CASE pc[r] # "idle"
    <3>1. Abort(r)
      BY <1>3, <2>0, <2>2, Comes
    <3>. QED  BY <2>0, <3>1 DEF Abort, Goto, TypeOK
  <2>. QED  BY <2>1, <2>2
<1>. QED
  BY <1>1, <1>2, <1>3

-----------------------------------------------------------------------------
(* Theorems about ids and the audit log.                                   *)

\* The second inductive invariant holds in every reachable state.
THEOREM Grounding == Spec => []GInv
<1>1. Init => GInv
  <2> SUFFICES ASSUME Init PROVE GInv
    OBVIOUS
  <2>1. IInv
    BY BoundAssumption, NamesAssumption
       DEF Init, IInv, TypeOK, HandlerInv, HandlerOK, UniqueRows, ContractHeld, ContractOK,
           ReceiptOrigin, ReceiptHeld, ReceiptOK, KeyHeld, KeyOK, IdempotencyReferential,
           NothingObserved, Observed, Labels, Verifies
  <2>2. IdHeld /\ DrawnRows /\ NamedHeld /\ ShownComplete /\ AuditHeld /\ AuditIsTruthful
    BY DEF Init, IdHeld, IdOK, DrawnRows, NamedHeld, NamedOK, ShownComplete, AuditHeld, AuditOK,
           AuditIsTruthful
  <2>3. BaselineRows
    BY DEF Init, BaselineRows, NothingObserved
  <2>4. ObservedHeld /\ KnownHeld
    BY DEF Init, ObservedHeld, ObservedOK, KnownHeld, KnownOK, NothingObserved, Early
  <2>5. Unsaved /\ NeverStuck
    BY DEF Init, Unsaved, NeverStuck, NothingObserved, ContractIds
  <2> QED
    BY <2>1, <2>2, <2>3, <2>4, <2>5 DEF GInv
<1>2. GInv /\ [Next]_vars => GInv'
  <2> SUFFICES ASSUME GInv, [Next]_vars PROVE GInv'
    OBVIOUS
  <2>1. IInv'
    BY TypeStep, UniqueStep, ContractStep, OriginStep, ReceiptStep, KeyStep, ReferentialStep
       DEF GInv, IInv
  <2> QED
    BY <2>1, IdStep, DrawnStep, NamedStep, ShownStep, BaselineStep, ObservedStep, KnownStep,
       AuditStep, TruthfulStep, UnsavedStep, NeverStuckStep DEF GInv
<1> QED
  BY <1>1, <1>2, PTL DEF Spec

\* A gather or a loop over baselines is never entered with nothing to do, which
\* no step would then end.
THEOREM NoHandlerIsStuck == Spec => []NeverStuck
<1>1. GInv => NeverStuck
  BY DEF GInv
<1> QED
  BY <1>1, Grounding, PTL

\* Each step of a handler brings it nearer to its end, and no step of anybody
\* else sets it back.
THEOREM HandlersRunInNoCircle == Spec => RequestsAdvance
<1>1. GInv /\ [Next]_vars =>
        \A r \in Requests : /\ Handle(r) => Advances(r)
                            /\ Advances(r) \/ (pc'[r] = pc[r] /\ Left(r)' = Left(r))
  <2> SUFFICES ASSUME GInv, [Next]_vars, NEW r \in Requests
               PROVE  /\ Handle(r) => Advances(r)
                      /\ Advances(r) \/ (pc'[r] = pc[r] /\ Left(r)' = Left(r))
    OBVIOUS
  <2>1. CASE Handle(r)
    BY <2>1, HandlerGoesOn
  <2>2. CASE ~Handle(r)
    <3>1. Place(pc[r]) < Place(pc'[r]) \/ (pc'[r] = pc[r] /\ Left(r)' = Left(r))
      BY <2>2, OthersDoNotInterfere
    <3> QED
      BY <2>2, <3>1 DEF Advances
  <2> QED
    BY <2>1, <2>2
<1> QED
  BY <1>1, Grounding, PTL DEF Spec, RequestsAdvance

\* Whatever is answered, a replay included, is in the caller's audit log.
THEOREM AnswersAreAudited == Spec => []AnsweredIsAudited
<1>1. GInv => AnsweredIsAudited
  BY DEF GInv, AuditHeld, AuditOK, AnsweredIsAudited
<1> QED
  BY <1>1, Grounding, PTL

\* The audit log never runs ahead of the tables.
THEOREM AuditTellsTheTruth == Spec => []AuditIsTruthful
<1>1. GInv => AuditIsTruthful
  BY DEF GInv
<1> QED
  BY <1>1, Grounding, PTL

\* A drawn id is stored by nobody else, so save_contract never objects to it; the
\* key alone can turn its request away.
LEMMA ConflictStep ==
  ASSUME GInv, GInv', DrawnIdNeverConflicts, [Next]_vars
  PROVE  DrawnIdNeverConflicts'
<1> SUFFICES ASSUME NEW q \in Requests, pc'[q] # "idle", input'[q].body.id = Absent
             PROVE  /\ pc'[q] \in {"select", "insert"} => Stored(Tenant(q), contract[q].id)' = {}
                    /\ pc'[q] = "refused" =>
                         \/ Key(q)' \in LongKeys
                         \/ \E row \in Remembered(Tenant(q), Key(q))' : row.body # input'[q].body
                    /\ pc'[q] = "failed" =>
                         receipt'[q] \in receipts' /\ Remembered(Tenant(q), Key(q))' # {}
  BY DEF DrawnIdNeverConflicts
<1>0. IInv /\ TypeOK /\ HandlerOK(q) /\ IdOK(q) /\ DrawnRows /\ ReceiptOK(q)
  BY DEF GInv, IInv, HandlerInv, IdHeld, ReceiptHeld
<1>1. ASSUME pc'[q] \in {"select", "insert"} PROVE Stored(Tenant(q), contract[q].id)' = {}
  <2>1. contract'[q].id = q
    BY <1>1 DEF GInv, IdHeld, IdOK
  <2>2. ASSUME NEW row \in contracts' PROVE row.contract.id # q
    BY <1>1, <2>2 DEF GInv, DrawnRows, Early
  <2> QED
    BY <2>1, <2>2 DEF Stored
<1>2. ASSUME pc'[q] \in {"refused", "failed"}
      PROVE  /\ pc[q] # "idle" /\ input'[q] = input[q] /\ input[q].body.id = Absent
             /\ Endpoint(q) # "verifyRun"
             /\ Tenant(q)' = Tenant(q) /\ Key(q)' = Key(q)
             /\ Remembered(Tenant(q), Key(q)) \subseteq Remembered(Tenant(q), Key(q))'
  <2>1. pc[q] # "idle"
    BY <1>0, <1>2, FirstStep, Arrived
  <2>2. input'[q] = input[q] /\ idempotency \subseteq idempotency'
    BY <1>0, <2>1, Monotone
  <2> QED
    BY <1>0, <2>1, <2>2 DEF IdOK, Tenant, Key, Remembered
<1>3. CASE pc'[q] \in {"refused", "failed"} /\ pc'[q] = pc[q]
  <2>1. pc'[q] = "failed" => receipt'[q] = receipt[q]
    <3>1. ASSUME NEW r \in Requests, ReplayReceipt(r) \/ SaveReceipt(r), pc[q] = "failed"
          PROVE  receipt'[q] = receipt[q]
      BY <1>0, <3>1, Others DEF Handle, OthersUntouched, ReplayReceipt, SaveReceipt
    <3> QED
      BY <1>3, <3>1, Writers
  <2>2. receipts \subseteq receipts'
    BY <1>0, Monotone
  <2> QED
    BY <1>2, <1>3, <2>1, <2>2 DEF DrawnIdNeverConflicts
<1>4. CASE pc'[q] \in {"refused", "failed"} /\ pc'[q] # pc[q]
  <2>1. pc[q] \in {"select", "insert"} => contract[q].id = q /\ Stored(Tenant(q), q) = {}
    BY <1>0, <1>2, <1>4, DrawnUnstored DEF IdOK, Early
  <2>2. GetIdempotency(q) \/ SaveIdempotency(q)
    <3>1. Handle(q) \/ Abort(q)
      BY <1>0, <1>2, <1>4, Comes
    <3>2. ~SelectContract(q) /\ ~InsertContract(q)
      BY <1>0, <1>4, <2>1 DEF SelectContract, InsertContract, Goto, TypeOK, AfterSave
    <3>3. ~LookupContract(q)
      BY <1>0, <1>2, <1>4 DEF HandlerOK, LookupContract
    <3> QED
      BY <1>0, <1>4, <3>1, <3>2, <3>3
         DEF TypeOK, Handle, Goto, ReplayReceipt, GetBaselines, SaveReceipt, WriteAudit, Reply,
             Abort, Observe, SaveBaseline, AfterMiss
  <2>3. CASE GetIdempotency(q)
    <3>1. /\ pc'[q] # "failed"
          /\ pc'[q] = "refused" =>
               \/ Key(q) \in LongKeys
               \/ \E row \in Remembered(Tenant(q), Key(q)) : row.body # input[q].body
      BY <1>0, <2>3 DEF GetIdempotency, Goto, TypeOK, AfterMiss
    <3> QED
      BY <1>2, <1>4, <3>1
  <2>4. CASE SaveIdempotency(q)
    <3>1. /\ pc[q] = "remember" /\ receipt' = receipt /\ receipts' = receipts
          /\ pc'[q] = "failed" /\ Remembered(Tenant(q), Key(q)) # {}
      BY <1>0, <1>4, <2>4 DEF SaveIdempotency, Goto, TypeOK
    <3>2. receipt[q] \in receipts
      BY <1>0, <3>1 DEF HandlerOK, ReceiptOK
    <3> QED
      BY <1>2, <1>4, <3>1, <3>2
  <2> QED
    BY <2>2, <2>3, <2>4
<1> QED
  BY <1>1, <1>3, <1>4

\* A request that leaves its contract id to the server, on any endpoint, finds no
\* row under it, and only its idempotency key can refuse or fail it.
THEOREM DrawnIdsNeverConflict == Spec => []DrawnIdNeverConflicts
<1>1. Init => DrawnIdNeverConflicts
  BY DEF Init, DrawnIdNeverConflicts
<1>2. GInv /\ GInv' /\ DrawnIdNeverConflicts /\ [Next]_vars => DrawnIdNeverConflicts'
  BY ConflictStep
<1> QED
  BY <1>1, <1>2, Grounding, PTL DEF Spec

-----------------------------------------------------------------------------
(* Theorems about receipts.                                                *)

\* What the receipt about to be built rests on.
LEMMA Evidence ==
  ASSUME GInv, NEW r \in Requests, SaveReceipt(r), NEW c \in Conditions
  PROVE  /\ observed[r][c] \in Observations
         /\ Grounded(observed[r][c], c, began[r][c])
         /\ KnownOK(r)
         /\ known[r][c] \in Observations \cup {Absent}
<1> USE DEF GInv
<1>0. TypeOK /\ HandlerOK(r) /\ ObservedOK(r) /\ KnownOK(r) /\ pc[r] = "receipt"
  BY DEF IInv, HandlerInv, ObservedHeld, KnownHeld, SaveReceipt
<1>1. Targets(r) = Conditions
  BY <1>0 DEF HandlerOK, Verifies, Targets
<1>2. observed[r][c] \in Observations
  BY <1>0, <1>1 DEF HandlerOK
<1>3. Grounded(observed[r][c], c, began[r][c])
  BY <1>0, <1>2, AbsentAssumption DEF ObservedOK
<1>4. known[r][c] \in Observations \cup {Absent}
  BY <1>0 DEF TypeOK, Observed
<1> QED
  BY <1>0, <1>2, <1>3, <1>4

\* The fields of a new receipt.
LEMMA NewReceiptIs ==
  ASSUME NEW r \in Requests, NEW c \in Conditions
  PROVE  /\ NewReceipt(r).id = r
         /\ NewReceipt(r).level = Level(r)
         /\ NewReceipt(r).contract = contract[r]
         /\ NewReceipt(r).tenant = Tenant(r)
         /\ NewReceipt(r).results[c] = ResultOf(r, c)
         /\ ResultOf(r, c).after = observed[r][c]
         /\ ResultOf(r, c).before = known[r][c]
BY DEF NewReceipt, ResultOf

\* A PASS is a PASS of the provider, and where a change is required it comes
\* from a known unsatisfied baseline of a registered run.
LEMMA ResultPasses ==
  ASSUME NEW r \in Requests, NEW c \in Conditions, ResultOf(r, c).status = "PASS"
  PROVE  /\ observed[r][c].status = "PASS"
         /\ c \in RequireChange =>
              /\ Level(r) = "registered"
              /\ StatusOf(known[r][c]) \notin {NoBaseline, "UNKNOWN", "PASS"}
BY DEF ResultOf, Transition

\* What a stored receipt is about is settled: its run has arrived, and so has
\* the request that made it.
LEMMA ReceiptSettled ==
  ASSUME GInv, [Next]_vars, NEW x \in receipts
  PROVE  /\ began'[x.id] = began[x.id]
         /\ IsRegistered(x.contract.id)' <=> IsRegistered(x.contract.id)
         /\ IsRun(x.tenant, x.contract.id)' <=> IsRun(x.tenant, x.contract.id)
         /\ IsRegistered(x.contract.id) => began'[x.contract.id] = began[x.contract.id]
<1> USE DEF GInv
<1>1. x.id \in Requests /\ pc[x.id] # "idle"
  BY DEF IInv, TypeOK, Receipts, ReceiptOrigin
<1>2. Stored(x.tenant, x.contract.id) # {}
  <2>1. [tenant |-> x.tenant, contract |-> x.contract] \in Stored(x.tenant, x.contract.id)
    BY DEF IInv, ReceiptOrigin, Stored
  <2> QED
    BY <2>1
<1>3. x.contract.id \in Requests => pc[x.contract.id] # "idle"
  BY <1>2, DrawnArrived DEF Early
<1>4. ASSUME NEW id \in Requests, pc[id] # "idle"
      PROVE  /\ began'[id] = began[id] /\ Tenant(id)' = Tenant(id)
             /\ IsRegistered(id)' <=> IsRegistered(id)
  BY <1>4, Stays, Keeps
<1> QED
  BY <1>1, <1>3, <1>4 DEF IsRegistered, IsRun

\* A receipt that is not stored yet is the new one of a SaveReceipt step.
LEMMA ReceiptFresh ==
  ASSUME [Next]_vars, NEW x \in receipts', x \notin receipts
  PROVE  \E r \in Requests : SaveReceipt(r) /\ x = NewReceipt(r)
BY TableSteps DEF SaveReceipt

\* The evidence of a credited transition.
LEMMA TransitionStep ==
  ASSUME GInv, TransitionProven, [Next]_vars
  PROVE  TransitionProven'
<1> SUFFICES ASSUME NEW x \in receipts', NEW c \in RequireChange, x.results[c].status = "PASS"
             PROVE  LET res == x.results[c] IN
                      /\ x.level = "registered"
                      /\ IsRun(x.tenant, x.contract.id)'
                      /\ res.before # Absent
                      /\ began'[x.contract.id][c] <= res.before.epoch
                      /\ ~Satisfied(res.before.epoch)
                      /\ res.before.epoch < res.after.epoch
                      /\ began'[x.id][c] <= res.after.epoch
                      /\ Satisfied(res.after.epoch)
  BY DEF TransitionProven
<1>1. CASE x \in receipts
  BY <1>1, ReceiptSettled DEF TransitionProven, IsRun
<1>2. CASE x \notin receipts
  <2>0. c \in Conditions
    BY ConditionsAssumption
  <2>1. PICK r \in Requests : SaveReceipt(r) /\ x = NewReceipt(r)
    BY <1>2, ReceiptFresh
  <2>2. /\ x.id = r /\ x.level = Level(r) /\ x.contract = contract[r] /\ x.tenant = Tenant(r)
        /\ x.results[c].after = observed[r][c] /\ x.results[c].before = known[r][c]
        /\ ResultOf(r, c).status = "PASS"
    BY <2>0, <2>1, NewReceiptIs
  <2>3. /\ Level(r) = "registered" /\ observed[r][c].status = "PASS"
        /\ StatusOf(known[r][c]) \notin {NoBaseline, "UNKNOWN", "PASS"}
    BY <2>0, <2>2, ResultPasses
  <2>4. known[r][c] # Absent /\ known[r][c].status \notin {"UNKNOWN", "PASS"}
    BY <2>3 DEF StatusOf
  <2>5. /\ observed[r][c] \in Observations /\ known[r][c] \in Observations /\ KnownOK(r)
        /\ Grounded(observed[r][c], c, began[r][c])
    BY <2>0, <2>1, <2>4, Evidence
  <2>6. PICK id \in Requests : /\ id = contract[r].id /\ IsRegistered(id) /\ pc[id] # "idle"
                               /\ Tenant(r) = Tenant(id) /\ known[r][c] = observed[id][c]
    BY <2>0, <2>4, <2>5 DEF KnownOK, IsRun, IsRegistered
  <2>7. Grounded(known[r][c], c, began[id][c])
    BY <2>0, <2>4, <2>6 DEF GInv, ObservedHeld, ObservedOK
  <2>8. observed[r][c] # Absent /\ observed[r][c].status # "UNKNOWN"
    BY <2>3, <2>5, AbsentAssumption
  <2>9. known[r][c].epoch <= observed[r][c].epoch
    BY <2>0, <2>4, <2>5, <2>8 DEF KnownOK
  <2>10. /\ began[id][c] <= known[r][c].epoch /\ ~Satisfied(known[r][c].epoch)
         /\ began[r][c] <= observed[r][c].epoch /\ Satisfied(observed[r][c].epoch)
    BY <2>3, <2>4, <2>5, <2>7 DEF Grounded
  <2>11. known[r][c].epoch \in Nat /\ observed[r][c].epoch \in Nat
    BY <2>5, BoundAssumption DEF Observations
  <2>12. known[r][c].epoch < observed[r][c].epoch
    <3>1. known[r][c].epoch # observed[r][c].epoch
      BY <2>10
    <3> QED
      BY <2>9, <2>11, <3>1
  <2>13. began' = began
    BY <2>1 DEF SaveReceipt
  <2>14. IsRegistered(id)' /\ Tenant(id)' = Tenant(id)
    BY <2>6, Keeps DEF GInv
  <2>15. IsRun(x.tenant, x.contract.id)'
    BY <2>2, <2>6, <2>14 DEF IsRun
  <2> QED
    BY <2>2, <2>3, <2>4, <2>6, <2>10, <2>12, <2>13, <2>15
<1> QED
  BY <1>1, <1>2

\* The evidence of a certificate.
LEMMA VerifiedStep ==
  ASSUME GInv, VerifiedIsGrounded, [Next]_vars
  PROVE  VerifiedIsGrounded'
<1> SUFFICES ASSUME NEW x \in receipts', x.verdict = "VERIFIED", NEW c \in Required
             PROVE  /\ x.results[c].after.status = "PASS"
                    /\ began'[x.id][c] <= x.results[c].after.epoch
                    /\ x.results[c].after.epoch <= world'[c]
                    /\ Satisfied(x.results[c].after.epoch)
  BY DEF VerifiedIsGrounded
<1>0. c \in Conditions
  BY ConditionsAssumption
<1>1. CASE x \in receipts
  <2>1. /\ x.results[c].after.status = "PASS" /\ began[x.id][c] <= x.results[c].after.epoch
        /\ x.results[c].after.epoch <= world[c] /\ Satisfied(x.results[c].after.epoch)
    BY <1>1 DEF VerifiedIsGrounded
  <2>2. world[c] <= world'[c]
    BY <1>0, Stays DEF GInv
  <2>3. x.results[c].after.epoch \in Nat /\ world[c] \in Nat /\ world'[c] \in Nat
    BY <1>0, <1>1, TypeStep, BoundAssumption
       DEF GInv, IInv, TypeOK, Receipts, Results, Observations
  <2>4. began'[x.id] = began[x.id]
    BY <1>1, ReceiptSettled
  <2> QED
    BY <2>1, <2>2, <2>3, <2>4
<1>2. CASE x \notin receipts
  <2>1. PICK r \in Requests : SaveReceipt(r) /\ x = NewReceipt(r)
    BY <1>2, ReceiptFresh
  <2> DEFINE status == [d \in Conditions |-> ResultOf(r, d).status]
  <2>2. VerdictOf(status, Required) = "VERIFIED"
    BY <2>1 DEF NewReceipt
  <2>3. status \in [Conditions -> Statuses]
    <3>1. ASSUME NEW d \in Conditions PROVE ResultOf(r, d).status \in Statuses
      BY <2>1, Evidence, TransitionType DEF Observations, ResultOf
    <3> QED
      BY <3>1
  <2>4. status[c] = "PASS"
    <3> HIDE DEF status
    <3> QED
      BY <2>2, <2>3, VerdictMeaning, ConditionsAssumption
  <2>5. ResultOf(r, c).status = "PASS"
    BY <1>0, <2>4
  <2>6. observed[r][c].status = "PASS"
    BY <1>0, <2>5, ResultPasses
  <2>7. Grounded(observed[r][c], c, began[r][c])
    BY <1>0, <2>1, Evidence
  <2>8. x.id = r /\ x.results[c].after = observed[r][c] /\ began' = began /\ world' = world
    BY <1>0, <2>1, NewReceiptIs DEF SaveReceipt
  <2> QED
    BY <2>6, <2>7, <2>8 DEF Grounded
<1> QED
  BY <1>1, <1>2

\* The baselines of a verified run.
LEMMA CompleteStep ==
  ASSUME GInv, RunBaselinesComplete, [Next]_vars
  PROVE  RunBaselinesComplete'
<1> SUFFICES ASSUME NEW x \in receipts', x.level = "registered",
                    IsRun(x.tenant, x.contract.id)', NEW c \in RequireChange
             PROVE  x.results[c].before # Absent
  BY DEF RunBaselinesComplete
<1>1. CASE x \in receipts
  BY <1>1, ReceiptSettled DEF RunBaselinesComplete
<1>2. CASE x \notin receipts
  <2>0. c \in Conditions
    BY ConditionsAssumption
  <2>1. PICK r \in Requests : SaveReceipt(r) /\ x = NewReceipt(r)
    BY <1>2, ReceiptFresh
  <2>2. /\ x.contract = contract[r] /\ x.tenant = Tenant(r)
        /\ Level(r) = "registered" /\ x.results[c].before = known[r][c]
    BY <2>0, <2>1, NewReceiptIs
  <2>3. Endpoint(r) = "verifyRun" /\ pc[r] = "receipt" /\ KnownOK(r)
    BY <2>0, <2>1, <2>2, Evidence DEF Level, SaveReceipt
  <2>4. PICK id \in Requests : /\ id = contract[r].id /\ IsRegistered(id)'
                               /\ Tenant(r) = Tenant(id)'
    BY <2>2 DEF IsRun, IsRegistered
  <2>5. pc[id] # "idle"
    BY <2>3, <2>4, RunNamed
  <2>6. IsRegistered(id) /\ Tenant(r) = Tenant(id)
    BY <2>4, <2>5, Keeps DEF GInv
  <2> QED
    BY <2>2, <2>3, <2>4, <2>6 DEF KnownOK, IsRun
<1> QED
  BY <1>1, <1>2

\* A credited change rests on two observations of the run itself.
THEOREM TransitionsAreProven == Spec => []TransitionProven
<1>1. Init => TransitionProven
  BY DEF Init, TransitionProven
<1> QED
  BY <1>1, TransitionStep, Grounding, PTL DEF Spec

\* VERIFIED is said only of what was so after the verification was asked for.
THEOREM CertificatesAreGrounded == Spec => []VerifiedIsGrounded
<1>1. Init => VerifiedIsGrounded
  BY DEF Init, VerifiedIsGrounded
<1> QED
  BY <1>1, VerifiedStep, Grounding, PTL DEF Spec

\* No verification of a registered run can miss one of its baselines.
THEOREM BaselinesAreComplete == Spec => []RunBaselinesComplete
<1>1. Init => RunBaselinesComplete
  BY DEF Init, RunBaselinesComplete
<1> QED
  BY <1>1, CompleteStep, Grounding, PTL DEF Spec

=============================================================================
