# DoneProof: specifications and proofs

This directory models the control of DoneProof (`doneproof/`): how completion
contracts are registered, how outcomes are verified against providers, what is
stored on the way and what a receipt may therefore be trusted for. It holds
TLA+ modules, TLC configurations that check them on small instances, and proofs
checked by TLAPS that hold for every instance. `PROJECT.json` is the index: the
components, the runs, the mutants, the source lines behind each definition,
the hazards of the code with the properties that cover them, the disagreements
found between code and documentation, and the theorems.

Parse a module with `tlasany M.tla`, run a check with
`tlc -config X.cfg M.tla`, check the proofs with `tlapm AssuranceProofs.tla`
(likewise `ReceiptKeysProofs`, `StoreStartProofs`, `WebhookProofs`,
`RateLimiterProofs`, `GithubProofs`, `GmailProofs` and `BatchProofs`).

## The system

DoneProof is an HTTP service between an agent that acts and a business that
wants to know whether the work was done. A *completion contract* lists
postconditions over providers (GitHub, Gmail, signed webhooks). A *run* is
registered before the agent acts; a *verification* observes every postcondition
and stores a signed *receipt* with a verdict.

| Component | State it keeps | Operations | Interacts with |
|---|---|---|---|
| API handlers (`app.py`) | none between requests; in a request: the contract, the results, the receipt | compile, register, verify a run, verify a contract, verify a batch, ingest a webhook, lists and exports | store, engine, limiter, compiler |
| Engine (`engine.py`) | none | `snapshot` (baselines), `verify` (results, transition rule, verdict), one `_verify_one` task per condition under a timeout | adapters, signer |
| Store (`store.py`) | contracts, baselines, receipts, idempotency, audit events, evidence events | one transaction per call, on SQLite or PostgreSQL; migrations at start | database |
| Adapters (`adapters/`) | none | `observe`: GitHub by number or discovery, Gmail by id or discovery, webhook evidence | providers through `resilient_get` (`http.py`), store |
| Predicates (`predicates.py`) | none | a path and an operator on a provider's state | engine |
| Limiter (`limits.py`) | admission times per key, in memory | `check` | middleware of `app.py` |
| Signer (`signing.py`) | the key, from a seed, a legacy key or a built-in one | sign, verify, verify against a pinned key | engine, exports, client |
| Compiler (`compiler.py`) | none | one call to a language model, then validation | API |
| Configuration, security, pages, client | environment, constants | parsing, key lookup, HTML, HTTP calls | all |

What makes it hard:

* **Interleaving.** Handlers await between reading and writing, several
  instances share a database, and no handler has a transaction around it: a
  verification is six or more transactions.
* **Crashes and timeouts.** A serverless invocation may be killed anywhere.
  What is committed stays, and the client retries with or without an
  Idempotency-Key.
* **A world that moves.** Providers change between the baseline and the result,
  between two conditions of a receipt, and between two pages of a listing.
* **Unreliable delivery.** Webhooks arrive late, repeatedly and out of order.
* **Edges of time.** Whole seconds are compared with microseconds, timestamps
  are compared as text, windows have boundaries.

What makes each component correct:

* *handlers and store*: contracts are immutable and receipts bind them; keys
  lead to the receipt of the same request; no workspace sees another's; what is
  answered is audited; every request ends;
* *engine*: UNKNOWN wins over guessing; a transition is credited only from a
  known unsatisfied baseline of the run itself;
* *webhook evidence*: audited once, of the right workspace, and seen once it is
  acknowledged;
* *GitHub and Gmail discovery*: a result is the only one, and an absence is
  real; a request is given up for a reason only;
* *batch*: refused as a whole or answered as a whole, and audited item by item;
* *keys*: production signs with the key it was given and never falls back to one
  of the source, receipts outlive their key, and a pinned key accepts exactly what
  it signed;
* *limiter*: no window holds more than the limit, and no refusal is unwarranted;
* *start of the store*: no row is lost, the schema is whole or absent, and
  concurrent starts end up serving.

## Modules

### Verdicts

The pure rules of `engine.py`: `Transition` (lines 157-179) and `VerdictOf`
(209-222), branch by branch in the order of the code, over a function from
conditions to statuses.

### AssuranceApi: the core

A request is a process, `pc[r]` is the place in its handler. Each store call is
one action because each opens a connection and commits; `save_contract` is two
(`SelectContract`, `InsertContract`) because PostgreSQL's default isolation lets
another request insert in between. Each provider observation of a
`gather` is one action (`Observe`), in any order. `Abort` may come between any
two and stands for a killed invocation, a lost instance or a store call that
raises.

| Action | Code |
|---|---|
| `ArriveCompile`, `ArriveRegister`, `ArriveVerifyRun`, `ArriveVerify` | the parsed request; `Parsed` fills the defaults of `CompletionContract` (`domain.py` 52-71) |
| `LookupContract` | `get_contract` and the 404 of `verify_registered_run` |
| `GetIdempotency`, `ReplayReceipt` | the key's length check, `get_idempotency`, the 409, `get_receipt` and the fall-through when it finds nothing |
| `SelectContract`, `InsertContract` | `save_contract` |
| `GetBaselines`, `Observe`, `SaveBaseline` | `get_baselines`, `_verify_one`, the loop of `register_run` |
| `SaveReceipt` | the end of `engine.verify` (no await after the gather) and `save_receipt` |
| `WriteAudit`, `SaveIdempotency`, `Reply` | `audit`, `save_idempotency`, the response |

Data that no property tells apart is abstract. Two contracts are the same text
iff they agree on id, text and timestamps; the request hash is the body itself;
random identifiers are named by the request that draws them, so they never
collide and no other client can name one before a reply has shown it. From then on
anybody may: `Nameable` has the ids shown to any workspace, and `ArriveVerify` may
put another text, or the timestamps of another contract, under one. A provider's
resource is an epoch counter, satisfied when odd, so that "unsatisfied before and
satisfied after" is a statement about epochs. `began`
is a history variable: the epochs when a request arrived.

Signing is the identity of the receipt here (the signature covers all of it).
Error texts, summaries, latencies and sanitizing are left out.

### AssuranceProperties, AssuranceGrounds, IdempotentOracle, MCAssuranceApi

`AssuranceProperties` states what the core promises, and the inductive invariant
`IInv` of its tables. `AssuranceGrounds` adds the inductive invariant `GInv` of
what its answers rest on: ids, baselines, observations and audit rows; and
`NeverStuck` and `RequestsAdvance`, how far a handler is: `Place` orders its steps
and `Left` is what a gather or a loop over baselines still has to do.
`IdempotentOracle` is the abstract specification: slots that are written
once and callers that are given what the slot holds. `Oracle == INSTANCE
IdempotentOracle WITH ...` maps the idempotency table to the slots and the
keyed 200 answers to what was given; `ImplementsOracle` is the refinement.
`MCAssuranceApi` adds the symmetry of requests; `AssuranceProofs` has the proofs.

### WebhookEvidence

Senders, deliveries and verifications over `evidence_events`. An event is what
the sender signs, and its id is a hash of just that. `Receive` checks the
replay window before the body is awaited, `SaveEvent` is INSERT OR IGNORE,
`AuditEvent` and `Acknowledge` follow, and `Die` may come between. The clock has
half-second ticks: events have whole seconds, boundaries have fractions and an
offset. `NotBefore` is the comparison of the ISO texts; `Newest` is ORDER BY
occurred_at DESC, which leaves the events of one second in any order. Requests
with a wrong signature change nothing and are not actions. Sources are assumed
to have different secrets. `MCWebhookEvidence` gives the sources their owners and
scales drifts and offsets to the instance's few seconds. `WebhookProofs` has the
proofs.

### SqliteMigration and StoreStart

`SqliteMigration` is `_init_sqlite` statement by statement, by several processes
on one file, with `save_contract` calls of the processes that already serve. A
statement that raises leads to the degraded app of `create_runtime_app`. The
contracts table, its legacy copy, their keys and rows are the state; the other
tables are only created if they do not exist and are left out.

`StoreStart` extends it with the dispatch of `Store.__init__` on the DSN and with
`_init_postgres`: `Connect`, `Lock` (pg_advisory_xact_lock), `Look` and `Make`
for each statement, `Commit`. That IF NOT EXISTS is no protection against a
concurrent transaction is in `Make`: it waits for whoever has made the same
thing and raises when that one commits. A dead process leaves its session, and
the lock, until PostgreSQL notices (`Reap`); a connection may be refused or break
(`LoseConnection`).

### RateLimiter

`check` is one action: it holds a lock, and the middleware calls it on the event
loop. `Stale` counts what the loop pops. The 60 seconds are `Window`, counted in
ticks finer than a second because Retry-After is truncated to seconds. `Keys` is
not empty: without authentication all requests are counted under "development",
and with it those without a workspace under "unauthorized".
`RateLimiterProofs` has the proofs.

### GithubDiscovery

The repository is a sequence of resources, changed by `Create`, `Retitle` and
`Delete` between any two requests of the adapter. `ListPage` is one iteration of
the page loop with the decision that follows the last one, `FetchNumber` the
read of the only candidate, `GiveUp` every way to UNKNOWN by an error. What
GitHub does (newest first, `since` for issues, pull requests among the issues,
positions that shift) is modelled from how the adapter uses it: an item's
`Position` is the number of listed resources from it upwards, and a `Page` is a
range of positions. A candidate is a pair of a page and a number, so that one
that is seen on two pages counts twice, as in the code. `GithubProofs` has the
proofs.

### Predicates, ResilientGet, GmailDiscovery

`Predicates` is `resolve_path` and `evaluate` over values that keep their Python
type apart: null, strings, lists, maps and `_MISSING`. Strings are taken from a
sequence of words that gives their order; that Python iterates a string by its
letters is abstracted to equality, as none of the words shares its letters with
another one. The loop over the parts of a path is a recursive function, so that
it can be reasoned about.

`ResilientGet` is the loop of `resilient_get` as actions of whoever calls it:
`Attempt` counts, `Returns` says whether an answer is passed on. `faults` and
`hard` are history: how many transient faults there were, and whether there was
any other.

`GmailDiscovery` is `_verify_one` for a condition on a mailbox, from the selector
to the status. `Boundary` is what the engine forces and the adapter uses;
`ListMessages` is the search (whole seconds, one page), `FetchDetail` one pass of
the loop over the listed messages, `Count` the decision, `FetchMessage` the read
by id, `Cut` the engine's timeout. Mail arrives and is deleted between any two
requests. `MCGmailDiscovery` chooses the mails around the boundary and the
conditions that are evaluated; `GmailProofs` has the proofs.

### BatchVerification

`POST /v1/verify/batch` beside itself: two requests save their contracts one by
one (`SelectContract`, `InsertContract`, as in the core), verify every item at
once, then save and audit one receipt after another. `Group` and `Total` are the
two counts of `Store.stats`, which have a snapshot each; `Rounded` is Python's
`round` to one decimal, with either neighbour for a tie. It is a module of its
own because a batch has no idempotency key and shares nothing with the other
handlers but the two tables. `BatchProofs` has the proofs.

### ReceiptKeys

`create_app`'s guards and `ReceiptSigner.__init__` decide from the settings
whether an instance serves and with which key (`StartupError`, `KeyOf`);
`Start` is also a restart with other settings. The legacy key may be any text, the
example and the built-in one included. `Issue` signs and stores, `Pin` is
a reader who keeps what `/v1/signing-key` shows. A hash is the text itself and a
signature names its key, so `Copies` can enumerate what can be put together
without a key.

## Runs

Passing runs, with 2 workers:

| Run | Instance | What it shows |
|---|---|---|
| `idempotency` | 3 requests, 1 key, 1 caller-chosen contract id or a drawn one, at both verification endpoints | races for a key and a contract id, with a death anywhere: immutability, binding, one answer per key, audited answers, the oracle |
| `tenants` | 2 requests, 2 workspaces, 2 keys (one too long), all 4 endpoints, a provider that may fail | nothing crosses workspaces; audit rows are truthful; a request that leaves its id to the server meets no row under it, on any endpoint; the inductive invariant `GInv` (with `IInv` and the type invariant in it); every request that arrives ends |
| `transitions` | 1 run and its verifications, 2 conditions that require a change, 3 changes of each resource, a provider that may fail | a credited transition and VERIFIED rest on what the provider held; an incomplete set of baselines is never used |
| `webhooks` | 3 deliveries, 2 events, 2 workspaces, a drifting sender's clock, boundaries with an offset either way | repeated, late, reordered deliveries: audited once, seen once acknowledged, never another workspace's |
| `migration` | 2 processes and 2 deaths; SQLite with 2 workspaces and 2 ids, or PostgreSQL with a schema of 2 statements and its version row | rows survive, starts at one file never put each other all out, and one process serves in the end; on PostgreSQL the schema is whole or absent, no start puts another one out, and every start serves unless its connection fails |
| `limiter` | 2 keys, 2 per window of 4 ticks, 9 ticks | every spacing of requests over more than two windows |
| `discovery` | issues or pull requests, 4 resources, 2 to a page, 1 edit | a whole listing misses nothing |
| `gmail` | 3 messages around a boundary within a second, 2 to a list, 1 change, 2 attempts, 2 faults; 8 operators | a condition passes on what fits only, and on no message exactly where `PassesOnNothing` says so; a whole list misses nothing; no request is given up without a cause |
| `batch` | 2 batches of up to 2 items, 2 contract ids with 2 texts, deaths, an overview | no partial refusal or answer, at most one receipt unaudited, a rate that is wrong by its rounding only |
| `keys` | 2 instances, 2 starts with any settings, 2 receipts | a production start that serves with the key it was given, rotation, what a pinned key proves |

Why the bounds are enough. Every interaction of the core is between a request and
one row that another request writes: two requests race, a third sees the
outcome, and one key, one id and one text more add only relabelled copies. A
registered run is read by no request but its own verifications, which share no
row with each other when they carry no key, so `transitions` needs one of each. The
epochs allow unsatisfied, satisfied, unsatisfied, satisfied, so a state can be
left and reached again between a baseline and a result. Three deliveries are a
crashed one, its retry and a racing duplicate. Two processes are all that
contend for one rename, and two deaths let a process be cut short, start again
and be cut short again. Two resources per page and four
resources make a listing with an inner page boundary and an item that crosses it
in each direction. Three messages and two to a list are one that is found, one that
competes and one that is cut off; two faults with two attempts exhaust a retry or
spread over two requests; the boundary in the middle of a second, with mail
before it, at it and after it, has every rounding. Two batches of two items
contend for two ids in either order. Two statements are one to be half-way
between. Two starts are one and a rotation, or two instances with different keys.
The theorems below remove the bounds from every safety property of these runs;
`discovery`, for one, never comes to its limit of pages, and `transitions` has no
contract that nobody registered. The
runs of `webhooks`, `limiter`, `discovery`, `gmail` and `batch` check as `Inv` the
invariant their proofs are built on.

`CHECK_DEADLOCK FALSE` is set everywhere because every instance has finitely many
requests, deliveries or ticks, and rests when they are used up.

### Runs that find a disagreement

Each checks one sentence of a document or a comment, and TLC shows a behaviour of
the code against it.

| Run | Says | Does |
|---|---|---|
| `stranded_rows` | "without losing data" (store.py) | a death after the rename strands the rows |
| `unread_mail` | what is inaccessible becomes UNKNOWN rather than being guessed (docs/ARCHITECTURE.md) | a listed message that answers 403, or 429 for longer than the retries, is skipped: a condition FAILs, or `not_exists` PASSes, for a message that is there |

Other departures that the models contain and no run states; the properties above
hold in spite of them, under the conditions they name:

* `POST /v1/runs/{id}/verify` accepts any stored contract, so one that
  `/v1/verify` stored gets a receipt that says `registered` (docs/RECEIPTS.md
  means runs registered before execution); it has no baselines, so no
  transition is credited (`TransitionProven`);
* webhook timestamps are compared as text with the boundary in its own offset:
  one west of UTC lets an earlier event through, one east of it hides later ones
  (engine.py: "always wins"); `EvidenceIsOwn` and `AcknowledgedIsSeen` say for
  which offsets they hold;
* the GitHub listing stops after five pages without saying so, and the Gmail
  list after 100 messages: a second candidate beyond goes unnoticed
  (docs/INTEGRATION_GUIDE.md: "Multiple candidates return `UNKNOWN`");
  `NothingMissed` is about whole lists;
* an empty `message_id` is an id to the engine, which then forces no boundary, and
  a discovery to the Gmail adapter, which uses the caller's `created_after`;
* a refused batch leaves the contracts before the conflict stored;
* the overview's counts are of different moments, so a rate may be of no single
  moment, and it is rounded to a tenth of a percent: 2000 VERIFIED and one FAILED
  give 100.0 (store.py 383). It is never above 100.0, and 100.0 only when at most
  one receipt in 2000 is not VERIFIED (`RateIsTrue`);
* a legacy key that equals the text built into the signer (signing.py 25) is
  accepted in production, as config.py 106 refuses only the example:
  `FailClosed` says that the key is the one that was configured, and that no
  instance falls back to the built-in one;
* a blank path stands for the whole state, which is null when there is no message:
  `neq`, `eq` null and `contains_all` of nothing then pass without one, although
  predicates fail on what is missing; `PassIsGrounded` says that these and
  `not_exists` are all;
* the default timeouts of the Gmail client and of the engine are both 15 s
  (gmail.py 25, config.py 139), so a single read timeout is cut by the engine before
  it is retried: `GivenUpHasCause` counts faults and not time, and what is cut
  (`Cut`) is UNKNOWN;
* that text compares by bytes holds of SQLite, and of PostgreSQL under the C
  collation; under a linguistic one an earlier event of the boundary's second, or a
  boundary of another offset, can compare the other way;
* two requests with one key that race, or a retry after a death between
  `save_receipt` and `save_idempotency`, store two receipts, of which callers
  are given one (`SameKeySameAnswer`); overview counts see both;
* a verification or a webhook whose instance dies before `audit` leaves a
  receipt or an event without an audit row; the sender's redelivery is a
  duplicate and does not write it either;
* a byte-identical `POST /v1/verify` that leaves the timestamps out is refused
  for "different content" when its contract id is the caller's;
* of two webhook events of one second the older may be used;
* what is created in the second of the registration is older than its boundary,
  and a resource seen on two pages counts as two candidates.

## Fairness

`AssuranceApi` assumes `WF_vars(Handle(r))` for each request: an event loop that
lives keeps running its tasks, and each observation ends because
`asyncio.wait_for` bounds it and its exceptions become UNKNOWN (`Outcomes` is
never empty). Nothing is assumed of arrivals, of providers or of `Abort`; a
request whose instance dies has ended. `StoreStart` assumes of each started
process that it runs on, as straight-line code does, and of PostgreSQL that it
ends the session of a client that is gone; it bounds the deaths. Weak
fairness is enough for the lock: each start takes it once. The other modules state safety
only: their liveness would be that straight-line code ends.

## Proofs

`AssuranceProofs` proves, for any sets of requests, workspaces, keys, ids and
conditions and any number of provider changes, under the named assumptions of
`AssuranceApi` (required conditions exist, `Absent` is nothing else, caller ids
are not drawn ids):

| Theorem | Property |
|---|---|
| `TypeCorrect` | `TypeOK` |
| `Invariance` | `IInv` |
| `ContractsAreImmutable` | `ContractImmutable` |
| `ReceiptsBindContracts` | `ReceiptBindsContract` |
| `KeysLeadToReceipts` | `IdempotencyReferential` |
| `AnswersAreOwn` | `AnswerIsOwn` |
| `SameKeyGetsSameAnswer` | `SameKeySameAnswer` |
| `RememberedKeysReplay` | `RememberedIsReplayed` |
| `OracleIsImplemented` | `ImplementsOracle` |
| `VerdictMeaning` | each verdict of the README's table, and that the last branch of `_verdict` is dead |

The argument. None of these is inductive alone: that a keyed answer is the
remembered receipt needs to know what the handler held when it wrote the row,
and that depends on where it may be and what is stored by then. `IInv` therefore
says, for every control point, what the handler has in memory (`HandlerInv`),
that the tables obey their primary keys (`UniqueRows`), and that memory points
at stored rows (`ContractHeld`, `ReceiptOrigin`, `ReceiptHeld`, `KeyHeld`,
`IdempotencyReferential`). A step moves one request (`Others`, `HandlerLift`),
rows are only added and each table by one action (`TableSteps`, `Monotone`), so
each part has to be looked at only for the action that moves the request and
the action that adds the row. The action properties and the refinement follow
from `IInv` and the effect of one step.

`ReceiptKeysProofs` proves, for any instances, keys, contents, starts and
receipts, under the assumptions of `ReceiptKeys` (the values of the settings are
apart from each other and from the keys, the bounds are numbers):

| Theorem | Property |
|---|---|
| `KeysInvariance` | `KInv` |
| `ServesSafely` | `Inv` of `ReceiptKeys` |
| `ReceiptsOutliveKeys` | `IssuedStaysValid` |
| `PinnedKeyDecides` | `TrustedIsIssued` |

That a receipt outlives its key is not inductive by itself: `Verify` is a
statement about one receipt and one key, and what has been stored comes from
keys that no instance has any more. `KInv` remembers of each stored receipt only
that the signer made it with some key (`Issued`). What is put together out of
stored receipts then verifies only if its payload is the one that was signed.

`StoreStartProofs` proves all the invariants of the run *migration*, for any
processes, workspaces, ids, deaths and number of statements, under the
assumptions that the default workspace is one, that there is a statement, and
that no process has the name of a state of the lock:

| Theorem | Property |
|---|---|
| `StartInvariance` | `StartInv` |
| `StartsLeaveSomebody` | `SomebodyIsLeft` |
| `StartsDoNotCollide` | `NobodyIsPutOut` |
| `SchemaNeverHalf` | `StoreInv`, which has both and `SchemaIsWhole` |
| `MigrationDestroysNothing` | `NothingDestroyed` |
| `UncutMigrationKeepsAll` | `MigrationKeepsAll` |
| `ServedTableIsScoped` | `ServedIsScoped` |

`NothingDestroyed` needs to know that nobody drops what is not copied, and that
nobody else makes a new old table in between. For SQLite `FileInv` says so: one
process migrates at a time, because the rename needs the name
`contracts_legacy_global_pk` to be free (`OneMigrates`); a table with the bare key is
never made (`BareKeyIsPast`); who is about to drop has copied (`CopiedFirst`).
That one at a time is all the protection there is: a second process fails and
is degraded. For PostgreSQL `DatabaseInv` says that whoever is inside the transaction
has the lock, and has made exactly what was missing up to its statement
(`HolderMakes`). A commit is then the whole schema, and the branch of `Make` in
which a CREATE raises is never taken (`OnlyLostFail`).

`SomebodyIsLeft` is the safety half of `SomebodyServes`: processes at one file do
degrade each other, but never all of them. That nobody has failed yet is not
inductive: it matters who will. `SomebodyGoesOn` says who does not, for each of the
states the two tables can be in. While the old table is there somebody is `Fine`:
before the column is looked for, past the key, or about to create a table that is
missing. Without it, somebody that can still add the column or rename is enough,
because the first rename finds the name free. The one statement that could take the
last one out is the copy, when a key clashes: `CopiesAtPeace` says that the new
table is then empty, or whoever has written to it serves. `NobodyIsPutOut` is
the same half of `EverybodyServes`: a start is degraded by its own connection
only, and whoever has the lock is at a statement that waits for nobody.

The second part of `AssuranceProofs` proves the rest of the core's invariants, for
the same constants and assumptions (and that `Absent` is no observation):

| Theorem | Property |
|---|---|
| `Grounding` | `GInv` |
| `AnswersAreAudited` | `AnsweredIsAudited` |
| `AuditTellsTheTruth` | `AuditIsTruthful` |
| `DrawnIdsNeverConflict` | `DrawnIdNeverConflicts` |
| `TransitionsAreProven` | `TransitionProven` |
| `CertificatesAreGrounded` | `VerifiedIsGrounded` |
| `BaselinesAreComplete` | `RunBaselinesComplete` |
| `NoHandlerIsStuck` | `NeverStuck` |
| `HandlersRunInNoCircle` | `RequestsAdvance` |

These rest on what no handler checks, and `GInv` says it. An id drawn at random
cannot be named by another request before a reply, the audit log or a receipt has
shown it, and by then the contract is stored and its baselines are complete
(`NamedHeld`, `ShownComplete`): that is why a set of baselines cut short by a
death is never used, and why a request that draws never meets a conflict: the one
row under its id is its own, or of one that came after it (`DrawnRows`). An id
means a run in the workspace that registered it only (`IsRun`); elsewhere it may
be anybody's contract. An observation in memory was made after its request arrived and
was so in the provider (`ObservedHeld`), a baseline row is what its own run
observed (`BaselineRows`), and what a verification has read of it is not younger
than what it observes itself (`KnownHeld`): together they order the two moments of
a transition. And a key that would replay a receipt has its audit row
(`AuditHeld`), because `audit` comes before `save_idempotency`.

The last two are what `EveryRequestEnds` rests on beside fairness. Every step of a
handler moves it on or leaves less to do where it is, and nobody else's step takes
that back (`HandlersRunInNoCircle`), although the loop over the baselines is
measured by a table that all requests share: a run saves under the id that it has
drawn, and nobody else does (`SavesOwn`, `OthersDoNotInterfere`). A gather or a loop over baselines is never entered with
nothing to do, in which case no step would end it (`NoHandlerIsStuck`): what a run
that has not saved yet finds under its own id is nothing (`Unsaved`). What is left
to TLC is the step from there to the end under weak fairness, with ENABLED.

`WebhookProofs` proves, for any sources, workspaces, deliveries, verifications and
drifts of the senders' clocks:

| Theorem | Property |
|---|---|
| `EvidenceInvariance` | `WInv` |
| `EventsAuditedOnce` | `Inv` of `WebhookEvidence` |
| `EvidenceBelongs` | `EvidenceIsOwn` |
| `AcknowledgedSeen` | `AcknowledgedIsSeen` |

An event is audited once because the handler that inserted its row is the only one
that will audit it, and there is no row twice (`HandlersOK`, `RowsOK`). The
comparison as text is where it could go wrong: `TextNotEarly` shows that whoever
passes it is not earlier than a boundary in UTC or east of it, `TextNotLate` that
whoever is not earlier than a boundary in UTC or west of it passes. Neither holds
for the other offsets, which is why each property names its own.

`RateLimiterProofs` proves, for any keys, limit, length of the window and times:

| Theorem | Property |
|---|---|
| `Limiting` | `LInv` |
| `WindowNeverOverrun` | `WindowBound` |
| `DequeIsHistory` | `Inv` of `RateLimiter` |
| `RefusalsAreEarned` | `RefusedOnlyWhenFull` |
| `AdviceIsClose` | `RetryAfterIsClose` |

The deque is the end of the history of admissions, in order. Because of the order
what is stale is a beginning of it (`StaleIsPrefix`), so after pruning the deque is
the window itself (`PrunedIsWindow`) and its length counts it (`CheckCounts`). That
no earlier window is overrun either needs the past: an admission adds to no window
that ended before.

`GithubProofs` proves, for any repository, page size, page limit and number of
creations and edits:

| Theorem | Property |
|---|---|
| `ListingMissesNothing` | `Inv` of `GithubDiscovery`, with `NothingMissed` in it |

A listing that moves under the reader could skip what moves up, which only a
deletion makes it do; `whole` is about listings without one. While nothing is
deleted a position only grows (`PositionsGrow`), so what is not on a page that was
read is still ahead (`ListingOK`). A listing may then stop for two reasons. A
short page has nothing after it: there are no gaps between positions, by induction
on the least counterexample (`EveryPlaceIsTaken`, `PlacesAreFull`, `PageIsFull`). And
an item from before the boundary has every later one before it, as the order of
the listing is that of creation (`OlderComesLater`); that holds for the issues only
because an issue of a later second is listed by `since` in any case (`LaterIsListed`).

`GmailProofs` proves, for any messages, mails, page size, conditions, attempts and
faults, under the assumptions that a mail has a time and that a predicate has an
operator of the eight and a path of strings:

| Theorem | Property |
|---|---|
| `ObservationInvariance` | `GmInv` |
| `ObservationsAgree` | `Inv` of `GmailDiscovery` |
| `PassesAreGrounded` | `PassIsGrounded` |
| `NothingIsMissed` | `NothingMissed` |
| `GivingUpHasCause` | `GivenUpHasCause` |

What fitted all along is in the list if that is whole (`WholeSecond`: the second of
the query is not after the boundary), and from then on waits, is a candidate or was
skipped (`MessagesOK`). An attempt beyond the first has cost a fault, so that with
fewer faults than attempts no transient answer is the last one (`CallsOK`,
`AttemptCounts`). What passes where there is no message is a fact about the loop over
a path: its function exists (`LoopExists`) and finds nothing in what is missing
(`NothingFound`), both by the least counterexample, unless there is no part to look
up: then null is what is compared (`NullApplied`), and `NothingPasses` has both.

`BatchProofs` proves, for any batches, contract ids, texts and sizes:

| Theorem | Property |
|---|---|
| `BatchInvariance` | `BInv` |
| `BatchTablesAgree` | `Inv` of `BatchVerification` |
| `RefusalLeavesNothing` | `RefusedAsAWhole` |
| `ItemsAreAudited` | `AuditedItemByItem` |
| `RateNeverOverstates` | `RateIsTrue` |

A batch has stored the contracts before the item it is at, or found them stored by
another one (`ContractsOK`), and the receipts before it are audited (`ReceiptsOK`);
what it lost an id to stays there, as rows are never replaced (`RefusedOK`). The
rate needs that receipts are only added: the total, counted later, has all that
were counted as verified (`OverviewOK`). How far it can be off is then arithmetic
about the nearest tenth (`Rounding`, `RateBounds`).

Only model-checked: liveness, which rests on fairness and so on ENABLED, out of the
prover's reach (`EveryRequestEnds`, `SomebodyServes`, `EverybodyServes`). What each
of them needs of safety is proved: `NoHandlerIsStuck` and `HandlersRunInNoCircle`,
`StartsLeaveSomebody`, `StartsDoNotCollide`. Every invariant and every other action
property of the passing runs is a theorem.

## Order of the modules

`Verdicts`, `AssuranceApi`, `AssuranceProperties`, `IdempotentOracle`,
`AssuranceGrounds` are the core and were written first, then the parts whose
answers it takes as given: `WebhookEvidence`, `GithubDiscovery`, `Predicates`,
`ResilientGet` and `GmailDiscovery`; then what the core stands on, `SqliteMigration`
and `StoreStart`, `RateLimiter`, `ReceiptKeys`; then `BatchVerification`, which
runs beside it. `AssuranceApi` extends `Verdicts`, `StoreStart` extends
`SqliteMigration`, `GmailDiscovery` composes `Predicates` and `ResilientGet`. What could still be added is under
*Not modelled*.

## Not modelled

The web pages, the demo data and the type declarations have no state, and nor has
the client beyond `verify_receipt`. Authentication is a lookup whose result, a
tenant, is part of every request; configuration is modelled where it decides
whether an instance serves and with which key. The compiler's call to a language
model is external, and its result is any contract with a drawn id. Cryptography is
assumed: two different texts have different hashes, and what is signed was
signed by the key's owner. Redaction, normalisation of provider states, the
durations of the overview, lists, exports and pages change no state and decide
nothing. SQL is modelled by what the statements do. PROJECT.json lists every
part with its status.
