------------------------- MODULE BatchVerification -------------------------
(***************************************************************************)
(* POST /v1/verify/batch (verify_batch in doneproof/app.py) and, beside    *)
(* it, GET /v1/overview (Store.stats in doneproof/store.py).  A batch      *)
(* saves its contracts one by one, verifies all of them at once, and then  *)
(* saves a receipt and an audit row for each.  Several instances work on   *)
(* one workspace, and a store call is a step.                              *)
(***************************************************************************)
EXTENDS Integers, Sequences, FiniteSets

CONSTANTS
  Batches,   \* the requests
  Ids,       \* contract ids
  Texts,     \* contract contents
  Contracts, \* the contracts that are asked for
  MaxBatch,  \* settings.max_batch_size
  Absent     \* no row

ASSUME BatchAssumption ==
  /\ MaxBatch \in Nat \ {0}
  /\ Absent \notin Texts
  /\ Contracts \subseteq [id : Ids, text : Texts]

Bodies == UNION {[1..n -> Contracts] : n \in 0..(MaxBatch + 1)}
Outcomes == {"VERIFIED", "FAILED"}
Rows == [batch : Batches, item : 1..MaxBatch, contract : Contracts, verdict : Outcomes]

VARIABLES
  contracts, \* the row under each id, or Absent
  receipts,  \* rows of receipts
  audits,    \* <<batch, item>> of the audit rows
  pc,        \* where each request is
  body,      \* the items of each request
  next,      \* the item of the loop in progress
  verdicts,  \* item -> verdict, or Absent: what the gather has so far
  reader,    \* the overview: "idle", "grouped" or "done"
  counted,   \* [verified, others, total, rate] of the overview
  unverified \* history: the receipts not VERIFIED when the total was counted

tables == <<contracts, receipts, audits>>
overview == <<reader, counted, unverified>>
vars == <<tables, pc, body, next, verdicts, overview>>

Running == {"select", "insert", "verify", "receipt", "audit", "reply"}
Finished == {"answered", "refused", "failed", "aborted"}

Init ==
  /\ contracts = [i \in Ids |-> Absent]
  /\ receipts = {} /\ audits = {}
  /\ pc = [b \in Batches |-> "idle"]
  /\ body = [b \in Batches |-> <<>>]
  /\ next = [b \in Batches |-> 1]
  /\ verdicts = [b \in Batches |-> [i \in 1..MaxBatch |-> Absent]]
  /\ reader = "idle"
  /\ counted = [verified |-> 0, others |-> 0, total |-> 0, rate |-> 0]
  /\ unverified = 0

-----------------------------------------------------------------------------
(* The request.                                                            *)

Item(b) == body[b][next[b]]
Last(b) == next[b] = Len(body[b])
Goto(b, label) == pc' = [pc EXCEPT ![b] = label]

\* The loops' step: the next item, or what follows the loop.
Advance(b, again, after) ==
  /\ Goto(b, IF Last(b) THEN after ELSE again)
  /\ next' = [next EXCEPT ![b] = IF Last(b) THEN 1 ELSE @ + 1]

\* 400 for an empty batch, 413 for one that is too long.
Arrive(b, items) ==
  /\ pc[b] = "idle"
  /\ body' = [body EXCEPT ![b] = items]
  /\ Goto(b, IF Len(items) \in 1..MaxBatch THEN "select" ELSE "refused")
  /\ UNCHANGED <<tables, next, verdicts, overview>>

\* What follows save_contract for an item.
AfterSave(b) == Advance(b, "select", "verify")

\* Mutant of SelectContract: any row under the id is a conflict.
SelectContract_AnyRow(b) ==
  /\ pc[b] = "select"
  /\ Goto(b, IF contracts[Item(b).id] = Absent THEN "insert" ELSE "refused")
  /\ UNCHANGED <<tables, body, next, verdicts, overview>>

\* The SELECT of save_contract: other content under the id refuses the batch
\* (409); the items saved so far stay.
SelectContract(b) ==
  LET row == contracts[Item(b).id] IN
  /\ pc[b] = "select"
  /\ CASE row = Absent        -> Goto(b, "insert") /\ UNCHANGED next
       [] row = Item(b).text  -> AfterSave(b)
       [] row \in Texts \ {Item(b).text} -> Goto(b, "refused") /\ UNCHANGED next
  /\ UNCHANGED <<tables, body, verdicts, overview>>

\* Mutant of InsertContract: INSERT OR REPLACE.
InsertContract_Replace(b) ==
  /\ pc[b] = "insert"
  /\ contracts' = [contracts EXCEPT ![Item(b).id] = Item(b).text]
  /\ AfterSave(b)
  /\ UNCHANGED <<receipts, audits, body, verdicts, overview>>

\* The INSERT of save_contract; the primary key may have been taken meanwhile.
InsertContract(b) ==
  /\ pc[b] = "insert"
  /\ IF contracts[Item(b).id] = Absent
       THEN contracts' = [contracts EXCEPT ![Item(b).id] = Item(b).text] /\ AfterSave(b)
       ELSE Goto(b, "failed") /\ UNCHANGED <<contracts, next>>
  /\ UNCHANGED <<receipts, audits, body, verdicts, overview>>

\* One engine.verify of the gather ends, in any order.
Verify(b, i) ==
  /\ pc[b] = "verify" /\ i \in DOMAIN body[b] /\ verdicts[b][i] = Absent
  /\ \E v \in Outcomes : verdicts' = [verdicts EXCEPT ![b][i] = v]
  /\ Goto(b, IF \E j \in DOMAIN body[b] \ {i} : verdicts[b][j] = Absent
             THEN "verify" ELSE "receipt")
  /\ UNCHANGED <<tables, body, next, overview>>

\* One call of save_receipt, or several, before an audit row.
SaveItems(b, items) ==
  /\ pc[b] = "receipt"
  /\ receipts' = receipts \cup
       {[batch |-> b, item |-> i, contract |-> body[b][i], verdict |-> verdicts[b][i]] :
          i \in items}
  /\ Goto(b, "audit")
  /\ UNCHANGED <<contracts, audits, body, next, verdicts, overview>>

\* Mutant of SaveReceipt: all receipts are saved before the first audit row.
SaveReceipt_AllFirst(b) == SaveItems(b, DOMAIN body[b])

\* store.save_receipt of the item in the loop
SaveReceipt(b) == SaveItems(b, {next[b]})

\* store.audit of the same item
WriteAudit(b) ==
  /\ pc[b] = "audit"
  /\ audits' = audits \cup {<<b, next[b]>>}
  /\ Advance(b, "receipt", "reply")
  /\ UNCHANGED <<contracts, receipts, body, verdicts, overview>>

Reply(b) == pc[b] = "reply" /\ Goto(b, "answered")
            /\ UNCHANGED <<tables, body, next, verdicts, overview>>

\* The instance dies, or a store call raises.
Abort(b) == pc[b] \in Running /\ Goto(b, "aborted")
            /\ UNCHANGED <<tables, body, next, verdicts, overview>>

-----------------------------------------------------------------------------
(* Store.stats: statements of one connection, each with its own snapshot.  *)

Verified == {x \in receipts : x.verdict = "VERIFIED"}

\* SELECT verdict, COUNT( * ) ... GROUP BY verdict
Group ==
  /\ reader = "idle"
  /\ reader' = "grouped"
  /\ counted' = [counted EXCEPT !.verified = Cardinality(Verified),
                                !.others = Cardinality(receipts \ Verified)]
  /\ UNCHANGED <<tables, pc, body, next, verdicts, unverified>>

\* round(v / t * 100, 1) in tenths of a percent: the nearest one; in the middle
\* between two, the floating-point quotient decides.
Rounded(v, t) ==
  LET low == (1000 * v) \div t
  IN  {n \in {low, low + 1} : 2 * (1000 * v - n * t) <= t /\ 2 * (n * t - 1000 * v) <= t}

Rates(v, t) == IF t = 0 THEN {0} ELSE Rounded(v, t)

\* Mutant of Total: the total is of the first query, and the verdicts are
\* grouped by the second.
Total_First ==
  /\ reader = "grouped"
  /\ reader' = "done"
  /\ \E rate \in Rates(Cardinality(Verified), counted.verified + counted.others) :
       counted' = [counted EXCEPT !.verified = Cardinality(Verified), !.rate = rate,
                                  !.total = counted.verified + counted.others]
  /\ unverified' = Cardinality(receipts \ Verified)
  /\ UNCHANGED <<tables, pc, body, next, verdicts>>

\* SELECT COUNT( * ), and verification_rate
Total ==
  /\ reader = "grouped"
  /\ reader' = "done"
  /\ \E rate \in Rates(counted.verified, Cardinality(receipts)) :
       counted' = [counted EXCEPT !.total = Cardinality(receipts), !.rate = rate]
  /\ unverified' = Cardinality(receipts \ Verified)
  /\ UNCHANGED <<tables, pc, body, next, verdicts>>

-----------------------------------------------------------------------------
Handle(b) ==
  \/ SelectContract(b) \/ InsertContract(b)
  \/ \E i \in 1..MaxBatch : Verify(b, i)
  \/ SaveReceipt(b) \/ WriteAudit(b) \/ Reply(b)

Next ==
  \/ \E b \in Batches :
       Handle(b) \/ Abort(b) \/ \E items \in Bodies : Arrive(b, items)
  \/ Group \/ Total

Spec == Init /\ [][Next]_vars

-----------------------------------------------------------------------------
(* Properties.                                                             *)

Own(b) == {x \in receipts : x.batch = b}

\* The tables, the requests and the overview are of their types.
TypeOK ==
  /\ contracts \in [Ids -> Texts \cup {Absent}]
  /\ receipts \subseteq Rows
  /\ audits \subseteq Batches \X (1..MaxBatch)
  /\ pc \in [Batches -> {"idle"} \cup Running \cup Finished]
  /\ body \in [Batches -> Bodies]
  /\ next \in [Batches -> 1..MaxBatch]
  /\ verdicts \in [Batches -> [1..MaxBatch -> Outcomes \cup {Absent}]]
  /\ reader \in {"idle", "grouped", "done"}
  /\ counted \in [verified : Nat, others : Nat, total : Nat, rate : Nat]
  /\ unverified \in Nat

\* The contract of a receipt is what the database holds under its id for ever,
\* whichever batches race for the id.
ReceiptBindsContract == \A x \in receipts : contracts[x.contract.id] = x.contract.text

\* The database holds the content of an item; another request asks for an id.
Holds(b, i) == contracts[body[b][i].id] = body[b][i].text
Rival(b, id) ==
  \E c \in Batches \ {b} : pc[c] # "idle" /\ \E j \in DOMAIN body[c] : body[c][j].id = id

\* The loop over the contracts is at an item; what is behind it is stored, and
\* what has come under the id since it was looked up is another request's.
ContractsOK(b) ==
  /\ pc[b] \in Running \cup {"answered", "failed"} => Len(body[b]) \in 1..MaxBatch
  /\ pc[b] \in Running => next[b] \in DOMAIN body[b]
  /\ pc[b] \in {"idle", "verify"} => next[b] = 1
  /\ pc[b] \in {"select", "insert"} => \A i \in 1..(next[b] - 1) : Holds(b, i)
  /\ pc[b] \in {"verify", "receipt", "audit", "reply"} => \A i \in DOMAIN body[b] : Holds(b, i)
  /\ pc[b] = "insert" /\ contracts[Item(b).id] # Absent => Rival(b, Item(b).id)
  /\ pc[b] = "failed" => \E i \in DOMAIN body[b] : Rival(b, body[b][i].id)

Audited(b, i) == <<b, i>> \in audits
Kept(b, i) == Audited(b, i) /\ \E x \in Own(b) : x.item = i

\* Nothing is saved before all verdicts are there; then the loop leaves a
\* receipt and an audit row behind it, and only the receipt in hand is open.
ReceiptsOK(b) ==
  /\ pc[b] \in {"idle", "select", "insert", "verify", "refused", "failed"} =>
       Own(b) = {} /\ \A i \in 1..MaxBatch : ~Audited(b, i)
  /\ \A x, y \in Own(b) : Audited(b, x.item) \/ Audited(b, y.item) \/ x = y
  /\ pc[b] = "receipt" => \A x \in Own(b) : Audited(b, x.item)
  /\ pc[b] = "audit" => /\ \E x \in Own(b) : x.item = next[b]
                        /\ \A x \in Own(b) : x.item = next[b] \/ Audited(b, x.item)
  /\ pc[b] \in {"receipt", "audit"} => /\ \A i \in DOMAIN body[b] : verdicts[b][i] \in Outcomes
                                       /\ \A i \in 1..(next[b] - 1) : Kept(b, i)
  /\ pc[b] \in {"reply", "answered"} => \A i \in DOMAIN body[b] : Kept(b, i)

\* Between the overview's two statements receipts are added, none is taken away.
OverviewOK ==
  reader = "grouped" => counted.verified <= Cardinality(Verified)

\* The tables are of their types, receipts keep their contracts, and every
\* request and the overview agree with the tables.
Inv ==
  /\ TypeOK /\ ReceiptBindsContract /\ OverviewOK
  /\ \A b \in Batches : ContractsOK(b) /\ ReceiptsOK(b)

\* A batch that is refused or fails in its contracts leaves no receipt and no
\* audit row, and there is another content, or another batch, it lost to.
RefusedAsAWhole ==
  \A b \in Batches :
    /\ pc[b] \in {"refused", "failed"} =>
         Own(b) = {} /\ \A i \in 1..MaxBatch : <<b, i>> \notin audits
    /\ pc[b] = "refused" /\ Len(body[b]) \in 1..MaxBatch =>
         \E i \in DOMAIN body[b] :
           contracts[body[b][i].id] \in Texts \ {body[b][i].text}
    /\ pc[b] = "failed" =>
         \E c \in Batches \ {b} : \E i \in DOMAIN body[b], j \in DOMAIN body[c] :
           body[b][i].id = body[c][j].id

\* Wherever an instance dies, at most one receipt of its batch is not audited;
\* and an answer, of a batch of a size the configuration allows, has a receipt
\* with an audit row for each item.
AuditedItemByItem ==
  \A b \in Batches :
    /\ Cardinality({x \in Own(b) : <<b, x.item>> \notin audits}) <= 1
    /\ pc[b] = "answered" =>
         /\ Len(body[b]) \in 1..MaxBatch
         /\ \A i \in DOMAIN body[b] :
              <<b, i>> \in audits /\ \E x \in receipts : x.batch = b /\ x.item = i

\* The verification rate, rounded to a tenth of a percent, of counts that are of
\* two moments: it is never above 100.0%, and 100.0% is shown only of a workspace
\* that had receipts, of which one in two thousand at most was not VERIFIED.
RateIsTrue ==
  reader = "done" =>
    /\ counted.rate <= 1000
    /\ counted.rate = 1000 => counted.total > 0 /\ 2000 * unverified <= counted.total
=============================================================================
