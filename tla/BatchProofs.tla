----------------------------- MODULE BatchProofs -----------------------------
(***************************************************************************)
(* What a batch promises, for any number and size of batches and any       *)
(* contracts: proofs about BatchVerification.                              *)
(***************************************************************************)
EXTENDS BatchVerification, FiniteSetTheorems, SequenceTheorems, TLAPS

\* A refused batch has lost an id to other content.
RefusedOK(b) ==
  pc[b] = "refused" /\ Len(body[b]) \in 1..MaxBatch =>
    \E i \in DOMAIN body[b] : contracts[body[b][i].id] \in Texts \ {body[b][i].text}

\* The inductive invariant, by its parts: the tables, each request, the overview.
TablesInv == TypeOK /\ ReceiptBindsContract /\ IsFiniteSet(receipts)
RequestInv(b) == ContractsOK(b) /\ ReceiptsOK(b) /\ RefusedOK(b)
ViewInv == OverviewOK /\ RateIsTrue
BInv == TablesInv /\ (\A b \in Batches : RequestInv(b)) /\ ViewInv

\* The items of a request are contracts.
LEMMA BodyIs ==
  ASSUME TypeOK, NEW b \in Batches
  PROVE  /\ Len(body[b]) \in Nat
         /\ DOMAIN body[b] = 1..Len(body[b])
         /\ \A i \in DOMAIN body[b] :
              /\ body[b][i] \in Contracts
              /\ body[b][i].id \in Ids /\ body[b][i].text \in Texts /\ body[b][i].text # Absent
<1>1. PICK n \in Nat : body[b] \in [1..n -> Contracts]
  BY BatchAssumption DEF TypeOK, Bodies
<1>2. body[b] \in Seq(Contracts)
  BY <1>1, SeqDef
<1>3. Len(body[b]) \in Nat /\ DOMAIN body[b] = 1..Len(body[b])
  BY <1>2, LenProperties
<1>4. \A i \in DOMAIN body[b] : body[b][i] \in Contracts
  BY <1>1
<1>5. \A c \in Contracts : c.id \in Ids /\ c.text \in Texts /\ c.text # Absent
  BY BatchAssumption
<1>. QED  BY <1>3, <1>4, <1>5

\* The item a running request is at.
LEMMA ItemIs ==
  ASSUME BInv, NEW b \in Batches, pc[b] \in Running
  PROVE  /\ Len(body[b]) \in 1..MaxBatch /\ MaxBatch \in Nat
         /\ next[b] \in 1..Len(body[b]) /\ next[b] \in DOMAIN body[b]
         /\ next[b] \in 1..MaxBatch
         /\ Item(b) \in Contracts
         /\ Item(b).id \in Ids /\ Item(b).text \in Texts /\ Item(b).text # Absent
<1>1. Len(body[b]) \in 1..MaxBatch /\ next[b] \in DOMAIN body[b]
  BY DEF BInv, RequestInv, ContractsOK
<1>2. TypeOK
  BY DEF BInv, TablesInv
<1>3. next[b] \in 1..Len(body[b]) /\ next[b] \in 1..MaxBatch
  BY <1>1, <1>2, BodyIs DEF TypeOK
<1>. QED  BY <1>1, <1>2, <1>3, BodyIs, BatchAssumption DEF Item

\* What a step of request b leaves alone, and how the tables grow.
Frame(b) ==
  /\ \A c \in Batches \ {b} : /\ pc'[c] = pc[c] /\ body'[c] = body[c]
                              /\ next'[c] = next[c] /\ verdicts'[c] = verdicts[c]
  /\ pc[b] # "idle" => pc'[b] # "idle" /\ body'[b] = body[b]
  /\ receipts \subseteq receipts' /\ \A x \in receipts' : x \in receipts \/ x.batch = b
  /\ audits \subseteq audits'
  /\ \A c \in Batches, i \in Nat : <<c, i>> \in audits' => <<c, i>> \in audits \/ c = b
  /\ \A i \in Ids : \/ contracts'[i] = contracts[i]
                    \/ contracts[i] = Absent /\ pc[b] = "insert" /\ Item(b).id = i

\* The steps of a request.
Steps(b) == Handle(b) \/ Abort(b) \/ \E items \in Bodies : Arrive(b, items)

\* save_contract finds no row, the same content, or another.
LEMMA Selected ==
  ASSUME BInv, NEW b \in Batches, SelectContract(b)
  PROVE  /\ pc[b] = "select" /\ UNCHANGED <<contracts, receipts, audits, body, verdicts>>
         /\ \/ /\ contracts[Item(b).id] = Absent
               /\ Goto(b, "insert") /\ UNCHANGED next
            \/ /\ contracts[Item(b).id] = Item(b).text
               /\ AfterSave(b)
            \/ /\ contracts[Item(b).id] \in Texts \ {Item(b).text}
               /\ Goto(b, "refused") /\ UNCHANGED next
<1>. DEFINE row == contracts[Item(b).id]
            text == Item(b).text
<1>1. pc[b] = "select" /\ UNCHANGED <<contracts, receipts, audits, body, verdicts>>
  BY DEF SelectContract, tables
<1>2. (CASE row = Absent        -> Goto(b, "insert") /\ UNCHANGED next
         [] row = text          -> AfterSave(b)
         [] row \in Texts \ {text} -> Goto(b, "refused") /\ UNCHANGED next)
  BY DEF SelectContract
<1>3. row \in Texts \cup {Absent} /\ text # Absent /\ Absent \notin Texts
  <2>1. Item(b).id \in Ids /\ text # Absent
    BY <1>1, ItemIs DEF Running
  <2>. QED  BY <2>1, BatchAssumption DEF BInv, TablesInv, TypeOK
<1>. HIDE DEF row, text
<1>4. CASE row = Absent
  BY <1>1, <1>2, <1>3, <1>4 DEF row, text
<1>5. CASE row = text
  BY <1>1, <1>2, <1>3, <1>5 DEF row, text
<1>6. CASE row \in Texts \ {text}
  BY <1>1, <1>2, <1>3, <1>6 DEF row, text
<1>. QED  BY <1>3, <1>4, <1>5, <1>6

\* A request's step keeps to itself.
LEMMA FrameHolds ==
  ASSUME BInv, NEW b \in Batches, Steps(b)
  PROVE  Frame(b)
<1>1. /\ contracts \in [Ids -> Texts \cup {Absent}]
      /\ pc \in [Batches -> {"idle"} \cup Running \cup Finished]
      /\ next \in [Batches -> 1..MaxBatch]
      /\ verdicts \in [Batches -> [1..MaxBatch -> Outcomes \cup {Absent}]]
  BY DEF BInv, TablesInv, TypeOK
<1>2. CASE \E items \in Bodies : Arrive(b, items)
  BY <1>1, <1>2 DEF Arrive, Goto, Frame, tables
<1>3. CASE SelectContract(b)
  <2>1. pc[b] = "select" /\ UNCHANGED <<contracts, receipts, audits, body, verdicts>>
    BY <1>3, Selected
  <2>0. \E l \in {"insert", "select", "verify", "refused"} : pc' = [pc EXCEPT ![b] = l]
    BY <1>3, Selected DEF AfterSave, Advance, Goto
  <2>2. \A c \in Batches \ {b} : pc'[c] = pc[c] /\ next'[c] = next[c]
    BY <1>1, <1>3, <2>0, Selected DEF AfterSave, Advance
  <2>3. pc'[b] # "idle"
    BY <1>1, <2>0
  <2>. QED  BY <2>1, <2>2, <2>3 DEF Frame
<1>4. CASE InsertContract(b)
  <2>1. pc[b] = "insert" /\ UNCHANGED <<receipts, audits, body, verdicts>>
    BY <1>4 DEF InsertContract
  <2>2. \A c \in Batches \ {b} : pc'[c] = pc[c] /\ next'[c] = next[c]
    BY <1>1, <1>4 DEF InsertContract, AfterSave, Advance, Goto
  <2>3. pc'[b] # "idle"
    BY <1>1, <1>4 DEF InsertContract, AfterSave, Advance, Goto
  <2>4. \A i \in Ids : contracts'[i] = contracts[i] \/ (contracts[i] = Absent /\ Item(b).id = i)
    BY <1>1, <1>4 DEF InsertContract
  <2>. QED  BY <2>1, <2>2, <2>3, <2>4 DEF Frame
<1>5. CASE \E i \in 1..MaxBatch : Verify(b, i)
  <2>1. PICK i \in 1..MaxBatch : Verify(b, i)
    BY <1>5
  <2>2. UNCHANGED <<contracts, receipts, audits, body, next>>
    BY <2>1 DEF Verify, tables
  <2>3. \A c \in Batches \ {b} : pc'[c] = pc[c] /\ verdicts'[c] = verdicts[c]
    BY <1>1, <2>1 DEF Verify, Goto
  <2>4. pc'[b] # "idle"
    BY <1>1, <2>1 DEF Verify, Goto
  <2>. QED  BY <2>2, <2>3, <2>4 DEF Frame
<1>6. CASE SaveReceipt(b)
  <2>1. UNCHANGED <<contracts, audits, body, next, verdicts>>
    BY <1>6 DEF SaveReceipt, SaveItems
  <2>2. pc'[b] # "idle" /\ \A c \in Batches \ {b} : pc'[c] = pc[c]
    BY <1>1, <1>6 DEF SaveReceipt, SaveItems, Goto
  <2>3. receipts \subseteq receipts' /\ \A x \in receipts' : x \in receipts \/ x.batch = b
    BY <1>6 DEF SaveReceipt, SaveItems
  <2>. QED  BY <2>1, <2>2, <2>3 DEF Frame
<1>7. CASE WriteAudit(b)
  <2>1. UNCHANGED <<contracts, receipts, body, verdicts>> /\ audits' = audits \cup {<<b, next[b]>>}
    BY <1>7 DEF WriteAudit
  <2>2. pc'[b] # "idle" /\ \A c \in Batches \ {b} : pc'[c] = pc[c] /\ next'[c] = next[c]
    BY <1>1, <1>7 DEF WriteAudit, Advance, Goto
  <2>. QED  BY <2>1, <2>2 DEF Frame
<1>8. CASE Reply(b) \/ Abort(b)
  <2>1. UNCHANGED <<contracts, receipts, audits, body, next, verdicts>>
    BY <1>8 DEF Reply, Abort, tables
  <2>2. pc'[b] # "idle" /\ \A c \in Batches \ {b} : pc'[c] = pc[c]
    BY <1>1, <1>8 DEF Reply, Abort, Goto
  <2>. QED  BY <2>1, <2>2 DEF Frame
<1>. QED  BY <1>2, <1>3, <1>4, <1>5, <1>6, <1>7, <1>8 DEF Steps, Handle

\* Another request's rows stay, and a rival stays a rival: what b inserts makes
\* it one.
LEMMA OthersStay ==
  ASSUME BInv, NEW b \in Batches, Frame(b), NEW c \in Batches, c # b
  PROVE  RequestInv(c)'
<1>1. /\ pc'[c] = pc[c] /\ body'[c] = body[c]
      /\ next'[c] = next[c] /\ verdicts'[c] = verdicts[c]
  BY DEF Frame
<1>2. Own(c)' = Own(c)
  BY DEF Own, Frame
<1>3. \A i \in Nat : Audited(c, i)' <=> Audited(c, i)
  BY DEF Audited, Frame
<1>4. TypeOK /\ RequestInv(c)
  BY DEF BInv, TablesInv
<1>5. /\ Len(body[c]) \in Nat /\ DOMAIN body[c] = 1..Len(body[c])
      /\ \A i \in DOMAIN body[c] : /\ body[c][i].id \in Ids /\ body[c][i].text \in Texts
                                   /\ body[c][i].text # Absent
  BY <1>4, BodyIs
<1>6. \A i \in Ids : contracts[i] # Absent => contracts'[i] = contracts[i]
  BY DEF Frame
<1>7. \A i \in DOMAIN body[c] : Holds(c, i) => Holds(c, i)'
  BY <1>1, <1>5, <1>6 DEF Holds
<1>8. ASSUME NEW id, Rival(c, id)  PROVE Rival(c, id)'
  <2>1. PICK d \in Batches \ {c} : pc[d] # "idle" /\ \E j \in DOMAIN body[d] : body[d][j].id = id
    BY <1>8 DEF Rival
  <2>2. pc'[d] # "idle" /\ body'[d] = body[d]
    BY <2>1 DEF Frame
  <2>. QED  BY <2>1, <2>2 DEF Rival
<1>9. ASSUME pc[b] = "insert", NEW id, id = Item(b).id  PROVE Rival(c, id)'
  <2>1. next[b] \in DOMAIN body[b]
    BY <1>9, ItemIs DEF Running
  <2>2. pc'[b] # "idle" /\ body'[b] = body[b]
    BY <1>9 DEF Frame
  <2>3. \E j \in DOMAIN body'[b] : body'[b][j].id = id
    BY <1>9, <2>1, <2>2 DEF Item
  <2>. QED  BY <2>2, <2>3 DEF Rival
<1>10. ContractsOK(c)'
  <2>0. ContractsOK(c)
    BY <1>4 DEF RequestInv
  <2>1. ASSUME pc[c] = "insert", NEW id, id = body[c][next[c]].id, contracts'[id] # Absent
        PROVE  Rival(c, id)'
    <3>1. id \in Ids
      BY <2>1, ItemIs DEF Running, Item
    <3>2. CASE contracts'[id] = contracts[id]
      BY <1>8, <2>0, <2>1, <3>2 DEF ContractsOK, Item
    <3>3. CASE contracts'[id] # contracts[id]
      BY <1>9, <3>1, <3>3 DEF Frame
    <3>. QED  BY <3>2, <3>3
  <2>2. ASSUME pc[c] = "failed"  PROVE \E i \in DOMAIN body[c] : \E id : id = body[c][i].id /\ Rival(c, id)'
    <3>1. PICK i \in DOMAIN body[c] : Rival(c, body[c][i].id)
      BY <2>0, <2>2 DEF ContractsOK
    <3>2. PICK id : id = body[c][i].id
      OBVIOUS
    <3>3. Rival(c, id)
      BY <3>1, <3>2
    <3>4. Rival(c, id)'
      BY <1>8, <3>3
    <3>. QED  BY <3>2, <3>4
  <2>3. \A i \in 1..(next[c] - 1) : pc[c] \in {"select", "insert"} => Holds(c, i)'
    <3>1. pc[c] \in {"select", "insert"} => \A i \in 1..(next[c] - 1) : i \in DOMAIN body[c]
      BY <1>5, ItemIs DEF Running
    <3>. QED  BY <1>7, <2>0, <3>1 DEF ContractsOK
  <2>4. pc[c] \in {"verify", "receipt", "audit", "reply"} => \A i \in DOMAIN body[c] : Holds(c, i)'
    BY <1>7, <2>0 DEF ContractsOK
  <2>5. pc'[c] = "insert" /\ contracts'[Item(c)'.id] # Absent => Rival(c, Item(c).id)'
    BY <1>1, <2>1 DEF Item, Rival
  <2>6. pc'[c] = "failed" => \E i \in DOMAIN body'[c] : Rival(c, body[c][i].id)'
    BY <1>1, <2>2 DEF Rival
  <2>. QED  BY <1>1, <2>0, <2>3, <2>4, <2>5, <2>6 DEF ContractsOK
<1>11. ReceiptsOK(c)'
  <2>0. ReceiptsOK(c) /\ ContractsOK(c)
    BY <1>4 DEF RequestInv
  <2>1. \A x \in Own(c) : Audited(c, x.item)' <=> Audited(c, x.item)
    <3>1. \A x \in Own(c) : x.item \in Nat
      BY <1>4 DEF TypeOK, Rows, Own
    <3>. QED  BY <1>3, <3>1
  <2>2. \A i \in Nat : Kept(c, i)' <=> Kept(c, i)
    BY <1>2, <1>3 DEF Kept
  <2>3. (\A i \in 1..MaxBatch : i \in Nat) /\ (\A i \in DOMAIN body[c] : i \in Nat)
        /\ (\A i \in 1..(next[c] - 1) : i \in Nat)
    <3>1. next[c] \in Int /\ MaxBatch \in Nat
      BY <1>4, BatchAssumption DEF TypeOK
    <3>. QED  BY <1>5, <3>1
  <2>. QED  BY <1>1, <1>2, <1>3, <2>0, <2>1, <2>2, <2>3 DEF ReceiptsOK
<1>12. RefusedOK(c)'
  <2>1. ASSUME NEW i \in DOMAIN body[c], contracts[body[c][i].id] \in Texts \ {body[c][i].text}
        PROVE  contracts'[body[c][i].id] \in Texts \ {body[c][i].text}
    <3>1. contracts[body[c][i].id] # Absent
      BY <2>1, BatchAssumption
    <3>. QED  BY <1>5, <1>6, <2>1, <3>1
  <2>. QED  BY <1>1, <1>4, <2>1 DEF RequestInv, RefusedOK
<1>. QED  BY <1>10, <1>11, <1>12 DEF RequestInv
-----------------------------------------------------------------------------
(* What a step does to its own request.                                    *)

\* What is fixed for request b while it runs.
LEMMA Mine ==
  ASSUME BInv, NEW b \in Batches, pc[b] \in Running, Frame(b)
  PROVE  /\ body'[b] = body[b] /\ pc'[b] # "idle"
         /\ Len(body[b]) \in 1..MaxBatch /\ MaxBatch \in Nat
         /\ DOMAIN body[b] = 1..Len(body[b])
         /\ next[b] \in 1..Len(body[b])
         /\ next[b] = Len(body[b]) <=> Last(b)
         /\ Item(b) = body[b][next[b]]
         /\ \A i \in DOMAIN body[b] : Holds(b, i) => Holds(b, i)'
         /\ \A id : Rival(b, id) => Rival(b, id)'
<1>1. /\ Len(body[b]) \in 1..MaxBatch /\ MaxBatch \in Nat
      /\ next[b] \in 1..Len(body[b])
  BY ItemIs
<1>2. /\ DOMAIN body[b] = 1..Len(body[b])
      /\ \A i \in DOMAIN body[b] : /\ body[b][i].id \in Ids /\ body[b][i].text \in Texts
                                   /\ body[b][i].text # Absent
  BY BodyIs DEF BInv, TablesInv
<1>3. body'[b] = body[b] /\ pc'[b] # "idle"
  BY DEF Frame, Running
<1>4. \A i \in DOMAIN body[b] : Holds(b, i) => Holds(b, i)'
  <2>1. \A i \in Ids : contracts[i] # Absent => contracts'[i] = contracts[i]
    BY DEF Frame
  <2>. QED  BY <1>2, <1>3, <2>1 DEF Holds
<1>5. ASSUME NEW id, Rival(b, id)  PROVE Rival(b, id)'
  <2>1. PICK d \in Batches \ {b} : pc[d] # "idle" /\ \E j \in DOMAIN body[d] : body[d][j].id = id
    BY <1>5 DEF Rival
  <2>2. pc'[d] # "idle" /\ body'[d] = body[d]
    BY <2>1 DEF Frame
  <2>. QED  BY <2>1, <2>2 DEF Rival
<1>. QED  BY <1>1, <1>2, <1>3, <1>4, <1>5 DEF Last, Item

\* A request that touches no receipts keeps what it has of them; before the
\* loop over the receipts that is nothing.
LEMMA NoReceipts ==
  ASSUME BInv, NEW b \in Batches,
         pc[b] \in {"idle", "select", "insert", "verify"},
         UNCHANGED <<receipts, audits>>
  PROVE  /\ Own(b)' = {} /\ \A i \in 1..MaxBatch : ~Audited(b, i)'
         /\ pc'[b] \in {"idle", "select", "insert", "verify", "refused", "failed", "aborted"} =>
              ReceiptsOK(b)'
<1>1. ReceiptsOK(b)
  BY DEF BInv, RequestInv
<1>2. Own(b) = {} /\ \A i \in 1..MaxBatch : ~Audited(b, i)
  BY <1>1 DEF ReceiptsOK
<1>3. Own(b)' = {} /\ \A i \in 1..MaxBatch : ~Audited(b, i)'
  BY <1>2 DEF Own, Audited
<1>. QED  BY <1>3 DEF ReceiptsOK

\* A batch of a legal size starts at its first item; others are refused.
LEMMA ArriveStep ==
  ASSUME BInv, NEW b \in Batches, NEW items \in Bodies, Arrive(b, items)
  PROVE  RequestInv(b)'
<1>1. /\ pc[b] = "idle" /\ UNCHANGED <<contracts, receipts, audits, next, verdicts>>
      /\ body' = [body EXCEPT ![b] = items]
      /\ pc' = [pc EXCEPT ![b] = IF Len(items) \in 1..MaxBatch THEN "select" ELSE "refused"]
  BY DEF Arrive, Goto, tables
<1>2. /\ pc \in [Batches -> {"idle"} \cup Running \cup Finished]
      /\ body \in [Batches -> Bodies]
  BY DEF BInv, TablesInv, TypeOK
<1>3. next[b] = 1
  BY <1>1 DEF BInv, RequestInv, ContractsOK
<1>4. body'[b] = items /\ pc'[b] \in {"select", "refused"}
      /\ (pc'[b] = "select" <=> Len(items) \in 1..MaxBatch)
  BY <1>1, <1>2
<1>5. Len(items) \in 1..MaxBatch => 1 \in DOMAIN items
  <2>1. PICK n \in Nat : items \in [1..n -> Contracts]
    BY BatchAssumption DEF Bodies
  <2>2. items \in Seq(Contracts)
    BY <2>1, SeqDef
  <2>3. DOMAIN items = 1..Len(items)
    BY <2>2, LenProperties
  <2>. QED  BY <2>3
<1>6. ContractsOK(b)'
  <2>1. next'[b] = 1 /\ 1..(1 - 1) = {}
    BY <1>1, <1>3
  <2>. QED  BY <1>4, <1>5, <2>1 DEF ContractsOK, Running
<1>7. ReceiptsOK(b)'
  BY <1>1, <1>4, NoReceipts
<1>8. RefusedOK(b)'
  BY <1>4 DEF RefusedOK
<1>. QED  BY <1>6, <1>7, <1>8 DEF RequestInv

\* What follows the saving of an item, for the contracts that are stored.
LEMMA SavedStep ==
  ASSUME BInv, NEW b \in Batches, pc[b] \in {"select", "insert"}, Frame(b),
         AfterSave(b), contracts'[Item(b).id] = Item(b).text, UNCHANGED <<receipts, audits>>
  PROVE  RequestInv(b)'
<1>1. /\ pc \in [Batches -> {"idle"} \cup Running \cup Finished]
      /\ next \in [Batches -> 1..MaxBatch]
  BY DEF BInv, TablesInv, TypeOK
<1>2. /\ body'[b] = body[b]
      /\ Len(body[b]) \in 1..MaxBatch /\ MaxBatch \in Nat
      /\ DOMAIN body[b] = 1..Len(body[b])
      /\ next[b] \in 1..Len(body[b])
      /\ next[b] = Len(body[b]) <=> Last(b)
      /\ Item(b) = body[b][next[b]]
      /\ \A i \in DOMAIN body[b] : Holds(b, i) => Holds(b, i)'
  BY Mine DEF Running
<1>3. \A i \in 1..(next[b] - 1) : Holds(b, i)
  BY DEF BInv, RequestInv, ContractsOK
<1>4. \A i \in 1..next[b] : Holds(b, i)'
  <2>. SUFFICES ASSUME NEW i \in 1..next[b]  PROVE Holds(b, i)'
    OBVIOUS
  <2>1. CASE i = next[b]
    BY <1>2, <2>1 DEF Holds
  <2>2. CASE i # next[b]
    <3>1. i \in 1..(next[b] - 1) /\ i \in DOMAIN body[b]
      BY <1>2, <2>2
    <3>. QED  BY <1>2, <1>3, <3>1
  <2>. QED  BY <2>1, <2>2
<1>5. CASE Last(b)
  <2>1. pc'[b] = "verify" /\ next'[b] = 1
    BY <1>1, <1>5 DEF AfterSave, Advance, Goto
  <2>2. \A i \in DOMAIN body[b] : Holds(b, i)'
    BY <1>2, <1>4, <1>5
  <2>3. ContractsOK(b)'
    BY <1>2, <2>1, <2>2 DEF ContractsOK
  <2>4. ReceiptsOK(b)'
    BY <2>1, NoReceipts
  <2>. QED  BY <2>1, <2>3, <2>4 DEF RequestInv, RefusedOK
<1>6. CASE ~Last(b)
  <2>1. pc'[b] = "select" /\ next'[b] = next[b] + 1
    BY <1>1, <1>6 DEF AfterSave, Advance, Goto
  <2>2. next'[b] \in 1..Len(body[b]) /\ 1..(next'[b] - 1) = 1..next[b]
    BY <1>2, <1>6, <2>1
  <2>3. ContractsOK(b)'
    BY <1>2, <1>4, <2>1, <2>2 DEF ContractsOK
  <2>4. ReceiptsOK(b)'
    BY <2>1, NoReceipts
  <2>. QED  BY <2>1, <2>3, <2>4 DEF RequestInv, RefusedOK
<1>. QED  BY <1>5, <1>6

\* The lookup of save_contract.
LEMMA SelectStep ==
  ASSUME BInv, NEW b \in Batches, SelectContract(b), Frame(b)
  PROVE  RequestInv(b)'
<1>1. pc[b] = "select" /\ UNCHANGED <<contracts, receipts, audits, body, verdicts>>
  BY Selected
<1>2. /\ pc \in [Batches -> {"idle"} \cup Running \cup Finished]
  BY DEF BInv, TablesInv, TypeOK
<1>3. /\ body'[b] = body[b]
      /\ Len(body[b]) \in 1..MaxBatch
      /\ DOMAIN body[b] = 1..Len(body[b])
      /\ next[b] \in 1..Len(body[b])
      /\ Item(b) = body[b][next[b]]
      /\ \A i \in DOMAIN body[b] : Holds(b, i) => Holds(b, i)'
  BY <1>1, Mine DEF Running
<1>4. \A i \in 1..(next[b] - 1) : Holds(b, i)'
  <2>1. \A i \in 1..(next[b] - 1) : Holds(b, i) /\ i \in DOMAIN body[b]
    BY <1>1, <1>3 DEF BInv, RequestInv, ContractsOK
  <2>. QED  BY <1>3, <2>1
<1>5. CASE /\ contracts[Item(b).id] = Absent
           /\ Goto(b, "insert") /\ UNCHANGED next
  <2>1. pc'[b] = "insert" /\ next'[b] = next[b]
    BY <1>2, <1>5 DEF Goto
  <2>2. contracts'[body'[b][next'[b]].id] = Absent
    BY <1>1, <1>3, <1>5, <2>1
  <2>3. ContractsOK(b)'
    BY <1>3, <1>4, <2>1, <2>2 DEF ContractsOK, Item
  <2>4. ReceiptsOK(b)'
    BY <1>1, <2>1, NoReceipts
  <2>. QED  BY <2>1, <2>3, <2>4 DEF RequestInv, RefusedOK
<1>6. CASE contracts[Item(b).id] = Item(b).text /\ AfterSave(b)
  BY <1>1, <1>6, SavedStep
<1>7. CASE /\ contracts[Item(b).id] \in Texts \ {Item(b).text}
           /\ Goto(b, "refused") /\ UNCHANGED next
  <2>1. pc'[b] = "refused"
    BY <1>2, <1>7 DEF Goto
  <2>2. RefusedOK(b)'
    BY <1>1, <1>3, <1>7, <2>1 DEF RefusedOK
  <2>3. ContractsOK(b)'
    BY <2>1 DEF ContractsOK, Running
  <2>4. ReceiptsOK(b)'
    BY <1>1, <2>1, NoReceipts
  <2>. QED  BY <2>2, <2>3, <2>4 DEF RequestInv
<1>. QED  BY <1>5, <1>6, <1>7, Selected

\* The insert of save_contract: whom it fails has a rival.
LEMMA InsertStep ==
  ASSUME BInv, NEW b \in Batches, InsertContract(b), Frame(b)
  PROVE  RequestInv(b)'
<1>1. pc[b] = "insert" /\ UNCHANGED <<receipts, audits, body, verdicts>>
  BY DEF InsertContract
<1>2. /\ pc \in [Batches -> {"idle"} \cup Running \cup Finished]
      /\ contracts \in [Ids -> Texts \cup {Absent}]
  BY DEF BInv, TablesInv, TypeOK
<1>3. CASE contracts[Item(b).id] = Absent
  <2>1. contracts' = [contracts EXCEPT ![Item(b).id] = Item(b).text] /\ AfterSave(b)
    BY <1>3 DEF InsertContract
  <2>2. Item(b).id \in Ids
    BY <1>1, ItemIs DEF Running
  <2>3. contracts'[Item(b).id] = Item(b).text
    BY <1>2, <2>1, <2>2
  <2>. QED  BY <1>1, <2>1, <2>3, SavedStep
<1>4. CASE contracts[Item(b).id] # Absent
  <2>1. Goto(b, "failed") /\ UNCHANGED <<contracts, next>>
    BY <1>4 DEF InsertContract
  <2>2. pc'[b] = "failed"
    BY <1>2, <2>1 DEF Goto
  <2>3. PICK id : id = Item(b).id
    OBVIOUS
  <2>4. Rival(b, id)
    BY <1>1, <1>4, <2>3 DEF BInv, RequestInv, ContractsOK
  <2>5. /\ body'[b] = body[b] /\ Len(body[b]) \in 1..MaxBatch
        /\ next[b] \in DOMAIN body[b] /\ id = body[b][next[b]].id
        /\ Rival(b, id)'
    BY <1>1, <2>3, <2>4, Mine, ItemIs DEF Running, Item
  <2>6. \E i \in DOMAIN body'[b] : Rival(b, body[b][i].id)'
    BY <2>5 DEF Rival
  <2>7. ContractsOK(b)'
    BY <2>2, <2>5, <2>6 DEF ContractsOK, Running
  <2>8. ReceiptsOK(b)'
    BY <1>1, <2>2, NoReceipts
  <2>. QED  BY <2>2, <2>7, <2>8 DEF RequestInv, RefusedOK
<1>. QED  BY <1>3, <1>4

\* A request past its contracts keeps them.
LEMMA ContractsStay ==
  ASSUME BInv, NEW b \in Batches, pc[b] \in {"verify", "receipt", "audit", "reply"}, Frame(b),
         next'[b] \in DOMAIN body[b], pc'[b] = "verify" => next'[b] = 1,
         pc'[b] \in {"verify", "receipt", "audit", "reply", "answered", "aborted"}
  PROVE  ContractsOK(b)' /\ RefusedOK(b)'
<1>1. /\ body'[b] = body[b]
      /\ Len(body[b]) \in 1..MaxBatch
      /\ \A i \in DOMAIN body[b] : Holds(b, i) => Holds(b, i)'
  BY Mine DEF Running
<1>2. \A i \in DOMAIN body[b] : Holds(b, i)
  BY DEF BInv, RequestInv, ContractsOK
<1>. QED  BY <1>1, <1>2 DEF ContractsOK, RefusedOK

\* One verification of the gather ends; the last one ends the gather.
LEMMA VerifyStep ==
  ASSUME BInv, NEW b \in Batches, NEW i \in 1..MaxBatch, Verify(b, i), Frame(b)
  PROVE  RequestInv(b)'
<1>1. /\ pc[b] = "verify" /\ UNCHANGED <<contracts, receipts, audits, body, next>>
      /\ i \in DOMAIN body[b]
  BY DEF Verify, tables
<1>2. /\ pc \in [Batches -> {"idle"} \cup Running \cup Finished]
      /\ verdicts \in [Batches -> [1..MaxBatch -> Outcomes \cup {Absent}]]
  BY DEF BInv, TablesInv, TypeOK
<1>3. PICK v \in Outcomes : verdicts' = [verdicts EXCEPT ![b][i] = v]
  BY DEF Verify
<1>4. pc' = [pc EXCEPT ![b] = IF \E j \in DOMAIN body[b] \ {i} : verdicts[b][j] = Absent
                              THEN "verify" ELSE "receipt"]
  BY DEF Verify, Goto
<1>5. /\ Len(body[b]) \in 1..MaxBatch /\ MaxBatch \in Nat
      /\ DOMAIN body[b] = 1..Len(body[b])
  BY <1>1, Mine DEF Running
<1>6. next[b] = 1 /\ next[b] \in DOMAIN body[b]
  BY <1>1, ItemIs DEF BInv, RequestInv, ContractsOK, Running
<1>7. /\ pc'[b] \in {"verify", "receipt"}
      /\ pc'[b] = "receipt" => \A j \in DOMAIN body[b] \ {i} : verdicts[b][j] # Absent
  BY <1>2, <1>4
<1>8. ContractsOK(b)' /\ RefusedOK(b)'
  BY <1>1, <1>6, <1>7, ContractsStay
<1>9. Own(b)' = {} /\ \A j \in 1..MaxBatch : ~Audited(b, j)'
  BY <1>1, NoReceipts
<1>10. CASE pc'[b] = "verify"
  <2>1. ReceiptsOK(b)'
    BY <1>1, <1>10, NoReceipts
  <2>. QED  BY <1>8, <2>1 DEF RequestInv
<1>11. CASE pc'[b] = "receipt"
  <2>1. \A j \in DOMAIN body[b] : j \in 1..MaxBatch
    BY <1>5
  <2>2. \A j \in DOMAIN body[b] : verdicts'[b][j] \in Outcomes
    BY <1>2, <1>3, <1>7, <1>11, <2>1
  <2>3. 1..(next'[b] - 1) = {}
    BY <1>1, <1>6
  <2>4. ReceiptsOK(b)'
    BY <1>1, <1>9, <1>11, <2>2, <2>3 DEF ReceiptsOK
  <2>. QED  BY <1>8, <2>4 DEF RequestInv
<1>. QED  BY <1>7, <1>10, <1>11

\* The receipt in hand is the only one that is not audited.
LEMMA ReceiptStep ==
  ASSUME BInv, NEW b \in Batches, SaveReceipt(b), Frame(b)
  PROVE  RequestInv(b)'
<1>. DEFINE n == next[b]
            r == [batch |-> b, item |-> next[b], contract |-> body[b][next[b]],
                  verdict |-> verdicts[b][next[b]]]
<1>1. /\ pc[b] = "receipt" /\ UNCHANGED <<contracts, audits, body, next, verdicts>>
      /\ receipts' = receipts \cup {r} /\ pc' = [pc EXCEPT ![b] = "audit"]
  BY DEF SaveReceipt, SaveItems, Goto
<1>2. pc'[b] = "audit"
  BY <1>1 DEF BInv, TablesInv, TypeOK
<1>3. r.item = n /\ r.batch = b
  OBVIOUS
<1>. HIDE DEF r
<1>4. Own(b)' = Own(b) \cup {r}
  BY <1>1, <1>3 DEF Own
<1>5. /\ \A x \in Own(b) : Audited(b, x.item)
      /\ \A i \in DOMAIN body[b] : verdicts[b][i] \in Outcomes
      /\ \A i \in 1..(next[b] - 1) : Kept(b, i)
  BY <1>1 DEF BInv, RequestInv, ReceiptsOK
<1>6. n \in DOMAIN body[b]
  BY <1>1, ItemIs DEF Running
<1>7. ContractsOK(b)' /\ RefusedOK(b)'
  BY <1>1, <1>2, <1>6, ContractsStay
<1>8. \A i \in 1..(next[b] - 1) : Kept(b, i)'
  BY <1>1, <1>4, <1>5 DEF Kept, Audited
<1>9. /\ \A x \in Own(b)' : x.item = n \/ Audited(b, x.item)'
      /\ \A x, y \in Own(b)' : Audited(b, x.item)' \/ Audited(b, y.item)' \/ x = y
  BY <1>1, <1>3, <1>4, <1>5 DEF Audited
<1>10. ReceiptsOK(b)'
  BY <1>1, <1>2, <1>3, <1>4, <1>5, <1>8, <1>9 DEF ReceiptsOK
<1>. QED  BY <1>7, <1>10 DEF RequestInv

\* The audit row closes the receipt in hand, and the loop goes on or ends.
LEMMA AuditRowStep ==
  ASSUME BInv, NEW b \in Batches, WriteAudit(b), Frame(b)
  PROVE  RequestInv(b)'
<1>. DEFINE n == next[b]
<1>1. /\ pc[b] = "audit" /\ UNCHANGED <<contracts, receipts, body, verdicts>>
      /\ audits' = audits \cup {<<b, n>>} /\ Advance(b, "receipt", "reply")
  BY DEF WriteAudit
<1>2. /\ pc \in [Batches -> {"idle"} \cup Running \cup Finished]
      /\ next \in [Batches -> 1..MaxBatch]
  BY DEF BInv, TablesInv, TypeOK
<1>3. Own(b)' = Own(b)
  BY <1>1 DEF Own
<1>4. /\ \E x \in Own(b) : x.item = n
      /\ \A x \in Own(b) : x.item = n \/ Audited(b, x.item)
      /\ \A i \in DOMAIN body[b] : verdicts[b][i] \in Outcomes
      /\ \A i \in 1..(n - 1) : Kept(b, i)
  BY <1>1 DEF BInv, RequestInv, ReceiptsOK
<1>5. \A x \in Own(b) : Audited(b, x.item)'
  BY <1>1, <1>4 DEF Audited
<1>6. /\ Len(body[b]) \in 1..MaxBatch /\ MaxBatch \in Nat
      /\ DOMAIN body[b] = 1..Len(body[b]) /\ n \in 1..Len(body[b])
      /\ n = Len(body[b]) <=> Last(b)
  BY <1>1, Mine DEF Running
<1>7. \A i \in 1..n : Kept(b, i)'
  <2>. SUFFICES ASSUME NEW i \in 1..n  PROVE Kept(b, i)'
    OBVIOUS
  <2>1. CASE i = n
    BY <1>1, <1>3, <1>4, <2>1 DEF Kept, Audited
  <2>2. CASE i # n
    <3>1. i \in 1..(n - 1)
      BY <1>6, <2>2
    <3>. QED  BY <1>1, <1>3, <1>4, <3>1 DEF Kept, Audited
  <2>. QED  BY <2>1, <2>2
<1>8. CASE Last(b)
  <2>1. pc'[b] = "reply" /\ next'[b] = 1
    BY <1>1, <1>2, <1>8 DEF Advance, Goto
  <2>2. next'[b] \in DOMAIN body[b]
    BY <1>6, <2>1
  <2>3. ContractsOK(b)' /\ RefusedOK(b)'
    BY <1>1, <2>1, <2>2, ContractsStay
  <2>4. \A i \in DOMAIN body[b] : Kept(b, i)'
    BY <1>6, <1>7, <1>8
  <2>5. ReceiptsOK(b)'
    BY <1>1, <1>3, <1>5, <2>1, <2>4 DEF ReceiptsOK
  <2>. QED  BY <2>3, <2>5 DEF RequestInv
<1>9. CASE ~Last(b)
  <2>1. pc'[b] = "receipt" /\ next'[b] = n + 1
    BY <1>1, <1>2, <1>9 DEF Advance, Goto
  <2>2. next'[b] \in DOMAIN body[b] /\ 1..(next'[b] - 1) = 1..n
    BY <1>6, <1>9, <2>1
  <2>3. ContractsOK(b)' /\ RefusedOK(b)'
    BY <1>1, <2>1, <2>2, ContractsStay
  <2>4. ReceiptsOK(b)'
    BY <1>1, <1>3, <1>4, <1>5, <1>7, <2>1, <2>2 DEF ReceiptsOK
  <2>. QED  BY <2>3, <2>4 DEF RequestInv
<1>. QED  BY <1>8, <1>9

\* An answer, or a death, changes nothing that is stored.
LEMMA EndStep ==
  ASSUME BInv, NEW b \in Batches, Reply(b) \/ Abort(b), Frame(b)
  PROVE  RequestInv(b)'
<1>1. UNCHANGED <<contracts, receipts, audits, body, next, verdicts>>
  BY DEF Reply, Abort, tables
<1>2. Own(b)' = Own(b) /\ \A i : Audited(b, i)' <=> Audited(b, i)
  BY <1>1 DEF Own, Audited
<1>3. pc \in [Batches -> {"idle"} \cup Running \cup Finished]
  BY DEF BInv, TablesInv, TypeOK
<1>4. ContractsOK(b) /\ ReceiptsOK(b)
  BY DEF BInv, RequestInv
<1>5. CASE Reply(b)
  <2>1. pc[b] = "reply" /\ pc'[b] = "answered"
    BY <1>3, <1>5 DEF Reply, Goto
  <2>2. next'[b] \in DOMAIN body[b]
    BY <1>1, <2>1, ItemIs DEF Running
  <2>3. ContractsOK(b)' /\ RefusedOK(b)'
    BY <2>1, <2>2, ContractsStay
  <2>4. ReceiptsOK(b)'
    BY <1>1, <1>2, <1>4, <2>1 DEF ReceiptsOK, Kept
  <2>. QED  BY <2>3, <2>4 DEF RequestInv
<1>6. CASE Abort(b)
  <2>1. pc'[b] = "aborted"
    BY <1>3, <1>6 DEF Abort, Goto
  <2>2. ContractsOK(b)' /\ RefusedOK(b)'
    BY <2>1 DEF ContractsOK, RefusedOK, Running
  <2>3. ReceiptsOK(b)'
    BY <1>2, <1>4, <2>1 DEF ReceiptsOK
  <2>. QED  BY <2>2, <2>3 DEF RequestInv
<1>. QED  BY <1>5, <1>6
-----------------------------------------------------------------------------
(* The tables and the overview.                                            *)

\* The loops' counter stays within the batch.
LEMMA AdvanceType ==
  ASSUME BInv, NEW b \in Batches, pc[b] \in Running,
         NEW again \in Running, NEW after \in Running, Advance(b, again, after)
  PROVE  /\ pc' \in [Batches -> {"idle"} \cup Running \cup Finished]
         /\ next' \in [Batches -> 1..MaxBatch]
<1>1. /\ pc \in [Batches -> {"idle"} \cup Running \cup Finished]
      /\ next \in [Batches -> 1..MaxBatch]
  BY DEF BInv, TablesInv, TypeOK
<1>2. pc' \in [Batches -> {"idle"} \cup Running \cup Finished]
  BY <1>1 DEF Advance, Goto
<1>3. Len(body[b]) \in 1..MaxBatch /\ MaxBatch \in Nat /\ next[b] \in 1..Len(body[b])
  BY ItemIs
<1>4. CASE Last(b)
  <2>1. next' = [next EXCEPT ![b] = 1] /\ 1 \in 1..MaxBatch
    BY <1>3, <1>4 DEF Advance
  <2>. QED  BY <1>1, <1>2, <2>1
<1>5. CASE ~Last(b)
  <2>1. next' = [next EXCEPT ![b] = next[b] + 1]
    BY <1>1, <1>5 DEF Advance
  <2>2. next[b] + 1 \in 1..MaxBatch
    BY <1>3, <1>5 DEF Last
  <2>. QED  BY <1>1, <1>2, <2>1, <2>2
<1>. QED  BY <1>4, <1>5

\* The tables and the requests keep their types through a request's step.
LEMMA StepType ==
  ASSUME BInv, NEW b \in Batches, Steps(b)
  PROVE  TypeOK'
<1>1. TypeOK
  BY DEF BInv, TablesInv
<1>2. CASE \E items \in Bodies : Arrive(b, items)
  <2>1. /\ pc' \in [Batches -> {"idle"} \cup Running \cup Finished]
        /\ body' \in [Batches -> Bodies]
    BY <1>1, <1>2 DEF TypeOK, Arrive, Goto, Running, Finished
  <2>2. UNCHANGED <<contracts, receipts, audits, next, verdicts, reader, counted, unverified>>
    BY <1>2 DEF Arrive, tables, overview
  <2>. QED  BY <1>1, <2>1, <2>2 DEF TypeOK
<1>3. CASE SelectContract(b)
  <2>1. /\ pc[b] = "select" /\ UNCHANGED <<contracts, receipts, audits, body, verdicts>>
        /\ UNCHANGED <<reader, counted, unverified>>
    BY <1>3 DEF SelectContract, tables, overview
  <2>2. \/ AfterSave(b)
        \/ (Goto(b, "insert") \/ Goto(b, "refused")) /\ UNCHANGED next
    BY <1>3, Selected
  <2>3. /\ pc' \in [Batches -> {"idle"} \cup Running \cup Finished]
        /\ next' \in [Batches -> 1..MaxBatch]
    <3>1. CASE AfterSave(b)
      BY <2>1, <3>1, AdvanceType DEF AfterSave, Running
    <3>2. CASE (Goto(b, "insert") \/ Goto(b, "refused")) /\ UNCHANGED next
      BY <1>1, <3>2 DEF TypeOK, Goto, Running, Finished
    <3>. QED  BY <2>2, <3>1, <3>2
  <2>. QED  BY <1>1, <2>1, <2>3 DEF TypeOK
<1>4. CASE InsertContract(b)
  <2>1. /\ pc[b] = "insert"
        /\ UNCHANGED <<receipts, audits, body, verdicts, reader, counted, unverified>>
    BY <1>4 DEF InsertContract, overview
  <2>2. Item(b).id \in Ids /\ Item(b).text \in Texts
    BY <2>1, ItemIs DEF Running
  <2>3. \/ contracts' = [contracts EXCEPT ![Item(b).id] = Item(b).text] /\ AfterSave(b)
        \/ Goto(b, "failed") /\ UNCHANGED <<contracts, next>>
    BY <1>4 DEF InsertContract
  <2>4. contracts' \in [Ids -> Texts \cup {Absent}]
    BY <1>1, <2>2, <2>3 DEF TypeOK
  <2>5. /\ pc' \in [Batches -> {"idle"} \cup Running \cup Finished]
        /\ next' \in [Batches -> 1..MaxBatch]
    <3>1. CASE AfterSave(b)
      BY <2>1, <3>1, AdvanceType DEF AfterSave, Running
    <3>2. CASE Goto(b, "failed") /\ UNCHANGED <<contracts, next>>
      BY <1>1, <3>2 DEF TypeOK, Goto, Running, Finished
    <3>. QED  BY <2>3, <3>1, <3>2
  <2>. QED  BY <1>1, <2>1, <2>4, <2>5 DEF TypeOK
<1>5. CASE \E i \in 1..MaxBatch : Verify(b, i)
  <2>1. PICK i \in 1..MaxBatch : Verify(b, i)
    BY <1>5
  <2>2. UNCHANGED <<contracts, receipts, audits, body, next, reader, counted, unverified>>
    BY <2>1 DEF Verify, tables, overview
  <2>3. pc' \in [Batches -> {"idle"} \cup Running \cup Finished]
    BY <1>1, <2>1 DEF TypeOK, Verify, Goto, Running, Finished
  <2>4. verdicts' \in [Batches -> [1..MaxBatch -> Outcomes \cup {Absent}]]
    <3>1. PICK v \in Outcomes : verdicts' = [verdicts EXCEPT ![b][i] = v]
      BY <2>1 DEF Verify
    <3>. QED  BY <1>1, <3>1 DEF TypeOK
  <2>. QED  BY <1>1, <2>2, <2>3, <2>4 DEF TypeOK
<1>6. CASE SaveReceipt(b)
  <2>1. /\ pc[b] = "receipt"
        /\ UNCHANGED <<contracts, audits, body, next, verdicts, reader, counted, unverified>>
        /\ receipts' = receipts \cup
             {[batch |-> b, item |-> next[b], contract |-> body[b][next[b]],
               verdict |-> verdicts[b][next[b]]]}
    BY <1>6 DEF SaveReceipt, SaveItems, overview
  <2>2. pc' \in [Batches -> {"idle"} \cup Running \cup Finished]
    BY <1>1, <1>6 DEF TypeOK, SaveReceipt, SaveItems, Goto, Running, Finished
  <2>3. /\ next[b] \in 1..MaxBatch /\ next[b] \in DOMAIN body[b]
        /\ body[b][next[b]] \in Contracts
    BY <2>1, ItemIs DEF Running, Item
  <2>4. verdicts[b][next[b]] \in Outcomes
    BY <2>1, <2>3 DEF BInv, RequestInv, ReceiptsOK
  <2>5. receipts' \subseteq Rows
    BY <1>1, <2>1, <2>3, <2>4 DEF TypeOK, Rows
  <2>. QED  BY <1>1, <2>1, <2>2, <2>5 DEF TypeOK
<1>7. CASE WriteAudit(b)
  <2>1. /\ pc[b] = "audit"
        /\ UNCHANGED <<contracts, receipts, body, verdicts, reader, counted, unverified>>
        /\ audits' = audits \cup {<<b, next[b]>>} /\ Advance(b, "receipt", "reply")
    BY <1>7 DEF WriteAudit, overview
  <2>2. audits' \subseteq Batches \X (1..MaxBatch)
    BY <1>1, <2>1 DEF TypeOK
  <2>3. /\ pc' \in [Batches -> {"idle"} \cup Running \cup Finished]
        /\ next' \in [Batches -> 1..MaxBatch]
    BY <2>1, AdvanceType DEF Running
  <2>. QED  BY <1>1, <2>1, <2>2, <2>3 DEF TypeOK
<1>8. CASE Reply(b) \/ Abort(b)
  <2>1. UNCHANGED <<contracts, receipts, audits, body, next, verdicts, reader, counted, unverified>>
    BY <1>8 DEF Reply, Abort, tables, overview
  <2>2. pc' \in [Batches -> {"idle"} \cup Running \cup Finished]
    BY <1>1, <1>8 DEF TypeOK, Reply, Abort, Goto, Running, Finished
  <2>. QED  BY <1>1, <2>1, <2>2 DEF TypeOK
<1>. QED  BY <1>2, <1>3, <1>4, <1>5, <1>6, <1>7, <1>8 DEF Steps, Handle

\* The only step that touches the receipts adds one, made for what is stored.
LEMMA ReceiptAdded ==
  ASSUME BInv, NEW b \in Batches, Steps(b)
  PROVE  /\ UNCHANGED <<reader, counted, unverified>>
         /\ \/ UNCHANGED receipts
            \/ \E r : /\ receipts' = receipts \cup {r}
                      /\ contracts[r.contract.id] = r.contract.text
                      /\ r.contract \in Contracts
                      /\ UNCHANGED contracts
<1>1. UNCHANGED <<reader, counted, unverified>>
  BY DEF Steps, Handle, Arrive, SelectContract, InsertContract, Verify, SaveReceipt, SaveItems,
         WriteAudit, Reply, Abort, overview
<1>2. CASE SaveReceipt(b)
  <2>. DEFINE r == [batch |-> b, item |-> next[b], contract |-> body[b][next[b]],
                    verdict |-> verdicts[b][next[b]]]
  <2>1. pc[b] = "receipt" /\ UNCHANGED contracts /\ receipts' = receipts \cup {r}
    BY <1>2 DEF SaveReceipt, SaveItems
  <2>2. next[b] \in DOMAIN body[b] /\ body[b][next[b]] \in Contracts
    BY <2>1, ItemIs DEF Running, Item
  <2>3. Holds(b, next[b])
    BY <2>1, <2>2 DEF BInv, RequestInv, ContractsOK
  <2>4. r.contract = body[b][next[b]]
    OBVIOUS
  <2>. HIDE DEF r
  <2>. QED  BY <1>1, <2>1, <2>2, <2>3, <2>4 DEF Holds
<1>3. CASE ~SaveReceipt(b)
  <2>1. UNCHANGED receipts
    BY <1>3 DEF Steps, Handle, Arrive, SelectContract, InsertContract, Verify,
                WriteAudit, Reply, Abort, tables
  <2>. QED  BY <1>1, <2>1
<1>. QED  BY <1>2, <1>3

\* The tables keep their invariant through a request's step.
LEMMA TablesStep ==
  ASSUME BInv, NEW b \in Batches, Steps(b)
  PROVE  TablesInv' /\ receipts \subseteq receipts'
<1>1. TypeOK' /\ Frame(b)
  BY StepType, FrameHolds
<1>2. \/ UNCHANGED receipts
      \/ \E r : /\ receipts' = receipts \cup {r}
                /\ contracts[r.contract.id] = r.contract.text
                /\ r.contract \in Contracts
                /\ UNCHANGED contracts
  BY ReceiptAdded
<1>3. IsFiniteSet(receipts) /\ ReceiptBindsContract /\ receipts \subseteq Rows
  BY DEF BInv, TablesInv, TypeOK
<1>4. IsFiniteSet(receipts') /\ receipts \subseteq receipts'
  BY <1>2, <1>3, FS_AddElement
<1>5. ReceiptBindsContract'
  <2>1. ASSUME NEW x \in receipts  PROVE contracts'[x.contract.id] = x.contract.text
    <3>1. x.contract \in Contracts /\ contracts[x.contract.id] = x.contract.text
      BY <1>3 DEF ReceiptBindsContract, Rows
    <3>2. x.contract.id \in Ids /\ x.contract.text # Absent
      BY <3>1, BatchAssumption
    <3>. QED  BY <1>1, <3>1, <3>2 DEF Frame
  <2>2. ASSUME NEW r, receipts' = receipts \cup {r},
               contracts[r.contract.id] = r.contract.text, UNCHANGED contracts
        PROVE  ReceiptBindsContract'
    BY <2>1, <2>2 DEF ReceiptBindsContract
  <2>3. CASE UNCHANGED receipts
    BY <2>1, <2>3 DEF ReceiptBindsContract
  <2>. QED  BY <1>2, <2>2, <2>3
<1>. QED  BY <1>1, <1>4, <1>5 DEF TablesInv

\* A count, and how many of the receipts are VERIFIED.
LEMMA Counts ==
  ASSUME IsFiniteSet(receipts)
  PROVE  /\ Cardinality(receipts) \in Nat /\ Cardinality(Verified) \in Nat
         /\ Cardinality(receipts \ Verified) \in Nat
         /\ Cardinality(receipts \ Verified) = Cardinality(receipts) - Cardinality(Verified)
<1>1. Verified \subseteq receipts /\ receipts \cap Verified = Verified
  BY DEF Verified
<1>2. IsFiniteSet(Verified) /\ IsFiniteSet(receipts \ Verified)
  BY <1>1, FS_Subset, FS_Difference
<1>. QED  BY <1>1, <1>2, FS_Difference, FS_CardinalityType

\* The rounded rate is a number of tenths, no more than half a tenth off.
LEMMA Rounding ==
  ASSUME NEW v \in Nat, NEW t \in Nat, NEW rate \in Rates(v, t)
  PROVE  /\ rate \in Nat
         /\ t = 0 => rate = 0
         /\ t # 0 => 2 * (rate * t - 1000 * v) <= t
<1>1. CASE t = 0
  BY <1>1 DEF Rates
<1>2. CASE t # 0
  <2>1. (1000 * v) \div t \in Nat
    BY <1>2
  <2>. QED  BY <1>2, <2>1 DEF Rates, Rounded
<1>. QED  BY <1>1, <1>2

\* What a rounded rate says of the counts, when the parts are not more than
\* the whole.
LEMMA RateBounds ==
  ASSUME NEW v \in Nat, NEW t \in Nat, v <= t, NEW rate \in Rates(v, t)
  PROVE  rate <= 1000 /\ (rate = 1000 => t > 0 /\ 2000 * (t - v) <= t)
<1>1. CASE t = 0
  BY <1>1, Rounding
<1>2. CASE t # 0
  <2>1. rate \in Nat /\ 2 * (rate * t - 1000 * v) <= t
    BY <1>2, Rounding
  <2>2. ASSUME rate >= 1001  PROVE FALSE
    <3>1. PICK d \in Nat : rate = 1001 + d
      BY <2>1, <2>2
    <3>2. d * t \in Nat /\ rate * t = 1001 * t + d * t
      BY <3>1
    <3>3. PICK e \in Nat : e = d * t
      BY <3>2
    <3>4. 2 * (1001 * t + e - 1000 * v) <= t
      BY <2>1, <3>2, <3>3
    <3>. QED  BY <1>2, <3>4
  <2>3. rate <= 1000
    BY <2>1, <2>2
  <2>4. ASSUME rate = 1000  PROVE 2000 * (t - v) <= t
    <3>1. 2 * (1000 * t - 1000 * v) <= t
      BY <2>1, <2>4
    <3>. QED  BY <3>1
  <2>. QED  BY <1>2, <2>3, <2>4
<1>. QED  BY <1>1, <1>2

\* The overview's two statements read the receipts and touch nothing else.
LEMMA OverviewTouches ==
  ASSUME BInv, Group \/ Total
  PROVE  /\ TablesInv' /\ \A b \in Batches : RequestInv(b)'
<1>1. UNCHANGED <<contracts, receipts, audits, pc, body, next, verdicts>>
  BY DEF Group, Total, tables
<1>2. counted \in [verified : Nat, others : Nat, total : Nat, rate : Nat] /\ unverified \in Nat
  BY DEF BInv, TablesInv, TypeOK
<1>5. Cardinality(receipts) \in Nat /\ Cardinality(Verified) \in Nat
      /\ Cardinality(receipts \ Verified) \in Nat
  BY Counts DEF BInv, TablesInv
<1>6. reader' \in {"idle", "grouped", "done"} /\ unverified' \in Nat
      /\ counted' \in [verified : Nat, others : Nat, total : Nat, rate : Nat]
  <2>1. CASE Group
    BY <1>2, <1>5, <2>1 DEF Group
  <2>2. CASE Total
    <3>1. PICK rate \in Rates(counted.verified, Cardinality(receipts)) :
            counted' = [counted EXCEPT !.total = Cardinality(receipts), !.rate = rate]
      BY <2>2 DEF Total
    <3>2. rate \in Nat
      BY <1>2, <1>5, Rounding
    <3>. QED  BY <1>2, <1>5, <2>2, <3>1, <3>2 DEF Total
  <2>. QED  BY <2>1, <2>2
<1>7. TablesInv'
  BY <1>1, <1>6 DEF BInv, TablesInv, TypeOK, ReceiptBindsContract
<1>8. ASSUME NEW b \in Batches  PROVE RequestInv(b)'
  <2>1. RequestInv(b)
    BY DEF BInv
  <2>2. ContractsOK(b)'
    BY <1>1, <2>1 DEF RequestInv, ContractsOK, Holds, Rival, Item
  <2>3. ReceiptsOK(b)'
    BY <1>1, <2>1 DEF RequestInv, ReceiptsOK, Own, Kept, Audited
  <2>4. RefusedOK(b)'
    BY <1>1, <2>1 DEF RequestInv, RefusedOK
  <2>. QED  BY <2>2, <2>3, <2>4 DEF RequestInv
<1>. QED  BY <1>7, <1>8

\* The first statement counts what is VERIFIED.
LEMMA GroupStep ==
  ASSUME BInv, Group
  PROVE  ViewInv'
<1>1. counted \in [verified : Nat, others : Nat, total : Nat, rate : Nat]
  BY DEF BInv, TablesInv, TypeOK
<1>2. reader' = "grouped" /\ receipts' = receipts /\ counted'.verified = Cardinality(Verified)
  BY <1>1 DEF Group, tables
<1>3. Verified' = Verified /\ Cardinality(Verified) \in Nat
  BY <1>2, Counts DEF Verified, BInv, TablesInv
<1>4. OverviewOK'
  BY <1>2, <1>3 DEF OverviewOK
<1>5. RateIsTrue'
  BY <1>2 DEF RateIsTrue
<1>. QED  BY <1>4, <1>5 DEF ViewInv

\* The second counts at least as many: what it takes for not VERIFIED may have
\* become so since, never the other way round.
LEMMA TotalStep ==
  ASSUME BInv, Total
  PROVE  ViewInv'
<1>1. IsFiniteSet(receipts)
      /\ counted \in [verified : Nat, others : Nat, total : Nat, rate : Nat]
  BY DEF BInv, TablesInv, TypeOK
<1>2. PICK v \in Nat : v = counted.verified
  BY <1>1
<1>3. PICK t \in Nat, w \in Nat : t = Cardinality(receipts) /\ w = Cardinality(Verified)
                                /\ Cardinality(receipts \ Verified) = t - w /\ t - w \in Nat
  BY <1>1, Counts
<1>4. PICK rate \in Rates(v, t) :
        counted' = [counted EXCEPT !.total = t, !.rate = rate]
  BY <1>2, <1>3 DEF Total
<1>5. reader = "grouped" /\ reader' = "done" /\ unverified' = t - w
  BY <1>3 DEF Total
<1>6. counted'.total = t /\ counted'.rate = rate
  BY <1>1, <1>4
<1>7. v <= w
  BY <1>2, <1>3, <1>5 DEF BInv, ViewInv, OverviewOK
<1>8. v <= t
  BY <1>3, <1>7
<1>9. rate <= 1000 /\ (rate = 1000 => t > 0 /\ 2000 * (t - v) <= t)
  BY <1>8, RateBounds
<1>10. rate = 1000 => t > 0 /\ 2000 * (t - w) <= t
  BY <1>3, <1>7, <1>9
<1>11. RateIsTrue'
  BY <1>5, <1>6, <1>9, <1>10 DEF RateIsTrue
<1>12. OverviewOK'
  BY <1>5 DEF OverviewOK
<1>. QED  BY <1>11, <1>12 DEF ViewInv

\* A receipt that arrives between the two statements only lowers the rate.
LEMMA ViewStays ==
  ASSUME BInv, UNCHANGED <<reader, counted, unverified>>, IsFiniteSet(receipts'),
         receipts \subseteq receipts'
  PROVE  ViewInv'
<1>1. counted \in [verified : Nat, others : Nat, total : Nat, rate : Nat] /\ IsFiniteSet(receipts)
  BY DEF BInv, TablesInv, TypeOK
<1>2. Verified \subseteq Verified' /\ Verified' \subseteq receipts'
  BY DEF Verified
<1>3. IsFiniteSet(Verified') /\ IsFiniteSet(Verified)
  BY <1>2, FS_Subset
<1>4. PICK v \in Nat, w \in Nat, n \in Nat :
        v = counted.verified /\ w = Cardinality(Verified) /\ n = Cardinality(Verified') /\ w <= n
  BY <1>1, <1>2, <1>3, FS_Subset, FS_CardinalityType
<1>5. OverviewOK'
  <2>1. reader = "grouped" => v <= w
    BY <1>4 DEF BInv, ViewInv, OverviewOK
  <2>2. reader = "grouped" => v <= n
    BY <1>4, <2>1
  <2>. QED  BY <1>4, <2>2 DEF OverviewOK
<1>6. RateIsTrue'
  BY DEF BInv, ViewInv, RateIsTrue
<1>. QED  BY <1>5, <1>6 DEF ViewInv

-----------------------------------------------------------------------------
(* The theorems.                                                           *)

\* Nothing is stored at the start.
LEMMA InitBInv == Init => BInv
<1>. SUFFICES ASSUME Init  PROVE BInv
  OBVIOUS
<1>1. MaxBatch \in Nat /\ 1 \in 1..MaxBatch
  BY BatchAssumption
<1>2. <<>> \in Bodies /\ DOMAIN <<>> = {} /\ Len(<<>>) = 0
  <2>1. <<>> \in [1..0 -> Contracts] /\ DOMAIN <<>> = {} /\ Len(<<>>) = 0
    BY EmptySeq
  <2>2. 0 \in 0..(MaxBatch + 1)
    BY <1>1
  <2>. QED  BY <2>1, <2>2 DEF Bodies
<1>3. TypeOK
  BY <1>1, <1>2 DEF Init, TypeOK
<1>4. ReceiptBindsContract /\ IsFiniteSet(receipts)
  BY FS_EmptySet DEF Init, ReceiptBindsContract
<1>5. ASSUME NEW b \in Batches  PROVE RequestInv(b)
  BY DEF Init, RequestInv, ContractsOK, ReceiptsOK, RefusedOK, Own, Audited, Running
<1>6. ViewInv
  BY DEF Init, ViewInv, OverviewOK, RateIsTrue
<1>. QED  BY <1>3, <1>4, <1>5, <1>6 DEF BInv, TablesInv

\* Every step keeps the invariant.
LEMMA StepBInv ==
  ASSUME BInv, [Next]_vars
  PROVE  BInv'
<1>1. ASSUME NEW b \in Batches, Steps(b)  PROVE BInv'
  <2>1. Frame(b)
    BY <1>1, FrameHolds
  <2>2. TablesInv' /\ receipts \subseteq receipts'
    BY <1>1, TablesStep
  <2>3. ViewInv'
    BY <1>1, <2>2, ReceiptAdded, ViewStays DEF TablesInv
  <2>4. RequestInv(b)'
    BY <1>1, <2>1, ArriveStep, SelectStep, InsertStep, VerifyStep, ReceiptStep, AuditRowStep,
       EndStep DEF Steps, Handle
  <2>5. \A c \in Batches : RequestInv(c)'
    BY <2>1, <2>4, OthersStay
  <2>. QED  BY <2>2, <2>3, <2>5 DEF BInv
<1>2. ASSUME Group \/ Total  PROVE BInv'
  BY <1>2, OverviewTouches, GroupStep, TotalStep DEF BInv
<1>3. ASSUME UNCHANGED vars  PROVE BInv'
  <2>1. UNCHANGED <<contracts, receipts, audits, pc, body, next, verdicts, reader, counted,
                    unverified>>
    BY <1>3 DEF vars, tables, overview
  <2>2. TablesInv' /\ ViewInv'
    BY <2>1 DEF BInv, TablesInv, TypeOK, ReceiptBindsContract, ViewInv, OverviewOK, RateIsTrue,
                Verified
  <2>3. ASSUME NEW b \in Batches  PROVE RequestInv(b)'
    <3>1. RequestInv(b)
      BY DEF BInv
    <3>2. ContractsOK(b)'
      BY <2>1, <3>1 DEF RequestInv, ContractsOK, Holds, Rival, Item
    <3>3. ReceiptsOK(b)'
      BY <2>1, <3>1 DEF RequestInv, ReceiptsOK, Own, Kept, Audited
    <3>4. RefusedOK(b)'
      BY <2>1, <3>1 DEF RequestInv, RefusedOK
    <3>. QED  BY <3>2, <3>3, <3>4 DEF RequestInv
  <2>. QED  BY <2>2, <2>3 DEF BInv
<1>4. Next => Group \/ Total \/ \E b \in Batches : Steps(b)
  BY DEF Next, Steps
<1>. QED  BY <1>1, <1>2, <1>3, <1>4

\* The invariant of batches: tables, requests and overview stay consistent with
\* each other, whichever batches race and whichever instances die.
THEOREM BatchInvariance == Spec => []BInv
<1>1. BInv /\ [Next]_vars => BInv'
  BY StepBInv
<1>. QED  BY InitBInv, <1>1, PTL DEF Spec

\* The types, that receipts keep their contracts, and what every request has
\* left in the tables.
THEOREM BatchTablesAgree == Spec => []Inv
<1>1. BInv => Inv
  BY DEF BInv, TablesInv, RequestInv, ViewInv, Inv
<1>. QED  BY BatchInvariance, <1>1, PTL

\* A batch that is refused, or fails in its contracts, leaves no receipt and no
\* audit row, and has lost an id to other content or to another batch.
THEOREM RefusalLeavesNothing == Spec => []RefusedAsAWhole
<1>1. ASSUME BInv  PROVE RefusedAsAWhole
  <2>. SUFFICES ASSUME NEW b \in Batches
                PROVE  /\ pc[b] \in {"refused", "failed"} =>
                            Own(b) = {} /\ \A i \in 1..MaxBatch : <<b, i>> \notin audits
                       /\ pc[b] = "refused" /\ Len(body[b]) \in 1..MaxBatch =>
                            \E i \in DOMAIN body[b] :
                              contracts[body[b][i].id] \in Texts \ {body[b][i].text}
                       /\ pc[b] = "failed" =>
                            \E c \in Batches \ {b} : \E i \in DOMAIN body[b], j \in DOMAIN body[c] :
                              body[b][i].id = body[c][j].id
    BY DEF RefusedAsAWhole
  <2>1. ContractsOK(b) /\ ReceiptsOK(b) /\ RefusedOK(b)
    BY <1>1 DEF BInv, RequestInv
  <2>2. pc[b] \in {"refused", "failed"} =>
          Own(b) = {} /\ \A i \in 1..MaxBatch : <<b, i>> \notin audits
    BY <2>1 DEF ReceiptsOK, Audited
  <2>3. pc[b] = "failed" =>
          \E c \in Batches \ {b} : \E i \in DOMAIN body[b], j \in DOMAIN body[c] :
            body[b][i].id = body[c][j].id
    BY <2>1 DEF ContractsOK, Rival
  <2>. QED  BY <2>1, <2>2, <2>3 DEF RefusedOK
<1>2. BInv => RefusedAsAWhole
  BY <1>1
<1>. QED  BY BatchInvariance, <1>2, PTL

\* Wherever an instance dies, at most one receipt of its batch has no audit row,
\* and an answered batch has both for every item.
THEOREM ItemsAreAudited == Spec => []AuditedItemByItem
<1>1. ASSUME BInv, NEW b \in Batches
      PROVE  /\ Cardinality({x \in Own(b) : <<b, x.item>> \notin audits}) <= 1
             /\ pc[b] = "answered" =>
                  /\ Len(body[b]) \in 1..MaxBatch
                  /\ \A i \in DOMAIN body[b] :
                       <<b, i>> \in audits /\ \E x \in receipts : x.batch = b /\ x.item = i
  <2>1. ContractsOK(b) /\ ReceiptsOK(b)
    BY <1>1 DEF BInv, RequestInv
  <2>. DEFINE S == {x \in Own(b) : <<b, x.item>> \notin audits}
  <2>2. \A x, y \in S : x = y
    BY <2>1 DEF ReceiptsOK, Audited
  <2>. HIDE DEF S
  <2>3. Cardinality(S) <= 1
    <3>1. CASE S = {}
      <4>1. Cardinality({}) = 0
        BY FS_EmptySet
      <4>. QED  BY <3>1, <4>1
    <3>2. CASE S # {}
      <4>1. PICK x : S = {x}
        BY <2>2, <3>2
      <4>2. Cardinality({x}) = 1
        BY FS_Singleton
      <4>. QED  BY <4>1, <4>2
    <3>. QED  BY <3>1, <3>2
  <2>4. pc[b] = "answered" =>
          /\ Len(body[b]) \in 1..MaxBatch
          /\ \A i \in DOMAIN body[b] :
               <<b, i>> \in audits /\ \E x \in receipts : x.batch = b /\ x.item = i
    BY <2>1 DEF ContractsOK, ReceiptsOK, Kept, Audited, Own
  <2>. QED  BY <2>3, <2>4 DEF S
<1>2. BInv => AuditedItemByItem
  BY <1>1 DEF AuditedItemByItem
<1>. QED  BY BatchInvariance, <1>2, PTL

\* The verification rate of the overview, rounded as it is, is never above 100.0%,
\* and 100.0% only where one receipt in two thousand at most is not VERIFIED.
THEOREM RateNeverOverstates == Spec => []RateIsTrue
<1>1. BInv => RateIsTrue
  BY DEF BInv, ViewInv
<1>. QED  BY BatchInvariance, <1>1, PTL
=============================================================================
