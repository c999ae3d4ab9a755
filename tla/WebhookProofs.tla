---------------------------- MODULE WebhookProofs ----------------------------
(***************************************************************************)
(* What signed evidence promises, for any number of deliveries, runs,      *)
(* sources and workspaces: proofs about WebhookEvidence.                   *)
(***************************************************************************)
EXTENDS WebhookEvidence, SequenceTheorems, WellFoundedInduction, TLAPS

\* A search is there before anything is seen.
Searched == \A v \in Runs : seen[v] # Absent => search[v] # Absent

\* The inductive invariant: the run's, and what verifications have seen.
WInv == Inv /\ Searched /\ EvidenceIsOwn

\* A set of naturals that is not empty has a least member.
LEMMA Least ==
  ASSUME NEW T, T \subseteq Nat, T # {}
  PROVE  \E x \in T : \A y \in T : x <= y
<1>. DEFINE R == OpToRel(<, Nat)
<1>1. IsWellFoundedOn(R, Nat)
  BY NatLessThanWellFounded
<1>2. \A x, y \in Nat : (<<y, x>> \in R) <=> (y < x)
  BY DEF OpToRel
<1>. HIDE DEF R
<1>3. PICK x \in T : \A y \in T : ~(<<y, x>> \in R)
  BY <1>1, WFMin
<1>4. ASSUME NEW y \in T  PROVE x <= y
  <2>1. x \in Nat /\ y \in Nat
    OBVIOUS
  <2>2. ~(y < x)
    BY <1>2, <1>3, <2>1
  <2>. QED  BY <2>1, <2>2
<1>. QED  BY <1>4

\* The seconds an event can carry are naturals with a last one.
LEMMA SecondsBounded == MaxTick \div 2 \in Nat /\ \A ts \in Seconds : ts \in Nat /\ ts <= MaxTick \div 2
BY TimeAssumption DEF Seconds

\* Of events there is always a newest, so the adapter's first row exists
\* whenever there is a row.
LEMMA NewestExists ==
  ASSUME NEW S, S \subseteq Events, S # {}
  PROVE  Newest(S) # {}
<1>. DEFINE M == MaxTick \div 2
            T == {M - e.ts : e \in S}
<1>1. M \in Nat /\ \A e \in S : e.ts \in Nat /\ e.ts <= M
  BY SecondsBounded DEF Events
<1>. HIDE DEF M
<1>2. T \subseteq Nat /\ T # {}
  BY <1>1
<1>3. PICK x \in T : \A y \in T : x <= y
  BY <1>2, Least
<1>4. PICK e \in S : x = M - e.ts
  OBVIOUS
<1>5. ASSUME NEW f \in S  PROVE f.ts <= e.ts
  <2>1. M - e.ts <= M - f.ts
    BY <1>3, <1>4
  <2>. QED  BY <1>1, <2>1
<1>6. e \in Newest(S)
  BY <1>5 DEF Newest
<1>. QED  BY <1>6

\* The comparison of texts takes nothing too early, when the boundary is
\* written in UTC or east of it ...
LEMMA TextNotEarly ==
  ASSUME NEW ts \in Nat, NEW b \in Nat, NEW o \in Int, o >= 0, NotBefore(ts, b, o)
  PROVE  2 * ts >= b
<1>1. PICK h \in Nat, r \in 0..1 : h = b \div 2 /\ r = b % 2 /\ b = 2 * h + r
  <2>1. b \div 2 \in Nat /\ b % 2 \in 0..1 /\ b = 2 * (b \div 2) + (b % 2)
    OBVIOUS
  <2>. QED  BY <2>1
<1>2. ts > h + o \/ (ts = h + o /\ r = 0)
  BY <1>1 DEF NotBefore
<1>. QED  BY <1>1, <1>2

\* ... and loses nothing, when it is written in UTC or west of it.
LEMMA TextNotLate ==
  ASSUME NEW ts \in Nat, NEW b \in Nat, NEW o \in Int, o <= 0, 2 * ts >= b
  PROVE  NotBefore(ts, b, o)
<1>1. PICK h \in Nat, r \in 0..1 : h = b \div 2 /\ r = b % 2 /\ b = 2 * h + r
  <2>1. b \div 2 \in Nat /\ b % 2 \in 0..1 /\ b = 2 * (b \div 2) + (b % 2)
    OBVIOUS
  <2>. QED  BY <2>1
<1>2. ts > h + o \/ (ts = h + o /\ r = 0 /\ o = 0)
  BY <1>1
<1>. QED  BY <1>1, <1>2 DEF NotBefore

\* What appending does to the members of a sequence.
LEMMA AppendSet ==
  ASSUME NEW S, NEW q \in Seq(S), NEW e \in S
  PROVE  /\ Append(q, e) \in Seq(S)
         /\ ToSet(Append(q, e)) = ToSet(q) \cup {e}
         /\ IsInjective(q) /\ e \notin ToSet(q) => IsInjective(Append(q, e))
<1>. DEFINE r == Append(q, e)
<1>1. /\ r \in Seq(S) /\ Len(q) \in Nat
      /\ DOMAIN q = 1..Len(q) /\ DOMAIN r = 1..(Len(q) + 1)
      /\ \A i \in 1..Len(q) : r[i] = q[i]
      /\ r[Len(q) + 1] = e
  BY AppendProperties, LenProperties
<1>. HIDE DEF r
<1>2. \A i \in 1..(Len(q) + 1) : i \in 1..Len(q) \/ i = Len(q) + 1
  BY <1>1
<1>3. \A i \in 1..Len(q) : i \in 1..(Len(q) + 1)
  BY <1>1
<1>4. Len(q) + 1 \in 1..(Len(q) + 1)
  BY <1>1
<1>5. ToSet(r) = ToSet(q) \cup {e}
  <2>1. ToSet(r) \subseteq ToSet(q) \cup {e}
    BY <1>1, <1>2 DEF ToSet
  <2>2. ToSet(q) \cup {e} \subseteq ToSet(r)
    BY <1>1, <1>3, <1>4 DEF ToSet
  <2>. QED  BY <2>1, <2>2
<1>6. ASSUME IsInjective(q), e \notin ToSet(q)  PROVE IsInjective(r)
  <2>. SUFFICES ASSUME NEW i \in 1..(Len(q) + 1), NEW j \in 1..(Len(q) + 1), r[i] = r[j]
                PROVE  i = j
    BY <1>1 DEF IsInjective
  <2>1. \A x \in 1..Len(q) : r[x] # e
    BY <1>1, <1>6 DEF ToSet
  <2>2. CASE i \in 1..Len(q) /\ j \in 1..Len(q)
    BY <1>1, <1>6, <2>2 DEF IsInjective
  <2>3. CASE i = Len(q) + 1 /\ j \in 1..Len(q)
    BY <1>1, <2>1, <2>3
  <2>4. CASE i \in 1..Len(q) /\ j = Len(q) + 1
    BY <1>1, <2>1, <2>4
  <2>. QED  BY <1>2, <2>2, <2>3, <2>4
<1>. QED  BY <1>1, <1>5, <1>6 DEF r

\* The parts of a search.
LEMMA SearchParts ==
  ASSUME NEW q \in Searches
  PROVE  q.boundary \in Nat /\ q.offset \in Int
<1>1. q.boundary \in 0..MaxTick /\ q.offset \in Offsets \cup {0}
  BY DEF Searches
<1>2. 0..MaxTick \subseteq Nat /\ Offsets \cup {0} \subseteq Int
  BY TimeAssumption
<1>. QED  BY <1>1, <1>2

\* What a search finds is stored, of the workspace and the source that it asks
\* for, and not before its boundary if that is in UTC or east of it.
LEMMA FoundIsOwn ==
  ASSUME Inv, NEW q \in Searches, NEW e \in Matching(q)
  PROVE  /\ e \in Events /\ e \in ToSet(sent)
         /\ Owner[e.source] = q.tenant
         /\ q.offset >= 0 => Answers(q, e)
<1>1. PICK row \in rows :
        /\ e = row.event /\ row.tenant = q.tenant /\ row.event.source = q.source
        /\ q.object \in {Absent, row.event.object}
        /\ NotBefore(row.event.ts, q.boundary, q.offset)
  BY DEF Matching
<1>2. e \in Events /\ e \in ToSet(sent) /\ row.tenant = Owner[e.source]
  BY <1>1 DEF Inv, TypeOK, RowsOK
<1>3. e.ts \in Nat
  BY <1>2, SecondsBounded DEF Events
<1>4. q.boundary \in Nat /\ q.offset \in Int
  BY SearchParts
<1>5. q.offset >= 0 => 2 * e.ts >= q.boundary
  BY <1>1, <1>3, <1>4, TextNotEarly
<1>6. q.offset >= 0 => Answers(q, e)
  BY <1>1, <1>2, <1>5 DEF Answers
<1>. QED  BY <1>1, <1>2, <1>6

\* What is stored and answers a search is found, if the boundary is in UTC or
\* west of it.
LEMMA AnswerIsFound ==
  ASSUME Inv, NEW q \in Searches, NEW e \in Stored, Answers(q, e), q.offset <= 0
  PROVE  e \in Matching(q)
<1>1. PICK row \in rows : e = row.event
  BY DEF Stored
<1>2. e \in Events /\ row.tenant = Owner[e.source]
  BY <1>1 DEF Inv, TypeOK, RowsOK
<1>3. e.ts \in Nat /\ q.boundary \in Nat /\ q.offset \in Int
  BY <1>2, SecondsBounded, SearchParts DEF Events
<1>4. NotBefore(e.ts, q.boundary, q.offset)
  BY <1>3, TextNotLate DEF Answers
<1>5. row.tenant = q.tenant /\ row.event.source = q.source
      /\ q.object \in {Absent, row.event.object}
  BY <1>1, <1>2 DEF Answers
<1>. QED  BY <1>1, <1>4, <1>5 DEF Matching

-----------------------------------------------------------------------------
(* The steps.                                                              *)

\* At the start there is nothing to go wrong.
LEMMA InitWInv == Init => WInv
<1>. SUFFICES ASSUME Init  PROVE WInv
  OBVIOUS
<1>1. <<>> \in Seq(Events) /\ DOMAIN <<>> = {}
  BY EmptySeq
<1>2. ToSet(<<>>) = {} /\ IsInjective(<<>>)
  BY <1>1 DEF ToSet, IsInjective
<1>3. TypeOK
  BY <1>1, TimeAssumption DEF Init, TypeOK
<1>4. AuditedOnce /\ RowsOK /\ HandlersOK
  BY <1>2 DEF Init, AuditedOnce, RowsOK, HandlersOK, InHand
<1>5. Searched /\ EvidenceIsOwn
  BY DEF Init, Searched, EvidenceIsOwn
<1>. QED  BY <1>3, <1>4, <1>5 DEF WInv, Inv

\* Steps that are not a verification's leave what was seen, and nothing that is
\* signed is ever unsigned.
LEMMA SeenStays ==
  ASSUME WInv, UNCHANGED <<search, seen>>, ToSet(sent) \subseteq ToSet(sent')
  PROVE  Searched' /\ EvidenceIsOwn'
<1>1. Searched'
  BY DEF WInv, Searched
<1>2. EvidenceIsOwn'
  BY DEF WInv, EvidenceIsOwn, Answers
<1>. QED  BY <1>1, <1>2

\* The clock touches nothing of this.
LEMMA TickStep == WInv /\ Tick => WInv'
<1>. SUFFICES ASSUME WInv, Tick  PROVE WInv'
  OBVIOUS
<1>1. TypeOK'
  <2>1. clock' \in 0..MaxTick
    BY TimeAssumption DEF WInv, Inv, TypeOK, Tick
  <2>. QED  BY <2>1 DEF WInv, Inv, TypeOK, Tick
<1>2. AuditedOnce' /\ RowsOK' /\ HandlersOK'
  BY DEF WInv, Inv, Tick, AuditedOnce, RowsOK, HandlersOK, Stored
<1>3. Searched' /\ EvidenceIsOwn'
  BY SeenStays DEF Tick
<1>. QED  BY <1>1, <1>2, <1>3 DEF WInv, Inv

\* Signing adds one event to those there are.
LEMMA SendStep ==
  ASSUME WInv, NEW s \in Sources, NEW o \in Objects, NEW x \in Values, Send(s, o, x)
  PROVE  WInv'
<1>1. PICK drift \in Drifts :
        /\ clock \div 2 + drift \in Seconds
        /\ sent' = Append(sent, [source |-> s, object |-> o,
                                 ts |-> clock \div 2 + drift, value |-> x])
  BY DEF Send
<1>. DEFINE e == [source |-> s, object |-> o, ts |-> clock \div 2 + drift, value |-> x]
<1>2. e \in Events
  BY <1>1 DEF Events
<1>. HIDE DEF e
<1>3. sent' = Append(sent, e)
  BY <1>1 DEF e
<1>4. sent \in Seq(Events)
  BY DEF WInv, Inv, TypeOK
<1>5. sent' \in Seq(Events) /\ ToSet(sent) \subseteq ToSet(sent')
  BY <1>2, <1>3, <1>4, AppendSet
<1>6. UNCHANGED <<clock, rows, audits, pc, event, search, seen>>
  BY DEF Send
<1>7. TypeOK'
  BY <1>5, <1>6 DEF WInv, Inv, TypeOK
<1>8. AuditedOnce' /\ RowsOK' /\ HandlersOK'
  BY <1>5, <1>6 DEF WInv, Inv, AuditedOnce, RowsOK, HandlersOK, Stored
<1>9. Searched' /\ EvidenceIsOwn'
  BY <1>5, <1>6, SeenStays
<1>. QED  BY <1>7, <1>8, <1>9 DEF WInv, Inv

\* A delivery brings a signed event, or is refused.
LEMMA ReceiveStep ==
  ASSUME WInv, NEW d \in Deliveries, Receive(d)
  PROVE  WInv'
<1>1. PICK e \in ToSet(sent), l \in {"refused", "save"} :
        /\ event' = [event EXCEPT ![d] = e]
        /\ pc' = [pc EXCEPT ![d] = l]
  BY DEF Receive
<1>2. UNCHANGED <<clock, sent, rows, audits, search, seen>>
  BY DEF Receive
<1>3. e \in Events
  <2>1. \A i \in DOMAIN sent : sent[i] \in Events
    BY ElementOfSeq, LenProperties DEF WInv, Inv, TypeOK
  <2>. QED  BY <2>1 DEF ToSet
<1>4. /\ pc \in [Deliveries -> {"idle", "refused", "dead", "acknowledged"} \cup InHand]
      /\ event \in [Deliveries -> Events \cup {Absent}]
  BY DEF WInv, Inv, TypeOK
<1>5. TypeOK'
  BY <1>1, <1>2, <1>3, <1>4 DEF WInv, Inv, TypeOK, InHand
<1>6. /\ pc'[d] = l /\ event'[d] = e
      /\ \A c \in Deliveries \ {d} : pc'[c] = pc[c] /\ event'[c] = event[c]
  BY <1>1, <1>4
<1>7. Stored' = Stored
  BY <1>2 DEF Stored
<1>8. HandlersOK'
  <2>. SUFFICES ASSUME NEW c \in Deliveries
                PROVE  /\ pc'[c] \in InHand \cup {"acknowledged"} => event'[c] \in ToSet(sent)
                       /\ pc'[c] \in {"audit", "reply", "acknowledged"} => event'[c] \in Stored
                       /\ pc'[c] = "audit" =>
                            /\ event'[c] \notin ToSet(audits)
                            /\ \A b \in Deliveries : pc'[b] = "audit" /\ event'[b] = event'[c] => b = c
    BY <1>2, <1>7 DEF HandlersOK
  <2>1. CASE c = d
    BY <1>6, <2>1
  <2>2. CASE c # d
    BY <1>6, <2>2 DEF WInv, Inv, HandlersOK
  <2>. QED  BY <2>1, <2>2
<1>9. AuditedOnce' /\ RowsOK'
  BY <1>2, <1>7 DEF WInv, Inv, AuditedOnce, RowsOK
<1>10. Searched' /\ EvidenceIsOwn'
  BY <1>2, SeenStays
<1>. QED  BY <1>5, <1>8, <1>9, <1>10 DEF WInv, Inv

\* The insert that takes effect makes the one row of its event, and only its
\* handler goes on to the audit.
LEMMA SaveStep ==
  ASSUME WInv, NEW d \in Deliveries, SaveEvent(d)
  PROVE  WInv'
<1>. DEFINE e == event[d]
            new == [tenant |-> Owner[event[d].source], event |-> event[d]]
<1>1. /\ pc \in [Deliveries -> {"idle", "refused", "dead", "acknowledged"} \cup InHand]
      /\ pc[d] = "save" /\ e \in ToSet(sent)
      /\ UNCHANGED <<clock, sent, audits, event, search, seen>>
  BY DEF WInv, Inv, TypeOK, HandlersOK, SaveEvent, InHand
<1>2. e \in Events
  <2>1. \A i \in DOMAIN sent : sent[i] \in Events
    BY ElementOfSeq, LenProperties DEF WInv, Inv, TypeOK
  <2>. QED  BY <1>1, <2>1 DEF ToSet
<1>3. \/ /\ e \notin Stored
         /\ rows' = rows \cup {new}
         /\ pc' = [pc EXCEPT ![d] = "audit"]
      \/ /\ e \in Stored
         /\ rows' = rows
         /\ pc' = [pc EXCEPT ![d] = "reply"]
  BY DEF SaveEvent, Stored
<1>4. new.event = e /\ new.tenant = Owner[e.source] /\ new \in [tenant : Tenants, event : Events]
  BY <1>2, OwnerAssumption DEF Events
<1>. HIDE DEF new, e
<1>5. rows \subseteq rows' /\ \A row \in rows' : row \in rows \/ row = new
  BY <1>3
<1>6. Stored \subseteq Stored' /\ e \in Stored'
  BY <1>3, <1>4, <1>5 DEF Stored
<1>7. PICK l \in {"audit", "reply"} :
        pc' = [pc EXCEPT ![d] = l] /\ (l = "audit" => e \notin Stored)
  BY <1>3
<1>8. pc'[d] = l /\ \A c \in Deliveries \ {d} : pc'[c] = pc[c]
  BY <1>1, <1>7
<1>9. TypeOK'
  <2>1. rows' \subseteq [tenant : Tenants, event : Events]
    BY <1>4, <1>5 DEF WInv, Inv, TypeOK
  <2>2. pc' \in [Deliveries -> {"idle", "refused", "dead", "acknowledged"} \cup InHand]
    BY <1>1, <1>7 DEF InHand
  <2>. QED  BY <1>1, <2>1, <2>2 DEF WInv, Inv, TypeOK
<1>10. RowsOK' /\ AuditedOnce'
  <2>1. \A row \in rows' : row.event \in ToSet(sent) /\ row.tenant = Owner[row.event.source]
    BY <1>1, <1>4, <1>5 DEF WInv, Inv, RowsOK
  <2>2. ToSet(audits) \subseteq Stored'
    BY <1>6 DEF WInv, Inv, RowsOK
  <2>. QED  BY <1>1, <2>1, <2>2 DEF WInv, Inv, RowsOK, AuditedOnce
<1>11. HandlersOK'
  <2>. SUFFICES ASSUME NEW c \in Deliveries
                PROVE  /\ pc'[c] \in InHand \cup {"acknowledged"} => event[c] \in ToSet(sent)
                       /\ pc'[c] \in {"audit", "reply", "acknowledged"} => event[c] \in Stored'
                       /\ pc'[c] = "audit" =>
                            /\ event[c] \notin ToSet(audits)
                            /\ \A b \in Deliveries : pc'[b] = "audit" /\ event[b] = event[c] => b = c
    BY <1>1 DEF HandlersOK
  <2>0. \A b \in Deliveries : pc[b] = "audit" => event[b] \in Stored
    BY DEF WInv, Inv, HandlersOK
  <2>1. CASE c = d
    <3>1. event[c] \in ToSet(sent) /\ event[c] \in Stored'
      BY <1>1, <1>6, <2>1 DEF e
    <3>2. ASSUME l = "audit"
          PROVE  /\ event[c] \notin ToSet(audits)
                 /\ \A b \in Deliveries : pc'[b] = "audit" /\ event[b] = event[c] => b = c
      <4>1. event[c] \notin Stored
        BY <1>7, <2>1, <3>2 DEF e
      <4>. QED  BY <1>8, <2>0, <2>1, <4>1 DEF WInv, Inv, RowsOK
    <3>. QED  BY <1>8, <2>1, <3>1, <3>2
  <2>2. CASE c # d
    <3>1. pc'[c] = pc[c]
      BY <1>8, <2>2
    <3>2. pc[c] = "audit" => ~(pc'[d] = "audit" /\ event[d] = event[c])
      BY <1>7, <1>8, <2>0 DEF e
    <3>. QED  BY <1>6, <1>8, <3>1, <3>2 DEF WInv, Inv, HandlersOK
  <2>. QED  BY <2>1, <2>2
<1>12. Searched' /\ EvidenceIsOwn'
  BY <1>1, SeenStays
<1>. QED  BY <1>9, <1>10, <1>11, <1>12 DEF WInv, Inv

\* The audit of the delivery whose insert took effect is the first of its event.
LEMMA AuditStep ==
  ASSUME WInv, NEW d \in Deliveries, AuditEvent(d)
  PROVE  WInv'
<1>1. /\ pc \in [Deliveries -> {"idle", "refused", "dead", "acknowledged"} \cup InHand]
      /\ pc[d] = "audit" /\ pc' = [pc EXCEPT ![d] = "reply"]
      /\ audits' = Append(audits, event[d]) /\ audits \in Seq(Events)
      /\ UNCHANGED <<clock, sent, rows, event, search, seen>>
  BY DEF WInv, Inv, TypeOK, AuditEvent
<1>2. /\ event[d] \in Stored /\ event[d] \notin ToSet(audits)
      /\ \A c \in Deliveries : pc[c] = "audit" /\ event[c] = event[d] => c = d
  BY <1>1 DEF WInv, Inv, HandlersOK
<1>3. event[d] \in Events
  BY <1>2 DEF WInv, Inv, TypeOK, Stored
<1>4. /\ audits' \in Seq(Events) /\ ToSet(audits') = ToSet(audits) \cup {event[d]}
      /\ IsInjective(audits')
  <2>1. IsInjective(audits)
    BY DEF WInv, Inv, AuditedOnce
  <2>. QED  BY <1>1, <1>2, <1>3, <2>1, AppendSet
<1>5. pc'[d] = "reply" /\ \A c \in Deliveries \ {d} : pc'[c] = pc[c]
  BY <1>1
<1>6. Stored' = Stored
  BY <1>1 DEF Stored
<1>7. TypeOK'
  <2>1. pc' \in [Deliveries -> {"idle", "refused", "dead", "acknowledged"} \cup InHand]
    BY <1>1 DEF InHand
  <2>. QED  BY <1>1, <1>4, <2>1 DEF WInv, Inv, TypeOK
<1>8. AuditedOnce' /\ RowsOK'
  BY <1>1, <1>2, <1>4, <1>6 DEF WInv, Inv, AuditedOnce, RowsOK
<1>9. HandlersOK'
  <2>. SUFFICES ASSUME NEW c \in Deliveries
                PROVE  /\ pc'[c] \in InHand \cup {"acknowledged"} => event[c] \in ToSet(sent)
                       /\ pc'[c] \in {"audit", "reply", "acknowledged"} => event[c] \in Stored
                       /\ pc'[c] = "audit" =>
                            /\ event[c] \notin ToSet(audits')
                            /\ \A b \in Deliveries : pc'[b] = "audit" /\ event[b] = event[c] => b = c
    BY <1>1, <1>6 DEF HandlersOK
  <2>1. CASE c = d
    <3>1. event[c] \in ToSet(sent)
      BY <1>1, <2>1 DEF WInv, Inv, HandlersOK, InHand
    <3>. QED  BY <1>2, <1>5, <2>1, <3>1
  <2>2. CASE c # d
    <3>1. pc'[c] = pc[c] /\ \A b \in Deliveries : pc'[b] = "audit" => pc[b] = "audit"
      BY <1>1, <1>5, <2>2
    <3>2. pc[c] = "audit" => event[c] # event[d]
      BY <1>2, <2>2
    <3>. QED  BY <1>4, <3>1, <3>2 DEF WInv, Inv, HandlersOK
  <2>. QED  BY <2>1, <2>2
<1>10. Searched' /\ EvidenceIsOwn'
  BY <1>1, SeenStays
<1>. QED  BY <1>7, <1>8, <1>9, <1>10 DEF WInv, Inv

\* A handler that answers, or dies, claims no more than before.
LEMMA LeaveStep ==
  ASSUME WInv, NEW d \in Deliveries, Acknowledge(d) \/ Die(d)
  PROVE  WInv'
<1>1. UNCHANGED <<clock, sent, rows, audits, event, search, seen>>
  BY DEF Acknowledge, Die
<1>2. PICK l \in {"acknowledged", "dead"} :
        /\ pc' = [pc EXCEPT ![d] = l]
        /\ l = "acknowledged" => pc[d] = "reply"
  BY DEF Acknowledge, Die
<1>3. pc \in [Deliveries -> {"idle", "refused", "dead", "acknowledged"} \cup InHand]
  BY DEF WInv, Inv, TypeOK
<1>4. pc'[d] = l /\ \A c \in Deliveries \ {d} : pc'[c] = pc[c]
  BY <1>2, <1>3
<1>5. Stored' = Stored
  BY <1>1 DEF Stored
<1>6. TypeOK'
  <2>1. pc' \in [Deliveries -> {"idle", "refused", "dead", "acknowledged"} \cup InHand]
    BY <1>2, <1>3 DEF InHand
  <2>. QED  BY <1>1, <2>1 DEF WInv, Inv, TypeOK
<1>7. AuditedOnce' /\ RowsOK'
  BY <1>1, <1>5 DEF WInv, Inv, AuditedOnce, RowsOK
<1>8. HandlersOK'
  <2>. SUFFICES ASSUME NEW c \in Deliveries
                PROVE  /\ pc'[c] \in InHand \cup {"acknowledged"} => event[c] \in ToSet(sent)
                       /\ pc'[c] \in {"audit", "reply", "acknowledged"} => event[c] \in Stored
                       /\ pc'[c] = "audit" =>
                            /\ event[c] \notin ToSet(audits)
                            /\ \A b \in Deliveries : pc'[b] = "audit" /\ event[b] = event[c] => b = c
    BY <1>1, <1>5 DEF HandlersOK
  <2>1. \A b \in Deliveries : pc'[b] = "audit" => pc[b] = "audit"
    BY <1>4
  <2>2. CASE c = d
    BY <1>2, <1>4, <2>2 DEF WInv, Inv, HandlersOK, InHand
  <2>3. CASE c # d
    <3>1. pc'[c] = pc[c]
      BY <1>4, <2>3
    <3>. QED  BY <2>1, <3>1 DEF WInv, Inv, HandlersOK
  <2>. QED  BY <2>2, <2>3
<1>9. Searched' /\ EvidenceIsOwn'
  BY <1>1, SeenStays
<1>. QED  BY <1>6, <1>7, <1>8, <1>9 DEF WInv, Inv

\* The steps of a verification touch neither the tables nor the handlers.
LEMMA TablesStay ==
  ASSUME Inv, UNCHANGED <<clock, sent, rows, audits, pc, event>>,
         search' \in [Runs -> Searches \cup {Absent}],
         seen' \in [Runs -> {{}} \cup {{e} : e \in Events} \cup {Absent}]
  PROVE  Inv'
<1>1. TypeOK'
  BY DEF Inv, TypeOK
<1>2. AuditedOnce' /\ RowsOK' /\ HandlersOK'
  BY DEF Inv, AuditedOnce, RowsOK, HandlersOK, Stored
<1>. QED  BY <1>1, <1>2 DEF Inv

\* A verification that starts has seen nothing.
LEMMA StartStep ==
  ASSUME WInv, NEW v \in Runs, Start(v)
  PROVE  WInv'
<1>1. PICK q \in Searches : search' = [search EXCEPT ![v] = q]
  BY DEF Start
<1>2. search[v] = Absent /\ UNCHANGED <<clock, sent, rows, audits, pc, event, seen>>
  BY DEF Start
<1>3. /\ search \in [Runs -> Searches \cup {Absent}]
      /\ seen \in [Runs -> {{}} \cup {{e} : e \in Events} \cup {Absent}]
  BY DEF WInv, Inv, TypeOK
<1>4. search' \in [Runs -> Searches \cup {Absent}]
  BY <1>1, <1>3
<1>5. Inv'
  BY <1>2, <1>3, <1>4, TablesStay DEF WInv
<1>6. seen[v] = Absent /\ \A w \in Runs \ {v} : search'[w] = search[w]
  BY <1>1, <1>2, <1>3 DEF WInv, Searched
<1>7. Searched'
  BY <1>2, <1>6 DEF WInv, Searched
<1>8. EvidenceIsOwn'
  <2>. SUFFICES ASSUME NEW w \in Runs, seen[w] # Absent, NEW e \in seen[w]
                PROVE  /\ e \in ToSet(sent)
                       /\ Owner[e.source] = search'[w].tenant
                       /\ search'[w].offset >= 0 => Answers(search'[w], e)
    BY <1>2 DEF EvidenceIsOwn, Answers
  <2>1. search'[w] = search[w]
    BY <1>6
  <2>. QED  BY <2>1 DEF WInv, EvidenceIsOwn, Answers
<1>. QED  BY <1>5, <1>7, <1>8 DEF WInv

\* What a verification sees is what its search finds, or nothing.
LEMMA Observed ==
  ASSUME WInv, NEW v \in Runs, Observe(v)
  PROVE  /\ search[v] \in Searches
         /\ \E s \in {{}} \cup {{e} : e \in Newest(Matching(search[v]))} :
              /\ seen' = [seen EXCEPT ![v] = s]
              /\ s = {} => Newest(Matching(search[v])) = {}
         /\ UNCHANGED <<clock, sent, rows, audits, pc, event, search>>
<1>1. search[v] \in Searches
  BY DEF WInv, Inv, TypeOK, Observe
<1>2. \E s \in {{}} \cup {{e} : e \in Newest(Matching(search[v]))} :
        /\ seen' = [seen EXCEPT ![v] = s]
        /\ s = {} => Newest(Matching(search[v])) = {}
  BY DEF Observe
<1>3. UNCHANGED <<clock, sent, rows, audits, pc, event, search>>
  BY DEF Observe
<1>. QED  BY <1>1, <1>2, <1>3

\* What a verification sees is its own workspace's.
LEMMA ObserveStep ==
  ASSUME WInv, NEW v \in Runs, Observe(v)
  PROVE  WInv'
<1>1. PICK s \in {{}} \cup {{e} : e \in Newest(Matching(search[v]))} :
        seen' = [seen EXCEPT ![v] = s]
  BY Observed
<1>2. search[v] \in Searches /\ UNCHANGED <<clock, sent, rows, audits, pc, event, search>>
  BY Observed
<1>3. \A e \in s : e \in Matching(search[v])
  BY <1>1 DEF Newest
<1>4. ASSUME NEW e \in s
      PROVE  /\ e \in Events /\ e \in ToSet(sent)
             /\ Owner[e.source] = search[v].tenant
             /\ search[v].offset >= 0 => Answers(search[v], e)
  BY <1>2, <1>3, FoundIsOwn DEF WInv
<1>5. /\ search \in [Runs -> Searches \cup {Absent}]
      /\ seen \in [Runs -> {{}} \cup {{e} : e \in Events} \cup {Absent}]
  BY DEF WInv, Inv, TypeOK
<1>6. s \in {{}} \cup {{e} : e \in Events}
  BY <1>1, <1>4
<1>7. seen' \in [Runs -> {{}} \cup {{e} : e \in Events} \cup {Absent}]
  BY <1>1, <1>5, <1>6
<1>8. Inv'
  <2>1. search' \in [Runs -> Searches \cup {Absent}]
    BY <1>2, <1>5
  <2>. QED  BY <1>2, <1>7, <2>1, TablesStay DEF WInv
<1>9. seen'[v] = s /\ \A w \in Runs \ {v} : seen'[w] = seen[w]
  BY <1>1, <1>5
<1>10. Searched'
  <2>1. search[v] # Absent
    BY DEF Observe
  <2>. QED  BY <1>2, <1>9, <2>1 DEF WInv, Searched
<1>11. EvidenceIsOwn'
  <2>. SUFFICES ASSUME NEW w \in Runs, seen'[w] # Absent, NEW e \in seen'[w]
                PROVE  /\ e \in ToSet(sent)
                       /\ Owner[e.source] = search[w].tenant
                       /\ search[w].offset >= 0 => Answers(search[w], e)
    BY <1>2 DEF EvidenceIsOwn, Answers
  <2>1. CASE w = v
    BY <1>4, <1>9, <2>1
  <2>2. CASE w # v
    BY <1>9, <2>2 DEF WInv, EvidenceIsOwn
  <2>. QED  BY <2>1, <2>2
<1>. QED  BY <1>8, <1>10, <1>11 DEF WInv

\* Every step keeps the invariant.
LEMMA StepWInv ==
  ASSUME WInv, [Next]_vars
  PROVE  WInv'
<1>1. ASSUME UNCHANGED vars  PROVE WInv'
  <2>1. UNCHANGED <<clock, sent, rows, audits, pc, event, search, seen>>
    BY <1>1 DEF vars
  <2>2. Inv'
    BY <2>1, TablesStay DEF WInv, Inv, TypeOK
  <2>. QED  BY <2>1, <2>2, SeenStays DEF WInv
<1>. QED
  BY <1>1, TickStep, SendStep, ReceiveStep, SaveStep, AuditStep, LeaveStep, StartStep,
     ObserveStep DEF Next

\* The invariant of webhook evidence: tables, handlers and verifications stay of
\* their types and consistent with each other.
THEOREM EvidenceInvariance == Spec => []WInv
<1>1. WInv /\ [Next]_vars => WInv'
  BY StepWInv
<1>. QED  BY InitWInv, <1>1, PTL DEF Spec

\* However often and by however many handlers an event is delivered, it has one
\* audit row, and a handler past its insert leaves a row behind.
THEOREM EventsAuditedOnce == Spec => []Inv
<1>1. WInv => Inv
  BY DEF WInv
<1>. QED  BY EvidenceInvariance, <1>1, PTL

\* A verification is decided only by what the caller's own source has signed,
\* and by nothing from before its boundary when that is in UTC or east of it.
THEOREM EvidenceBelongs == Spec => []EvidenceIsOwn
<1>1. WInv => EvidenceIsOwn
  BY DEF WInv
<1>. QED  BY EvidenceInvariance, <1>1, PTL

\* What was acknowledged before a verification looks is seen by it, or a newer
\* event is, in whatever order the two were delivered.
THEOREM AcknowledgedSeen == Spec => AcknowledgedIsSeen
<1>1. ASSUME WInv, [Next]_vars, NEW v \in Runs,
             seen[v] # seen'[v], search[v].offset <= 0,
             NEW e \in Acknowledged, Answers(search[v], e)
      PROVE  \E f \in seen'[v] : f.ts >= e.ts
  <2>1. Observe(v)
    <3>1. seen \in [Runs -> {{}} \cup {{x} : x \in Events} \cup {Absent}]
      BY <1>1 DEF WInv, Inv, TypeOK
    <3>2. \A w \in Runs : Observe(w) => w = v
      BY <1>1, <3>1 DEF Observe
    <3>3. \E w \in Runs : Observe(w)
      BY <1>1 DEF Next, vars, Tick, Send, Receive, SaveEvent, AuditEvent, Acknowledge, Die, Start
    <3>. QED  BY <3>2, <3>3
  <2>2. /\ search[v] \in Searches
        /\ \E s \in {{}} \cup {{x} : x \in Newest(Matching(search[v]))} :
             /\ seen' = [seen EXCEPT ![v] = s]
             /\ s = {} => Newest(Matching(search[v])) = {}
    BY <1>1, <2>1, Observed
  <2>3. e \in Stored
    BY <1>1 DEF Acknowledged, WInv, Inv, HandlersOK
  <2>4. e \in Matching(search[v])
    BY <1>1, <2>2, <2>3, AnswerIsFound DEF WInv
  <2>5. Matching(search[v]) \subseteq Events
    BY <1>1, <2>2, FoundIsOwn DEF WInv
  <2>6. Newest(Matching(search[v])) # {}
    BY <2>4, <2>5, NewestExists
  <2>7. seen'[v] \in {{x} : x \in Newest(Matching(search[v]))}
    <3>1. seen \in [Runs -> {{}} \cup {{x} : x \in Events} \cup {Absent}]
      BY <1>1 DEF WInv, Inv, TypeOK
    <3>. QED  BY <2>2, <2>6, <3>1
  <2>8. PICK f \in Newest(Matching(search[v])) : seen'[v] = {f}
    BY <2>7
  <2>9. e.ts <= f.ts
    BY <2>4 DEF Newest
  <2>10. e.ts \in Nat /\ f.ts \in Nat
    <3>1. e \in Events /\ f \in Events
      BY <2>4, <2>5 DEF Newest
    <3>. QED  BY <3>1, SecondsBounded DEF Events
  <2>. QED  BY <2>8, <2>9, <2>10
<1>2. WInv /\ [Next]_vars =>
        [\A v \in Runs : seen[v] # seen'[v] /\ search[v].offset <= 0 =>
           \A e \in Acknowledged : Answers(search[v], e) =>
             \E f \in seen'[v] : f.ts >= e.ts]_vars
  BY <1>1
<1>. QED  BY <1>2, EvidenceInvariance, PTL DEF Spec, AcknowledgedIsSeen
=============================================================================
