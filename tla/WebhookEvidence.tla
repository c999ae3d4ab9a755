-------------------------- MODULE WebhookEvidence --------------------------
(***************************************************************************)
(* Signed webhook evidence: POST /v1/webhooks/{source} of doneproof/app.py,*)
(* the evidence_events table of doneproof/store.py, and the adapter of     *)
(* doneproof/adapters/webhook.py that reads it for a verification.         *)
(*                                                                         *)
(* A sender signs an event with the second of its clock.  The network may  *)
(* lose, repeat, delay and reorder deliveries, and the server may die      *)
(* between any two of its steps.  A run has a boundary, and its evidence   *)
(* is searched with a comparison of timestamps as text.                    *)
(*                                                                         *)
(* The clock counts ticks of half a second: an event carries a whole       *)
(* second, a boundary has a fraction.                                      *)
(***************************************************************************)
EXTENDS Integers, Sequences, SequencesExt

CONSTANTS
  Deliveries,  \* the deliveries that may reach the server
  Runs,        \* the verifications
  Tenants,
  Sources,     \* DONEPROOF_WEBHOOK_SOURCES_JSON: each source ...
  Owner,       \* ... has one tenant, Owner[source]
  Objects,     \* the objects events are about
  Values,      \* payloads
  Drifts,      \* by how many seconds a sender's clock may be off
  Offsets,     \* the offsets from UTC, in seconds, a caller may write
  Skew,        \* webhook_max_skew_seconds
  MaxTick,     \* bound on the clock
  MaxSends,    \* bound on the events that are sent
  Absent

ASSUME OwnerAssumption == Owner \in [Sources -> Tenants]

ASSUME TimeAssumption ==
  /\ Skew \in Nat /\ MaxTick \in Nat /\ MaxSends \in Nat
  /\ Drifts \subseteq Int /\ Offsets \subseteq Int

ASSUME AbsentAssumption == Absent \notin Objects

Seconds == 0..(MaxTick \div 2)

\* What the sender signs; the event id is a hash of exactly this.
Events == [source : Sources, object : Objects, ts : Seconds, value : Values]

\* What the adapter searches for, for whom, and from when: an instant (in
\* ticks) with the offset from UTC in which it is written.
Searches == [tenant : Tenants, source : Sources, object : Objects \cup {Absent},
             boundary : 0..MaxTick, offset : Offsets \cup {0}]

VARIABLES
  clock,   \* the server's
  sent,    \* history: the events signed, in order
  rows,    \* evidence_events: [tenant, event], primary key event
  audits,  \* the evidence.accepted rows, in order
  pc,      \* where each delivery's handler is
  event,   \* the event each delivery brings
  search,  \* what each verification looks for
  seen     \* what it saw: {} for no evidence, {event}, or Absent

vars == <<clock, sent, rows, audits, pc, event, search, seen>>

InHand == {"save", "audit", "reply"}

Init ==
  /\ clock = 0
  /\ sent = <<>>
  /\ rows = {}
  /\ audits = <<>>
  /\ pc = [d \in Deliveries |-> "idle"]
  /\ event = [d \in Deliveries |-> Absent]
  /\ search = [v \in Runs |-> Absent]
  /\ seen = [v \in Runs |-> Absent]

-----------------------------------------------------------------------------
(* The sender and the clock.                                               *)

Tick ==
  /\ clock < MaxTick
  /\ clock' = clock + 1
  /\ UNCHANGED <<sent, rows, audits, pc, event, search, seen>>

\* An authoritative system signs what has just happened.
Send(s, o, x) ==
  /\ Len(sent) < MaxSends
  /\ \E drift \in Drifts :
       LET ts == clock \div 2 + drift
       IN  /\ ts \in Seconds
           /\ sent' = Append(sent, [source |-> s, object |-> o, ts |-> ts, value |-> x])
  /\ UNCHANGED <<clock, rows, audits, pc, event, search, seen>>

-----------------------------------------------------------------------------
(* The handler of POST /v1/webhooks/{source}.                              *)

\* A delivery of any event sent so far: the replay window is checked before the
\* body is awaited.  An unsigned or altered request is refused here and
\* touches nothing.
Receive(d) ==
  /\ pc[d] = "idle"
  /\ \E e \in ToSet(sent) :
       LET distance == IF clock \div 2 > e.ts THEN clock \div 2 - e.ts
                                              ELSE e.ts - clock \div 2
       IN  /\ event' = [event EXCEPT ![d] = e]
           /\ pc' = [pc EXCEPT ![d] = IF distance > Skew THEN "refused" ELSE "save"]
  /\ UNCHANGED <<clock, sent, rows, audits, search, seen>>

\* Mutant of SaveEvent: INSERT OR REPLACE counts one row every time.
SaveEvent_Replace(d) ==
  /\ pc[d] = "save"
  /\ rows' = rows \cup {[tenant |-> Owner[event[d].source], event |-> event[d]]}
  /\ pc' = [pc EXCEPT ![d] = "audit"]
  /\ UNCHANGED <<clock, sent, audits, event, search, seen>>

\* store.save_event: INSERT OR IGNORE, ON CONFLICT DO NOTHING.  Only the
\* delivery whose insert took effect goes on to the audit.
SaveEvent(d) ==
  /\ pc[d] = "save"
  /\ LET inserted == \A row \in rows : row.event # event[d] IN
       /\ rows' = IF inserted
                    THEN rows \cup {[tenant |-> Owner[event[d].source], event |-> event[d]]}
                    ELSE rows
       /\ pc' = [pc EXCEPT ![d] = IF inserted THEN "audit" ELSE "reply"]
  /\ UNCHANGED <<clock, sent, audits, event, search, seen>>

\* store.audit, "evidence.accepted"
AuditEvent(d) ==
  /\ pc[d] = "audit"
  /\ audits' = Append(audits, event[d])
  /\ pc' = [pc EXCEPT ![d] = "reply"]
  /\ UNCHANGED <<clock, sent, rows, event, search, seen>>

\* 200, accepted, whether duplicate or not.
Acknowledge(d) ==
  /\ pc[d] = "reply"
  /\ pc' = [pc EXCEPT ![d] = "acknowledged"]
  /\ UNCHANGED <<clock, sent, rows, audits, event, search, seen>>

\* The instance dies, or the next store call raises.
Die(d) ==
  /\ pc[d] \in InHand
  /\ pc' = [pc EXCEPT ![d] = "dead"]
  /\ UNCHANGED <<clock, sent, rows, audits, event, search, seen>>

-----------------------------------------------------------------------------
(* Verification.                                                           *)

\* A run is registered at the server's clock, in UTC, or a caller writes some
\* boundary into a submitted contract; the engine forces it on the selector.
Start(v) ==
  /\ search[v] = Absent
  /\ \E q \in Searches :
       /\ \/ q.boundary = clock /\ q.offset = 0
          \/ q.offset \in Offsets
       /\ search' = [search EXCEPT ![v] = q]
  /\ UNCHANGED <<clock, sent, rows, audits, pc, event, seen>>

\* Mutant of NotBefore: occurred_at > ? instead of >= ?.
NotBefore_Strict(ts, boundary, offset) == ts > boundary \div 2 + offset

(***************************************************************************)
(* occurred_at >= ? on the ISO texts of an event's second, which ends in   *)
(* +00:00, and of a boundary.  The local times decide; when they agree, a  *)
(* fraction or another offset makes the boundary the greater text.  This   *)
(* is the order of bytes: SQLite's, and PostgreSQL's in the C collation.   *)
(***************************************************************************)
NotBefore(ts, boundary, offset) ==
  LET local == boundary \div 2 + offset IN
    \/ ts > local
    \/ ts = local /\ boundary % 2 = 0 /\ offset = 0

\* Mutant of Matching: the tenant is not in the WHERE clause.
Matching_AnyTenant(q) ==
  {row.event : row \in {x \in rows :
     /\ x.event.source = q.source
     /\ q.object \in {Absent, x.event.object}
     /\ NotBefore(x.event.ts, q.boundary, q.offset)}}

\* store.find_events
Matching(q) ==
  {row.event : row \in {x \in rows :
     /\ x.tenant = q.tenant
     /\ x.event.source = q.source
     /\ q.object \in {Absent, x.event.object}
     /\ NotBefore(x.event.ts, q.boundary, q.offset)}}

\* ORDER BY occurred_at DESC: nothing orders the events of one second.
Newest(S) == {e \in S : \A f \in S : f.ts <= e.ts}

\* WebhookEvidenceAdapter.observe: no evidence, or the first row.
Observe(v) ==
  /\ search[v] # Absent
  /\ seen[v] = Absent
  /\ LET found == Newest(Matching(search[v])) IN
       \/ found = {} /\ seen' = [seen EXCEPT ![v] = {}]
       \/ \E e \in found : seen' = [seen EXCEPT ![v] = {e}]
  /\ UNCHANGED <<clock, sent, rows, audits, pc, event, search>>

-----------------------------------------------------------------------------
Next ==
  \/ Tick
  \/ \E s \in Sources, o \in Objects, x \in Values : Send(s, o, x)
  \/ \E d \in Deliveries :
       Receive(d) \/ SaveEvent(d) \/ AuditEvent(d) \/ Acknowledge(d) \/ Die(d)
  \/ \E v \in Runs : Start(v) \/ Observe(v)

Spec == Init /\ [][Next]_vars

-----------------------------------------------------------------------------
(* Properties.                                                             *)

\* Every table, handler and verification is of its type.
TypeOK ==
  /\ clock \in 0..MaxTick
  /\ sent \in Seq(Events)
  /\ rows \subseteq [tenant : Tenants, event : Events]
  /\ audits \in Seq(Events)
  /\ pc \in [Deliveries -> {"idle", "refused", "dead", "acknowledged"} \cup InHand]
  /\ event \in [Deliveries -> Events \cup {Absent}]
  /\ search \in [Runs -> Searches \cup {Absent}]
  /\ seen \in [Runs -> {{}} \cup {{e} : e \in Events} \cup {Absent}]

\* "Accepted events receive deterministic event IDs": however often an event is
\* delivered, and by however many handlers at once, it is audited once.
AuditedOnce == IsInjective(audits)

\* The events with a row.
Stored == {row.event : row \in rows}

\* A row holds what was signed, for the workspace of its source, and only what
\* has a row is audited.
RowsOK ==
  /\ \A row \in rows : row.event \in ToSet(sent) /\ row.tenant = Owner[row.event.source]
  /\ ToSet(audits) \subseteq Stored

\* A handler has in hand what was signed; it is past its insert only when there
\* is a row, and no two are about to audit one event, nor an audited one.
HandlersOK ==
  \A d \in Deliveries :
    /\ pc[d] \in InHand \cup {"acknowledged"} => event[d] \in ToSet(sent)
    /\ pc[d] \in {"audit", "reply", "acknowledged"} => event[d] \in Stored
    /\ pc[d] = "audit" =>
         /\ event[d] \notin ToSet(audits)
         /\ \A c \in Deliveries : pc[c] = "audit" /\ event[c] = event[d] => c = d

\* The tables and handlers are of their types and consistent with each other,
\* and nothing is audited twice.
Inv == TypeOK /\ AuditedOnce /\ RowsOK /\ HandlersOK

\* The events that answer a search, judged by instants and not by texts.
Answers(q, e) ==
  /\ Owner[e.source] = q.tenant
  /\ e.source = q.source
  /\ q.object \in {Absent, e.object}
  /\ 2 * e.ts >= q.boundary

\* A run of one tenant is never decided by what another tenant's source, or
\* nobody, has signed, nor by an event from before its boundary, when that is
\* written in UTC or east of it.
EvidenceIsOwn ==
  \A v \in Runs : seen[v] # Absent =>
    \A e \in seen[v] :
      /\ e \in ToSet(sent)
      /\ Owner[e.source] = search[v].tenant
      /\ search[v].offset >= 0 => Answers(search[v], e)

\* The events whose delivery has been acknowledged.
Acknowledged == {event[d] : d \in {x \in Deliveries : pc[x] = "acknowledged"}}

\* Whatever was acknowledged before a verification looks is seen by it: it sees
\* that event or a newer one, out of whatever order they were delivered in, when
\* the boundary is written in UTC or west of it.
AcknowledgedIsSeen ==
  [][\A v \in Runs : seen[v] # seen'[v] /\ search[v].offset <= 0 =>
       \A e \in Acknowledged : Answers(search[v], e) =>
         \E f \in seen'[v] : f.ts >= e.ts]_vars
=============================================================================
