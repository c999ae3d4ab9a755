----------------------------- MODULE GmailProofs -----------------------------
(***************************************************************************)
(* What one observation of a mailbox promises, for any mail, conditions,   *)
(* attempts and faults: proofs about GmailDiscovery.                       *)
(***************************************************************************)
EXTENDS GmailDiscovery, FiniteSetTheorems, SequenceTheorems, WellFoundedInduction, TLAPS

\* A set of naturals that is not empty has a least member.
LEMMA Least ==
  ASSUME NEW T, T \subseteq Nat, T # {}
  PROVE  \E x \in T : \A y \in T : x <= y
<1>. DEFINE R == OpToRel(<, Nat)
<1>1. IsWellFoundedOn(R, Nat)
  BY NatLessThanWellFounded
<1>2. \A x, y \in Nat : (<<y, x>> \in R) <=> (y < x)
  BY DEF OpToRel
<1>. HIDE DEF R
<1>3. PICK x \in T : \A y \in T : ~(<<y, x>> \in R)
  BY <1>1, WFMin
<1>4. ASSUME NEW y \in T  PROVE x <= y
  <2>1. x \in Nat /\ y \in Nat
    OBVIOUS
  <2>2. ~(y < x)
    BY <1>2, <1>3, <2>1
  <2>. QED  BY <2>1, <2>2
<1>. QED  BY <1>4

\* One step of the loop over a path.
IsLoop(f, v, path, n) ==
  f = [i \in 0..n |-> IF i = 0 THEN v ELSE Child(f[i - 1], path[i])]

\* There is a function that does the loop.
LEMMA LoopExists ==
  ASSUME NEW v, NEW path, NEW n \in Nat
  PROVE  \E f : IsLoop(f, v, path, n)
<1> DEFINE T == {i \in Nat : ~ \E f : IsLoop(f, v, path, i)}
<1>1. SUFFICES ASSUME T # {} PROVE FALSE
  OBVIOUS
<1>2. PICK i \in T : \A k \in T : i <= k
  BY <1>1, Least
<1>3. i # 0
  <2>1. SUFFICES ASSUME i = 0 PROVE FALSE
    OBVIOUS
  <2> DEFINE g == [j \in 0..0 |-> v]
  <2>2. g = [j \in 0..0 |-> IF j = 0 THEN v ELSE Child(g[j - 1], path[j])]
    OBVIOUS
  <2>. QED
    BY <1>2, <2>1, <2>2 DEF IsLoop
<1>4. PICK f : IsLoop(f, v, path, i - 1)
  <2>1. i - 1 \in Nat /\ i - 1 \notin T
    BY <1>2, <1>3
  <2>. QED
    BY <2>1
<1> DEFINE g == [j \in 0..i |-> IF j = i THEN Child(f[i - 1], path[i]) ELSE f[j]]
<1>5. IsLoop(g, v, path, i)
  <2>1. i \in Nat
    BY <1>2
  <2>2. \A j \in 0..(i - 1) : f[j] = IF j = 0 THEN v ELSE Child(f[j - 1], path[j])
    BY <1>4, <2>1, <1>3 DEF IsLoop
  <2>3. \A j \in 0..(i - 1) : g[j] = f[j]
    BY <2>1
  <2>4. ASSUME NEW j \in 0..i
        PROVE  g[j] = IF j = 0 THEN v ELSE Child(g[j - 1], path[j])
    <3>1. CASE j = i
      <4>1. g[j] = Child(f[i - 1], path[i]) /\ i - 1 \in 0..(i - 1)
        BY <3>1, <2>1, <1>3
      <4>2. g[i - 1] = f[i - 1]
        BY <4>1, <2>3
      <4> HIDE DEF g
      <4> QED
        BY <4>1, <4>2, <3>1, <1>3
    <3>2. CASE j # i
      <4>1. j \in 0..(i - 1) /\ (j # 0 => j - 1 \in 0..(i - 1))
        BY <3>2, <2>1
      <4>2. g[j] = f[j] /\ (j # 0 => g[j - 1] = f[j - 1])
        BY <4>1, <2>3
      <4> HIDE DEF g
      <4> QED
        BY <4>1, <4>2, <2>2
    <3> QED
      BY <3>1, <3>2
  <2>5. g = [j \in 0..i |-> g[j]]
    OBVIOUS
  <2> HIDE DEF g
  <2>6. g = [j \in 0..i |-> IF j = 0 THEN v ELSE Child(g[j - 1], path[j])]
    BY <2>4, <2>5
  <2>. QED
    BY <2>6 DEF IsLoop
<1>. QED
  BY <1>2, <1>5

\* A path is resolved part by part.
LEMMA PathByParts ==
  ASSUME NEW v, NEW path, Len(path) \in Nat
  PROVE  \E f : /\ ResolvePath(v, path) = f[Len(path)]
                /\ f[0] = v
                /\ \A i \in 1..Len(path) : f[i] = Child(f[i - 1], path[i])
<1> DEFINE g == CHOOSE f : f = [n \in 0..Len(path) |-> IF n = 0 THEN v ELSE Child(f[n - 1], path[n])]
<1>1. \E f : f = [n \in 0..Len(path) |-> IF n = 0 THEN v ELSE Child(f[n - 1], path[n])]
  <2>1. PICK f : IsLoop(f, v, path, Len(path))
    BY LoopExists
  <2>2. f = [n \in 0..Len(path) |-> IF n = 0 THEN v ELSE Child(f[n - 1], path[n])]
    BY <2>1 DEF IsLoop
  <2>. QED
    BY <2>2
<1>2. g = [n \in 0..Len(path) |-> IF n = 0 THEN v ELSE Child(g[n - 1], path[n])]
  BY <1>1
<1>3. ResolvePath(v, path) = g[Len(path)]
  BY DEF ResolvePath
<1> HIDE DEF g
<1>4. g[0] = v /\ \A i \in 1..Len(path) : g[i] = Child(g[i - 1], path[i])
  BY <1>2
<1>. QED
  BY <1>3, <1>4

\* No part of a path is found in what is not there, nor in a null.
LEMMA NothingIn ==
  ASSUME NEW part
  PROVE  Child(None, part) = Missing /\ Child(Missing, part) = Missing
<1>1. DOMAIN None = {"none"} /\ DOMAIN Missing = {"missing"}
  BY DEF None, Missing
<1>2. /\ ~Is("map", None) /\ ~Is("list", None)
      /\ ~Is("map", Missing) /\ ~Is("list", Missing)
  BY <1>1 DEF Is
<1>. QED  BY <1>2 DEF Child

\* Where there is no message, a path of one part or more leads nowhere.
LEMMA NothingFound ==
  ASSUME NEW p \in Conditions, p.path # <<>>
  PROVE  ResolvePath(None, p.path) = Missing
<1>1. PICK q : q = p.path /\ q \in Seq(STRING)
  BY ConditionsAssumption
<1>2. PICK n \in Nat : n = Len(q)
  BY <1>1
<1>3. n # 0
  BY <1>1, <1>2, EmptySeq
<1>4. PICK f : /\ ResolvePath(None, q) = f[n]
               /\ f[0] = None
               /\ \A i \in 1..n : f[i] = Child(f[i - 1], q[i])
  <2>1. Len(q) \in Nat
    BY <1>2
  <2>2. \E f : /\ ResolvePath(None, q) = f[Len(q)]
               /\ f[0] = None
               /\ \A i \in 1..Len(q) : f[i] = Child(f[i - 1], q[i])
    BY <2>1, PathByParts
  <2>. QED  BY <1>2, <2>2
<1>. DEFINE T == {i \in 1..n : f[i] # Missing}
<1>5. T = {}
  <2>1. SUFFICES ASSUME T # {} PROVE FALSE
    OBVIOUS
  <2>2. T \subseteq Nat
    OBVIOUS
  <2>3. PICK i \in T : \A k \in T : i <= k
    BY <2>1, <2>2, Least
  <2>4. i \in 1..n /\ f[i] # Missing /\ f[i] = Child(f[i - 1], q[i])
    BY <2>3, <1>4
  <2>5. f[i - 1] \in {None, Missing}
    <3>1. CASE i = 1
      BY <3>1, <1>4
    <3>2. CASE i # 1
      <4>1. i - 1 \in 1..n /\ ~(i <= i - 1)
        BY <3>2, <2>4, <1>2
      <4>. QED  BY <4>1, <2>3
    <3>. QED  BY <3>1, <3>2
  <2>. QED  BY <2>4, <2>5, NothingIn
<1>6. ResolvePath(None, p.path) = Missing
  <2>1. n \in 1..n
    BY <1>2, <1>3
  <2>. QED  BY <1>1, <1>4, <1>5, <2>1
<1>. QED  BY <1>6

\* A null is not what is missing, and is of no type that has parts.
LEMMA NullIs ==
  /\ None # Missing
  /\ ~Is("map", None) /\ ~Is("list", None) /\ ~Is("str", None)
<1>1. DOMAIN None = {"none"} /\ DOMAIN Missing = {"missing"}
  BY DEF None, Missing
<1>. QED  BY <1>1 DEF Is

\* A null contains all of nothing, and of nothing else.
LEMMA NullContains ==
  ASSUME NEW x
  PROVE  /\ ~IsIn(x, None)
         /\ ContainsAll(None, x) <=> Void(x)
<1>1. \A y : ~IsIn(y, None)
  BY NullIs DEF IsIn
<1>2. Is("str", x) => None # x
  BY NullIs
<1>3. (\A y \in ToSet(x.list) : IsIn(y, None)) <=> ToSet(x.list) = {}
  BY <1>1
<1>4. (\A k \in DOMAIN x.map : IsIn(Str(k), None)) <=> DOMAIN x.map = {}
  BY <1>1
<1>. QED  BY <1>1, <1>2, <1>3, <1>4 DEF ContainsAll, Void

\* A null is compared with what is expected, and has no order.
LEMMA NullApplied ==
  ASSUME NEW p \in Conditions, p.op # "not_exists"
  PROVE  Apply(None, p) = "PASS" <=> \/ p.op = "eq" /\ p.expected = None
                                     \/ p.op = "neq" /\ p.expected # None
                                     \/ p.op = "contains_all" /\ Void(p.expected)
<1>1. p.op \in Operators
  BY ConditionsAssumption
<1>2. CASE p.op = "exists"
  BY <1>2 DEF Apply, Status
<1>3. CASE p.op = "eq"
  BY <1>3 DEF Apply, Status
<1>4. CASE p.op = "neq"
  BY <1>4 DEF Apply, Status
<1>5. CASE p.op = "contains"
  BY <1>5, NullContains DEF Apply, Status
<1>6. CASE p.op = "contains_all"
  BY <1>6, NullContains DEF Apply, Status
<1>7. CASE p.op \in {"gte", "lte"}
  <2>1. ~Comparable(None, p.expected)
    BY NullIs DEF Comparable, Strings
  <2>2. Apply(None, p) = "UNKNOWN"
    BY <1>7, <2>1 DEF Apply
  <2>. QED  BY <1>7, <2>2
<1>. QED  BY <1>1, <1>2, <1>3, <1>4, <1>5, <1>6, <1>7 DEF Operators

\* Where there is no message, exactly what PassesOnNothing lists passes.
LEMMA NothingPasses ==
  ASSUME NEW p \in Conditions
  PROVE  Evaluate(None, p) = "PASS" <=> PassesOnNothing(p)
<1>1. CASE p.path # <<>>
  <2>1. Evaluate(None, p) = Status(p.op = "not_exists")
    BY <1>1, NothingFound DEF Evaluate
  <2>. QED  BY <1>1, <2>1 DEF PassesOnNothing, Status
<1>2. CASE p.path = <<>>
  <2>1. ResolvePath(None, p.path) = None
    <3>1. p.path \in Seq(STRING) /\ Len(p.path) = 0
      BY <1>2, ConditionsAssumption
    <3>2. PICK f : ResolvePath(None, p.path) = f[0] /\ f[0] = None
      BY <3>1, PathByParts
    <3>. QED  BY <3>2
  <2>2. Evaluate(None, p) = Apply(None, p)
    BY <2>1, NullIs DEF Evaluate
  <2>3. CASE p.op = "not_exists"
    BY <2>2, <2>3 DEF Apply, Status, PassesOnNothing
  <2>4. CASE p.op # "not_exists"
    BY <1>2, <2>2, <2>4, NullApplied DEF PassesOnNothing
  <2>. QED  BY <2>3, <2>4
<1>. QED  BY <1>1, <1>2

\* A part of a path is looked up in a map that has it.
LEMMA ChildOfMap ==
  ASSUME NEW v, NEW part, Is("map", v), part \in DOMAIN v.map
  PROVE  Child(v, part) = v.map[part]
<1>1. ~Is("list", v)
  BY DEF Is
<1>. QED  BY <1>1 DEF Child

\* A message that was there has its place, so that not_exists fails on it.
LEMMA PlaceIsThere ==
  ASSUME NEW p, NEW m, p.op = "not_exists", p.path = <<"location">>
  PROVE  Evaluate(State(m), p) # "PASS"
<1>1. Len(p.path) = 1 /\ p.path[1] = "location"
  OBVIOUS
<1>2. PICK st : st = State(m)
  OBVIOUS
<1>3. ResolvePath(st, p.path) = Child(st, "location")
  <2>1. PICK f : /\ ResolvePath(st, p.path) = f[Len(p.path)]
                 /\ f[0] = st
                 /\ \A i \in 1..Len(p.path) : f[i] = Child(f[i - 1], p.path[i])
    <3>1. Len(p.path) \in Nat
      BY <1>1
    <3>. QED  BY <3>1, PathByParts
  <2>2. f[1] = Child(f[1 - 1], p.path[1])
    BY <2>1, <1>1
  <2>. QED  BY <2>1, <2>2, <1>1
<1>4. Child(State(m), "location") = Str(seen[m].location)
  <2>1. /\ Is("map", State(m))
        /\ "location" \in DOMAIN State(m).map
        /\ State(m).map["location"] = Str(seen[m].location)
    <3>. DEFINE F == [message_id |-> Str("id"),
                      location |-> Str(seen[m].location),
                      subject |-> IF seen[m].fits THEN Str("invoice") ELSE None,
                      to |-> List(<<Str("alice")>>)]
    <3>1. State(m) = [map |-> F]
      BY DEF State, Map
    <3>2. "location" \in DOMAIN F /\ F["location"] = Str(seen[m].location)
      OBVIOUS
    <3>. HIDE DEF F
    <3>3. DOMAIN State(m) = {"map"} /\ State(m).map = F
      BY <3>1
    <3>. QED  BY <3>2, <3>3 DEF Is
  <2>. QED  BY <2>1, ChildOfMap
<1>5. Str(seen[m].location) # Missing /\ Str(seen[m].location) # None
  <2>. DEFINE s == seen[m].location
  <2>1. /\ DOMAIN [str |-> s] = {"str"}
        /\ DOMAIN None = {"none"} /\ DOMAIN Missing = {"missing"}
    BY DEF None, Missing
  <2>. HIDE DEF s
  <2>2. "str" # "none" /\ "str" # "missing"
    OBVIOUS
  <2>. QED  BY <2>1, <2>2 DEF Str
<1>6. Evaluate(State(m), p) = Apply(Str(seen[m].location), p)
  BY <1>2, <1>3, <1>4, <1>5 DEF Evaluate
<1>. QED  BY <1>5, <1>6 DEF Apply, Status

-----------------------------------------------------------------------------
(* The invariant.                                                          *)

\* The inductive invariant: the run's, and that a count of candidates is one.
GmInv == Inv /\ IsFiniteSet(candidates)

\* The query's whole second is never after the boundary.
LEMMA WholeSecond ==
  ASSUME NEW b \in Nat
  PROVE  (b \div Tick) * Tick \in Nat /\ (b \div Tick) * Tick <= b
<1>1. PICK d \in Nat : d = Tick /\ d # 0
  BY MailAssumption
<1>2. PICK q \in Nat : q = b \div d
  BY <1>1
<1>3. b = d * q + (b % d) /\ b % d \in 0..(d - 1)
  BY <1>1, <1>2
<1>. QED  BY <1>1, <1>2, <1>3

\* The boundary is a time.
LEMMA BoundaryIsTime ==
  ASSUME selector \in Selectors
  PROVE  Boundary \in Nat
<1>1. Start \in Nat /\ Earlier \in Nat
  BY MailAssumption
<1>2. selector.createdAfter \in {Absent, Earlier}
  BY DEF Selectors
<1>. QED  BY <1>1, <1>2 DEF Boundary

\* What is in the mailbox is a mail.
LEMMA PresentIsMail ==
  ASSUME TypeOK, NEW m \in Present
  PROVE  mailbox[m] \in Mails /\ mailbox[m].time \in Nat
<1>1. mailbox[m] \in Mails
  BY DEF TypeOK, Present
<1>. QED  BY <1>1, MailAssumption DEF Mail

\* The query finds whatever fits.
LEMMA RightIsListed ==
  ASSUME TypeOK, Searches, NEW m \in Messages, Right(m)
  PROVE  Matches(m)
<1>1. m \in Present /\ mailbox[m].time >= Boundary
  BY DEF Right, IsCandidate
<1>2. selector \in Selectors
  BY DEF TypeOK
<1>3. PICK b \in Nat : b = Boundary
  BY <1>2, BoundaryIsTime
<1>4. PICK c \in Nat : c = (b \div Tick) * Tick /\ c <= b
  BY WholeSecond
<1>5. PICK t \in Nat : t = mailbox[m].time
  BY <1>1, PresentIsMail
<1>6. t >= c
  BY <1>1, <1>3, <1>4, <1>5
<1>. QED  BY <1>1, <1>3, <1>4, <1>5, <1>6 DEF Matches

\* The search and its boundary depend on the selector, which does not change.
LEMMA SameSearch ==
  ASSUME UNCHANGED selector
  PROVE  Searches' = Searches /\ Boundary' = Boundary
BY DEF Searches, Boundary, IsDiscovery

\* What fits depends on the mailbox and the selector only.
LEMMA SameRight ==
  ASSUME UNCHANGED <<mail, selector>>
  PROVE  Present' = Present /\ \A m \in Messages : Right(m)' = Right(m)
<1>1. UNCHANGED <<mailbox, selector>>
  BY DEF mail
<1>. QED  BY <1>1, SameSearch DEF Right, IsCandidate, Present

\* At first nothing is taken and nothing has been asked.
LEMMA InitGmInv == Init => GmInv
<1>. SUFFICES ASSUME Init PROVE GmInv
  OBVIOUS
<1>2. TypeOK
  <2>1. /\ 0 \in 0..MaxChanges /\ 0 \in 0..MaxFaults /\ 1 \in 1..Attempts
    BY AttemptsAssumption, MailAssumption
  <2>. QED  BY <2>1 DEF Init, TypeOK
<1>3. MessagesOK
  BY DEF Init, MessagesOK, Present
<1>4. OutcomeOK
  BY DEF Init, OutcomeOK
<1>5. CallsOK
  BY DEF Init, CallsOK
<1>6. IsFiniteSet(candidates)
  BY FS_EmptySet DEF Init
<1>. QED  BY <1>2, <1>3, <1>4, <1>5, <1>6 DEF GmInv, Inv

\* A new message was not there before, and so is nothing taken or steady.
LEMMA ArriveStep ==
  ASSUME GmInv, NEW m \in Messages, NEW new \in Mails, Arrive(m, new)
  PROVE  GmInv'
<1>1. /\ TypeOK /\ MessagesOK /\ OutcomeOK /\ CallsOK
      /\ IsFiniteSet(candidates)
  BY DEF GmInv, Inv
<1>2. /\ seen[m] = Absent /\ m \notin Present
      /\ mailbox' = [mailbox EXCEPT ![m] = new] /\ seen' = [seen EXCEPT ![m] = new]
      /\ mailbox \in [Messages -> {Absent} \cup Mails]
      /\ seen \in [Messages -> {Absent} \cup Mails]
      /\ UNCHANGED <<selector, pc, refs, candidates, outcome, steady, whole, skipped>>
      /\ UNCHANGED <<attempt, faults, hard>>
  BY <1>1 DEF Arrive, history, calls, TypeOK, MessagesOK, Present
<1>3. \A x \in Messages \ {m} : mailbox'[x] = mailbox[x] /\ seen'[x] = seen[x]
  BY <1>2
<1>4. mailbox'[m] = seen'[m]
  BY <1>2
<1>5. TypeOK'
  <2>1. changes' \in 0..MaxChanges
    BY <1>1, MailAssumption DEF Arrive, TypeOK
  <2>. QED  BY <1>1, <1>2, <2>1 DEF TypeOK
<1>6. MessagesOK'
  <2>1. \A x \in Present' : seen'[x] = mailbox'[x]
    BY <1>1, <1>3, <1>4 DEF MessagesOK, Present
  <2>2. \A x \in candidates' : x \in Messages \ {m}
    BY <1>1, <1>2 DEF MessagesOK, TypeOK
  <2>3. \A x \in steady : x \in Messages \ {m} /\ Right(x)
    BY <1>1, <1>2 DEF MessagesOK, Right
  <2>4. \A x \in Messages \ {m} : Right(x) => Right(x)'
    BY <1>2, <1>3, SameSearch DEF Right, IsCandidate, Present
  <2>. QED  BY <1>1, <1>2, <1>3, <2>1, <2>2, <2>3, <2>4, SameSearch DEF MessagesOK
<1>7. OutcomeOK'
  BY <1>1, <1>2, SameSearch DEF OutcomeOK
<1>8. CallsOK'
  BY <1>1, <1>2 DEF CallsOK
<1>. QED  BY <1>1, <1>2, <1>5, <1>6, <1>7, <1>8 DEF GmInv, Inv

\* What is deleted is not steady any more; what was there of it is known.
LEMMA DeleteStep ==
  ASSUME GmInv, NEW m \in Messages, Delete(m)
  PROVE  GmInv'
<1>1. /\ TypeOK /\ MessagesOK /\ OutcomeOK /\ CallsOK
      /\ IsFiniteSet(candidates)
  BY DEF GmInv, Inv
<1>2. /\ mailbox' = [mailbox EXCEPT ![m] = Absent]
      /\ mailbox \in [Messages -> {Absent} \cup Mails]
      /\ steady' = steady \ {m}
      /\ UNCHANGED <<seen, selector, pc, refs, candidates, outcome, whole, skipped>>
      /\ UNCHANGED <<attempt, faults, hard>>
  BY <1>1 DEF Delete, history, calls, TypeOK
<1>3. \A x \in Messages \ {m} : mailbox'[x] = mailbox[x]
  BY <1>2
<1>4. Present' = Present \ {m}
  BY <1>2, <1>3 DEF Present
<1>5. TypeOK'
  <2>1. changes' \in 0..MaxChanges
    BY <1>1, MailAssumption DEF Delete, TypeOK
  <2>. QED  BY <1>1, <1>2, <2>1 DEF TypeOK
<1>6. MessagesOK'
  <2>1. \A x \in Present' : seen'[x] = mailbox'[x]
    BY <1>1, <1>2, <1>3, <1>4 DEF MessagesOK, Present
  <2>2. \A x \in steady' : x \in Messages \ {m} /\ Right(x)
    BY <1>1, <1>2 DEF MessagesOK
  <2>3. \A x \in Messages \ {m} : Right(x) => Right(x)'
    BY <1>2, <1>3, <1>4, SameSearch DEF Right, IsCandidate
  <2>. QED  BY <1>1, <1>2, <2>1, <2>2, <2>3, SameSearch DEF MessagesOK
<1>7. OutcomeOK'
  BY <1>1, <1>2, SameSearch DEF OutcomeOK
<1>8. CallsOK'
  BY <1>1, <1>2 DEF CallsOK
<1>. QED  BY <1>1, <1>2, <1>5, <1>6, <1>7, <1>8 DEF GmInv, Inv

\* A step that leaves the mailbox, the selector and what is steady keeps the
\* messages in order, when it takes only what fits and drops nothing.
LEMMA MessagesStay ==
  ASSUME MessagesOK, UNCHANGED <<mail, selector, steady>>,
         \A x \in candidates' \ candidates :
           /\ seen[x] # Absent
           /\ IF Searches THEN seen[x].time >= Boundary /\ seen[x].fits
                          ELSE x = selector.messageId,
         whole' => steady \subseteq refs' \cup candidates' \cup skipped'
  PROVE  MessagesOK'
<1>1. UNCHANGED <<mailbox, seen, selector, steady>>
  BY DEF mail
<1>2. /\ Present' = Present /\ Searches' = Searches /\ Boundary' = Boundary
      /\ \A m \in Messages : Right(m)' = Right(m)
  BY <1>1, SameSearch, SameRight DEF mail
<1>. QED  BY <1>1, <1>2 DEF MessagesOK

\* The observation begins with all that fits.
LEMMA BeginStep ==
  ASSUME GmInv, Begin
  PROVE  GmInv'
<1>1. /\ TypeOK /\ MessagesOK /\ OutcomeOK /\ CallsOK
      /\ IsFiniteSet(candidates)
  BY DEF GmInv, Inv
<1>2. /\ pc = "idle" /\ outcome = "pending" /\ refs = {} /\ candidates = {}
      /\ skipped = {} /\ ~whole
      /\ UNCHANGED <<mail, selector>>
      /\ UNCHANGED <<mailbox, changes, seen, refs, candidates, whole, skipped>>
      /\ UNCHANGED <<attempt, faults, hard>>
      /\ steady = {} /\ steady' = {m \in Messages : Right(m)}
  BY <1>1 DEF Begin, mail, history, calls, OutcomeOK
<1>3. \/ selector.connected /\ outcome' = "pending" /\ pc' = "list" /\ Searches
      \/ selector.connected /\ outcome' = "pending" /\ pc' = "byId" /\ ~Searches
      \/ ~selector.connected /\ outcome' = "unknown" /\ pc' = "done"
  BY DEF Begin
<1>4. TypeOK'
  <2>1. steady' \subseteq Messages /\ pc' \in {"list", "byId", "done"}
    BY <1>2, <1>3
  <2>2. outcome' \in {"pending", "unknown"}
    BY <1>3
  <2>. QED  BY <1>1, <1>2, <2>1, <2>2 DEF TypeOK
<1>5. MessagesOK'
  <2>1. /\ Present' = Present /\ Searches' = Searches /\ Boundary' = Boundary
        /\ \A m \in Messages : Right(m)' = Right(m)
    BY <1>2, SameSearch, SameRight
  <2>. QED  BY <1>1, <1>2, <2>1 DEF MessagesOK
<1>6. OutcomeOK'
  BY <1>2, <1>3, SameSearch DEF OutcomeOK
<1>7. CallsOK'
  BY <1>1, <1>2, <1>3 DEF CallsOK
<1>. QED  BY <1>1, <1>2, <1>4, <1>5, <1>6, <1>7 DEF GmInv, Inv

\* An attempt that leaves neither a lasting fault nor faults for every attempt
\* is answered with what the server has, or is repeated.
LEMMA AttemptCounts ==
  ASSUME TypeOK, CallsOK, NEW answer \in Answers, Attempt(answer)
  PROVE  /\ faults' \in 0..MaxFaults /\ attempt' \in 1..Attempts /\ hard' \in BOOLEAN
         /\ attempt' <= faults' + 1
         /\ ~hard' /\ faults' < Attempts =>
              /\ ~hard /\ faults < Attempts
              /\ Returns(answer) => answer \in {"ok", "missing"}
<1>1. /\ faults \in Nat /\ faults <= MaxFaults /\ MaxFaults \in Nat
      /\ attempt \in Nat /\ 1 <= attempt /\ attempt <= Attempts /\ Attempts \in Nat
      /\ attempt <= faults + 1 /\ hard \in BOOLEAN
  BY AttemptsAssumption DEF TypeOK, CallsOK
<1>2. hard' = (hard \/ answer \in {"denied", "broken"})
  BY DEF Attempt
<1>3. CASE answer \in Transient
  <2>1. faults < MaxFaults /\ faults' = faults + 1
    BY <1>3 DEF Attempt
  <2>2. CASE attempt = Attempts
    <3>1. attempt' = 1
      BY <2>2 DEF Attempt, Returns
    <3>2. ~(faults' < Attempts)
      BY <1>1, <2>1, <2>2
    <3>3. /\ faults' \in 0..MaxFaults /\ attempt' \in 1..Attempts
          /\ attempt' <= faults' + 1
      BY <1>1, <2>1, <3>1
    <3>. QED  BY <1>1, <1>2, <3>2, <3>3
  <2>3. CASE attempt # Attempts
    <3>1. attempt' = attempt + 1 /\ ~Returns(answer)
      BY <1>3, <2>3 DEF Attempt, Returns
    <3>2. /\ faults' \in 0..MaxFaults /\ attempt' \in 1..Attempts
          /\ attempt' <= faults' + 1 /\ (faults' < Attempts => faults < Attempts)
      BY <1>1, <2>1, <2>3, <3>1
    <3>. QED  BY <1>1, <1>2, <3>1, <3>2
  <2>. QED  BY <2>2, <2>3
<1>4. CASE answer \notin Transient
  <2>1. faults' = faults /\ attempt' = 1 /\ Returns(answer)
    BY <1>4 DEF Attempt, Returns
  <2>2. answer \in {"ok", "missing", "denied", "broken"}
    BY <1>4 DEF Answers
  <2>3. /\ faults' \in 0..MaxFaults /\ attempt' \in 1..Attempts
        /\ attempt' <= faults' + 1
    BY <1>1, <2>1
  <2>. QED  BY <1>1, <1>2, <2>1, <2>2, <2>3
<1>. QED  BY <1>3, <1>4

\* A retry changes nothing but the calls.
LEMMA RetryStep ==
  ASSUME GmInv, NEW answer \in Answers, Attempt(answer), Retry(answer),
         UNCHANGED <<mail, selector, steady>>
  PROVE  GmInv'
<1>1. /\ TypeOK /\ MessagesOK /\ OutcomeOK /\ CallsOK
      /\ IsFiniteSet(candidates)
  BY DEF GmInv, Inv
<1>2. /\ UNCHANGED <<mailbox, changes, seen, selector, steady>>
      /\ UNCHANGED <<pc, refs, candidates, outcome, whole, skipped>>
  BY DEF Retry, history, mail
<1>3. TypeOK'
  BY <1>1, <1>2, AttemptCounts DEF TypeOK
<1>4. MessagesOK'
  BY <1>1, <1>2, MessagesStay DEF MessagesOK
<1>5. OutcomeOK'
  BY <1>1, <1>2, SameSearch DEF OutcomeOK
<1>6. CallsOK'
  BY <1>1, <1>2, AttemptCounts DEF CallsOK
<1>. QED  BY <1>1, <1>2, <1>3, <1>4, <1>5, <1>6 DEF GmInv, Inv

\* A read by id ends with the message, with its absence, or open.
LEMMA FetchMessageStep ==
  ASSUME GmInv, NEW answer \in Answers, FetchMessage(answer)
  PROVE  GmInv'
<1>1. /\ TypeOK /\ MessagesOK /\ OutcomeOK /\ CallsOK
      /\ IsFiniteSet(candidates)
  BY DEF GmInv, Inv
<1>2. /\ pc = "byId" /\ ~Searches /\ Reply(selector.messageId, answer) /\ Attempt(answer)
      /\ UNCHANGED <<mail, selector, steady>>
  BY <1>1 DEF FetchMessage, OutcomeOK
<1>3. CASE Retry(answer)
  BY <1>2, <1>3, RetryStep
<1>4. CASE ~Retry(answer)
  <2>1. /\ Returns(answer)
        /\ Finish(CASE answer = "ok" -> "found" [] answer = "missing" -> "none"
                    [] OTHER -> "unknown")
        /\ candidates' = IF answer = "ok" THEN {selector.messageId} ELSE {}
        /\ UNCHANGED <<mailbox, changes, seen, selector, steady>>
        /\ UNCHANGED <<refs, whole, skipped>>
    BY <1>2, <1>4 DEF FetchMessage, history, mail
  <2>2. /\ refs = {} /\ candidates = {} /\ skipped = {} /\ ~whole
        /\ selector.messageId \in Messages
    BY <1>1, <1>2 DEF OutcomeOK, Searches
  <2>3. /\ pc' = "done"
        /\ answer = "ok" => outcome' = "found" /\ candidates' = {selector.messageId}
        /\ answer = "missing" => outcome' = "none" /\ candidates' = {}
        /\ answer \notin {"ok", "missing"} => outcome' = "unknown" /\ candidates' = {}
    BY <2>1 DEF Finish
  <2>4. answer = "ok" => selector.messageId \in Present
    BY <1>2 DEF Reply
  <2>5. answer = "missing" => selector.messageId \notin Present
    BY <1>2 DEF Reply
  <2>6. steady \subseteq {selector.messageId} /\ steady \subseteq Present
    BY <1>1, <1>2 DEF MessagesOK, Right
  <2>7. TypeOK'
    <3>1. outcome' \in {"found", "none", "unknown"} /\ candidates' \subseteq Messages
      BY <2>2, <2>3
    <3>. QED  BY <1>1, <1>2, <2>1, <2>3, <3>1, AttemptCounts DEF TypeOK
  <2>8. MessagesOK'
    <3>1. \A x \in candidates' : x = selector.messageId /\ seen[x] # Absent
      <4>1. \A x \in candidates' : x = selector.messageId /\ x \in Present
        BY <2>3, <2>4
      <4>. QED  BY <1>1, <4>1 DEF MessagesOK, Present
    <3>. QED  BY <1>1, <1>2, <2>1, <2>2, <3>1, MessagesStay
  <2>9. OutcomeOK'
    <3>1. Searches' = Searches
      BY <1>2, SameSearch
    <3>. QED  BY <1>2, <2>1, <2>2, <2>3, <2>5, <2>6, <3>1 DEF OutcomeOK
  <2>10. CallsOK'
    <3>1. answer \in {"ok", "missing"} => outcome' # "unknown"
      BY <2>3
    <3>. QED  BY <1>1, <1>2, <2>1, <2>2, <3>1, AttemptCounts DEF CallsOK
  <2>11. IsFiniteSet(candidates')
    BY <2>1, FS_EmptySet, FS_Singleton
  <2>. QED  BY <2>7, <2>8, <2>9, <2>10, <2>11 DEF GmInv, Inv
<1>. QED  BY <1>3, <1>4

\* A list ends with nothing, with ids to fetch, or open.
LEMMA ListMessagesStep ==
  ASSUME GmInv, NEW answer \in Answers, ListMessages(answer)
  PROVE  GmInv'
<1>1. /\ TypeOK /\ MessagesOK /\ OutcomeOK /\ CallsOK
      /\ IsFiniteSet(candidates)
  BY DEF GmInv, Inv
<1>2. /\ pc = "list" /\ Searches /\ answer # "missing" /\ Attempt(answer)
      /\ UNCHANGED <<mail, selector, steady>>
      /\ UNCHANGED <<mailbox, changes, seen>>
      /\ refs = {} /\ candidates = {} /\ skipped = {} /\ ~whole /\ outcome = "pending"
  BY <1>1 DEF ListMessages, OutcomeOK, mail
<1>3. CASE Retry(answer)
  BY <1>2, <1>3, RetryStep
<1>4. CASE Returns(answer) /\ answer # "ok" /\ Finish("unknown")
           /\ UNCHANGED <<refs, candidates, history>>
  <2>1. /\ pc' = "done" /\ outcome' = "unknown"
        /\ UNCHANGED <<refs, candidates, whole, skipped>>
    BY <1>4 DEF Finish, history
  <2>2. TypeOK'
    BY <1>1, <1>2, <2>1, AttemptCounts DEF TypeOK
  <2>3. MessagesOK'
    BY <1>1, <1>2, <2>1, MessagesStay
  <2>4. OutcomeOK'
    BY <1>2, <2>1 DEF OutcomeOK
  <2>5. CallsOK'
    BY <1>1, <1>2, <1>4, <2>1, AttemptCounts DEF CallsOK
  <2>. QED  BY <1>1, <2>1, <2>2, <2>3, <2>4, <2>5 DEF GmInv, Inv
<1>5. ASSUME answer = "ok", NEW ids \in SUBSET {m \in Messages : Matches(m)},
             refs' = ids, whole' = (ids = {m \in Messages : Matches(m)}),
             IF ids = {} THEN Finish("none") ELSE pc' = "fetch" /\ UNCHANGED outcome,
             UNCHANGED <<candidates, skipped>>
      PROVE  GmInv'
  <2>1. \/ ids = {} /\ pc' = "done" /\ outcome' = "none"
        \/ ids # {} /\ pc' = "fetch" /\ outcome' = "pending"
    BY <1>2, <1>5 DEF Finish
  <2>2. whole' => steady \subseteq ids
    <3>1. \A m \in steady : m \in Messages /\ Right(m)
      BY <1>1 DEF MessagesOK
    <3>2. \A m \in steady : Matches(m)
      BY <1>1, <1>2, <3>1, RightIsListed
    <3>. QED  BY <1>5, <3>1, <3>2
  <2>3. TypeOK'
    <3>1. pc' \in {"done", "fetch"} /\ outcome' \in {"none", "pending"}
      BY <2>1
    <3>2. ids \subseteq Messages /\ whole' \in BOOLEAN
      BY <1>5
    <3>. QED  BY <1>1, <1>2, <1>5, <3>1, <3>2, AttemptCounts DEF TypeOK
  <2>4. MessagesOK'
    BY <1>1, <1>2, <1>5, <2>2, MessagesStay
  <2>5. OutcomeOK'
    <3>1. Searches' = Searches
      BY <1>2, SameSearch
    <3>2. refs' = ids /\ candidates' = {} /\ steady' = steady
      BY <1>2, <1>5
    <3>. QED  BY <1>2, <2>1, <3>1, <3>2 DEF OutcomeOK
  <2>6. CallsOK'
    <3>1. outcome' # "unknown" /\ skipped' = {}
      BY <1>2, <1>5, <2>1
    <3>. QED  BY <1>1, <1>2, <3>1, AttemptCounts DEF CallsOK
  <2>. QED  BY <1>1, <1>5, <2>3, <2>4, <2>5, <2>6 DEF GmInv, Inv
<1>. QED  BY <1>3, <1>4, <1>5 DEF ListMessages

\* A fetch adds the message that fits or skips it; the last one decides.
LEMMA DetailStep ==
  ASSUME GmInv, NEW answer \in Answers, NEW m \in refs, m \in Messages, pc = "fetch",
         Reply(m, answer), Attempt(answer), Returns(answer), Detail(m, answer),
         UNCHANGED <<whole, mail, selector, steady>>
  PROVE  GmInv'
<1>1. /\ TypeOK /\ MessagesOK /\ OutcomeOK /\ CallsOK
      /\ IsFiniteSet(candidates)
  BY DEF GmInv, Inv
<1>2. /\ Searches /\ Searches' = Searches /\ outcome = "pending"
      /\ UNCHANGED <<mailbox, changes, seen>>
  BY <1>1, SameSearch DEF OutcomeOK, mail
<1>3. CASE answer \in Raised
  <2>1. /\ pc' = "done" /\ outcome' = "unknown"
        /\ UNCHANGED <<refs, candidates, skipped>>
    BY <1>3 DEF Detail, Finish
  <2>2. TypeOK'
    BY <1>1, <1>2, <2>1, AttemptCounts DEF TypeOK
  <2>3. MessagesOK'
    <3>1. whole' => steady \subseteq refs' \cup candidates' \cup skipped'
      BY <1>1, <2>1 DEF MessagesOK
    <3>. QED  BY <1>1, <2>1, <3>1, MessagesStay
  <2>4. OutcomeOK'
    BY <1>2, <2>1 DEF OutcomeOK
  <2>5. CallsOK'
    <3>1. answer \notin {"ok", "missing"}
      BY <1>3 DEF Raised
    <3>. QED  BY <1>1, <2>1, <3>1, AttemptCounts DEF CallsOK
  <2>. QED  BY <1>1, <2>1, <2>2, <2>3, <2>4, <2>5 DEF GmInv, Inv
<1>4. CASE answer \notin Raised
  <2>. DEFINE new == {x \in {m} : answer = "ok" /\ IsCandidate(x)}
              lost == {x \in {m} : answer # "ok"}
  <2>1. /\ candidates' = candidates \cup new
        /\ refs' = refs \ {m}
        /\ skipped' = skipped \cup lost
        /\ \/ refs' = {} /\ pc' = "done" /\ outcome' = Count(candidates')
           \/ refs # {m} /\ pc' = "fetch" /\ outcome' = "pending"
    BY <1>2, <1>4 DEF Detail, Finish
  <2>2. new \subseteq {m} /\ lost \subseteq {m} /\ IsFiniteSet(new)
    <3>1. new = {} \/ new = {m}
      OBVIOUS
    <3>. QED  BY <3>1, FS_EmptySet, FS_Singleton
  <2>3. m \in new => m \in Present /\ IsCandidate(m)
    BY DEF Reply
  <2>4. m \in steady => m \in new \/ answer \notin {"ok", "missing"}
    <3>1. m \in steady => m \in Present /\ IsCandidate(m)
      BY <1>1, <1>2 DEF MessagesOK, Right
    <3>. QED  BY <3>1 DEF Reply
  <2>5. m \in new \/ m \in lost \/ ~(m \in steady)
    BY <2>4
  <2>6. IsFiniteSet(candidates')
    BY <1>1, <2>1, <2>2, FS_Union
  <2>7. /\ Count(candidates') \in {"none", "found", "several"}
        /\ Count(candidates') = "none" => candidates' = {}
        /\ Count(candidates') = "found" => \E x \in candidates' : candidates' = {x}
    <3>1. Cardinality(candidates') = 1 => \E x : candidates' = {x}
      BY <2>6, FS_Singleton
    <3>. QED  BY <3>1 DEF Count
  <2>. HIDE DEF new
  <2>8. candidates' \subseteq Messages /\ skipped' \subseteq Messages /\ refs' \subseteq Messages
    BY <1>1, <2>1, <2>2 DEF TypeOK
  <2>9. TypeOK'
    <3>1. /\ pc' \in {"fetch", "done"}
          /\ outcome' \in {"pending", "none", "found", "several"}
      BY <2>1, <2>7
    <3>. QED  BY <1>1, <1>2, <2>8, <3>1, AttemptCounts DEF TypeOK
  <2>10. MessagesOK'
    <3>1. \A x \in candidates' \ candidates : seen[x] # Absent /\ seen[x].time >= Boundary
                                                /\ seen[x].fits
      <4>1. SUFFICES ASSUME m \in new
                     PROVE  seen[m] # Absent /\ seen[m].time >= Boundary /\ seen[m].fits
        BY <2>1, <2>2
      <4>2. m \in Present /\ IsCandidate(m) /\ seen[m] = mailbox[m]
        BY <1>1, <2>3, <4>1 DEF MessagesOK
      <4>. QED  BY <4>2 DEF IsCandidate, Present
    <3>2. whole' => steady \subseteq refs' \cup candidates' \cup skipped'
      BY <1>1, <2>1, <2>5 DEF MessagesOK
    <3>. QED  BY <1>1, <1>2, <3>1, <3>2, MessagesStay
  <2>11. OutcomeOK'
    <3>1. CASE refs' = {} /\ pc' = "done" /\ outcome' = Count(candidates')
      <4>1. outcome' = "found" => \E x \in Messages : candidates' = {x}
        BY <2>7, <2>8, <3>1
      <4>2. outcome' # "pending"
        BY <2>7, <3>1
      <4>. QED  BY <1>2, <2>7, <3>1, <4>1, <4>2 DEF OutcomeOK
    <3>2. CASE pc' = "fetch" /\ outcome' = "pending"
      BY <1>2, <3>2 DEF OutcomeOK
    <3>. QED  BY <2>1, <3>1, <3>2
  <2>12. CallsOK'
    <3>1. outcome' # "unknown"
      BY <2>1, <2>7
    <3>2. answer \in {"ok", "missing"} => lost \cap steady = {}
      <4>1. m \in new => answer = "ok"
        BY DEF new
      <4>. QED  BY <2>4, <4>1
    <3>3. skipped' \cap steady' = (skipped \cap steady) \cup (lost \cap steady)
      BY <2>1
    <3>. HIDE DEF lost
    <3>. QED  BY <1>1, <3>1, <3>2, <3>3, AttemptCounts DEF CallsOK
  <2>. QED  BY <2>6, <2>9, <2>10, <2>11, <2>12 DEF GmInv, Inv
<1>. QED  BY <1>3, <1>4

\* One detail request, retried or ended.
LEMMA FetchDetailStep ==
  ASSUME GmInv, NEW answer \in Answers, NEW m \in Messages, FetchDetail(m, answer)
  PROVE  GmInv'
<1>1. /\ pc = "fetch" /\ m \in refs /\ Reply(m, answer) /\ Attempt(answer)
      /\ UNCHANGED <<mail, selector, steady>>
      /\ Retry(answer) \/ (Returns(answer) /\ Detail(m, answer) /\ UNCHANGED whole)
  BY DEF FetchDetail
<1>. QED  BY <1>1, RetryStep, DetailStep

\* The timeout leaves everything but the outcome as it is.
LEMMA CutStep ==
  ASSUME GmInv, Cut
  PROVE  GmInv'
<1>1. /\ TypeOK /\ MessagesOK /\ OutcomeOK /\ CallsOK
      /\ IsFiniteSet(candidates)
  BY DEF GmInv, Inv
<1>2. /\ pc # "idle" /\ pc' = "done" /\ outcome' = "cut"
      /\ UNCHANGED <<mail, selector, steady>>
      /\ UNCHANGED <<mailbox, changes, seen, refs, candidates, whole, skipped>>
      /\ UNCHANGED <<attempt, faults, hard>>
  BY DEF Cut, Finish, mail, history, calls
<1>3. TypeOK'
  BY <1>1, <1>2 DEF TypeOK
<1>4. MessagesOK'
  <2>1. whole' => steady \subseteq refs' \cup candidates' \cup skipped'
    BY <1>1, <1>2 DEF MessagesOK
  <2>. QED  BY <1>1, <1>2, <2>1, MessagesStay
<1>5. OutcomeOK'
  BY <1>2 DEF OutcomeOK
<1>6. CallsOK'
  BY <1>1, <1>2 DEF CallsOK
<1>. QED  BY <1>1, <1>2, <1>3, <1>4, <1>5, <1>6 DEF GmInv, Inv

\* Every step keeps the invariant.
LEMMA GmStep == GmInv /\ [Next]_vars => GmInv'
<1>. SUFFICES ASSUME GmInv, [Next]_vars PROVE GmInv'
  OBVIOUS
<1>1. CASE UNCHANGED vars
  <2>1. /\ UNCHANGED <<mail, selector>>
        /\ UNCHANGED <<mailbox, changes, seen, selector, pc, refs, candidates, outcome>>
        /\ UNCHANGED <<steady, whole, skipped, attempt, faults, hard>>
    BY <1>1 DEF vars, mail, calls
  <2>2. /\ Searches' = Searches /\ Boundary' = Boundary /\ Present' = Present
        /\ \A m \in Messages : Right(m)' = Right(m)
    BY <2>1, SameSearch, SameRight
  <2>. QED  BY <2>1, <2>2 DEF GmInv, Inv, TypeOK, MessagesOK, OutcomeOK, CallsOK
<1>. QED
  BY <1>1, ArriveStep, DeleteStep, BeginStep, FetchMessageStep, ListMessagesStep,
     FetchDetailStep, CutStep DEF Next

-----------------------------------------------------------------------------
(* The theorems.                                                           *)

\* The invariant of an observation: what is taken, what is still to fetch, what
\* is said and what it cost agree, whatever the mailbox and the server do.
THEOREM ObservationInvariance == Spec => []GmInv
<1>1. GmInv /\ [Next]_vars => GmInv'
  BY GmStep
<1>. QED  BY InitGmInv, <1>1, PTL DEF Spec

\* The run's invariant: types, messages, outcome and calls of every point of an
\* observation.
THEOREM ObservationsAgree == Spec => []Inv
<1>1. GmInv => Inv
  BY DEF GmInv
<1>. QED  BY <1>1, ObservationInvariance, PTL

\* A request is given up only after a fault no retry helps against, or after as
\* many transient faults as attempts; what the engine's timeout cuts is not given
\* up but cut.
THEOREM GivingUpHasCause == Spec => []GivenUpHasCause
<1>1. ASSUME GmInv, Done
      PROVE  /\ outcome = "unknown" => ~selector.connected \/ hard \/ faults >= Attempts
             /\ skipped \cap steady # {} => hard \/ faults >= Attempts
  <2>1. faults \in Nat /\ Attempts \in Nat
    BY <1>1, AttemptsAssumption DEF GmInv, Inv, TypeOK
  <2>2. CASE hard \/ ~(faults < Attempts)
    BY <2>1, <2>2
  <2>3. CASE ~hard /\ faults < Attempts
    BY <1>1, <2>3 DEF GmInv, Inv, CallsOK
  <2>. QED  BY <2>2, <2>3
<1>2. GmInv => GivenUpHasCause
  BY <1>1 DEF GivenUpHasCause
<1>. QED  BY <1>2, ObservationInvariance, PTL

\* An absence that passes means that nothing fitted all along, and what is used
\* is the only message that did, whatever arrived or was deleted meanwhile.
THEOREM NothingIsMissed == Spec => []NothingMissed
<1>1. ASSUME GmInv, Done, Searches => whole, skipped \cap steady = {}
      PROVE  /\ outcome = "found" => steady \subseteq {Used}
             /\ \A p \in Conditions :
                  p.op = "not_exists" /\ p.path = <<"location">> /\ StatusOf(p) = "PASS" =>
                    steady = {}
  <2>1. TypeOK /\ MessagesOK /\ OutcomeOK
    BY <1>1 DEF GmInv, Inv
  <2>2. ASSUME outcome \in {"none", "found"}, Searches
        PROVE  steady \subseteq candidates
    BY <1>1, <2>1, <2>2 DEF MessagesOK, OutcomeOK
  <2>3. ASSUME outcome = "found"
        PROVE  steady \subseteq {Used}
    <3>1. PICK m \in Messages : candidates = {m}
      BY <2>1, <2>3 DEF OutcomeOK
    <3>2. Used = m
      BY <3>1 DEF Used
    <3>3. CASE Searches
      BY <2>2, <2>3, <3>1, <3>2, <3>3
    <3>4. CASE ~Searches
      BY <2>1, <3>1, <3>2, <3>4 DEF MessagesOK, Right
    <3>. QED  BY <3>3, <3>4
  <2>4. ASSUME outcome = "none"
        PROVE  steady = {}
    <3>1. candidates = {} /\ (~Searches => steady = {})
      BY <2>1, <2>4 DEF OutcomeOK
    <3>. QED  BY <2>2, <2>4, <3>1
  <2>5. ASSUME NEW p \in Conditions, p.op = "not_exists", p.path = <<"location">>,
               StatusOf(p) = "PASS"
        PROVE  steady = {}
    <3>1. outcome # "found"
      <4>1. Evaluate(State(Used), p) # "PASS"
        BY <2>5, PlaceIsThere
      <4>. QED  BY <2>5, <4>1 DEF StatusOf
    <3>2. outcome \notin {"unknown", "cut", "several"}
      BY <2>5 DEF StatusOf
    <3>3. outcome \in {"unknown", "cut", "none", "several", "found"}
      BY <1>1, <2>1 DEF TypeOK, OutcomeOK, Done
    <3>. QED  BY <2>4, <3>1, <3>2, <3>3
  <2>. QED  BY <2>3, <2>5
<1>2. GmInv => NothingMissed
  BY <1>1 DEF NothingMissed
<1>. QED  BY <1>2, ObservationInvariance, PTL

\* A condition passes on a message, on the named one or on one that fits and is
\* not older than the contract; and where none is found, exactly what asks for
\* nothing passes.
THEOREM PassesAreGrounded == Spec => []PassIsGrounded
<1>1. ASSUME GmInv, Done, NEW p \in Conditions, outcome # "none", StatusOf(p) = "PASS"
      PROVE  \E m \in Messages :
               /\ seen[m] # Absent
               /\ Evaluate(State(m), p) = "PASS"
               /\ selector.messageId \in Messages => m = selector.messageId
               /\ IsDiscovery => seen[m].time >= Start /\ seen[m].fits
  <2>1. TypeOK /\ MessagesOK /\ OutcomeOK
    BY <1>1 DEF GmInv, Inv
  <2>2. outcome \in {"unknown", "cut", "none", "several", "found"}
    BY <1>1, <2>1 DEF TypeOK, OutcomeOK, Done
  <2>3. outcome \notin {"unknown", "cut", "several"}
    BY <1>1 DEF StatusOf
  <2>4. outcome = "found" /\ Evaluate(State(Used), p) = "PASS"
    <3>1. outcome = "found"
      BY <1>1, <2>2, <2>3
    <3>. QED  BY <1>1, <3>1 DEF StatusOf
  <2>6. PICK m \in Messages : candidates = {m}
    BY <2>1, <2>4 DEF OutcomeOK
  <2>7. Used = m /\ m \in candidates
    BY <2>6 DEF Used
  <2>8. /\ seen[m] # Absent
        /\ IF Searches THEN seen[m].time >= Boundary /\ seen[m].fits
                       ELSE m = selector.messageId
    BY <2>1, <2>7 DEF MessagesOK
  <2>9. selector.messageId \in Messages => m = selector.messageId
    BY <2>8 DEF Searches
  <2>10. IsDiscovery => Searches /\ Boundary = Start
    BY MailAssumption DEF IsDiscovery, Searches, Boundary
  <2>. QED  BY <2>4, <2>7, <2>8, <2>9, <2>10
<1>2. ASSUME NEW p \in Conditions, outcome = "none"
      PROVE  StatusOf(p) = "PASS" <=> PassesOnNothing(p)
  <2>1. StatusOf(p) = Evaluate(None, p)
    BY <1>2 DEF StatusOf
  <2>. QED  BY <2>1, NothingPasses
<1>3. GmInv => PassIsGrounded
  BY <1>1, <1>2 DEF PassIsGrounded
<1>. QED  BY <1>3, ObservationInvariance, PTL
=============================================================================
