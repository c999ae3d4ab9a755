---------------------------- MODULE GithubProofs ----------------------------
(***************************************************************************)
(* What the discovery of a GitHub resource promises, for any repository,   *)
(* page size, page limit and edits: proofs about GithubDiscovery.          *)
(***************************************************************************)
EXTENDS GithubDiscovery, FiniteSetTheorems, SequenceTheorems, WellFoundedInduction, TLAPS

(***************************************************************************)
(* Counting from the end.  Ahead(S, n) is the place of n in a listing of S *)
(* that begins with the greatest number.                                   *)
(***************************************************************************)
Ahead(S, n) == Cardinality({m \in S : m >= n})

\* A place is a natural, no more than there are numbers.
LEMMA AheadType ==
  ASSUME NEW N \in Nat, NEW S \in SUBSET (1..N), NEW n \in Int
  PROVE  /\ IsFiniteSet({m \in S : m >= n})
         /\ Ahead(S, n) \in Nat
<1>1. IsFiniteSet(1..N)
  BY FS_Interval
<1>2. {m \in S : m >= n} \in SUBSET (1..N)
  OBVIOUS
<1>3. IsFiniteSet({m \in S : m >= n})
  BY <1>1, <1>2, FS_Subset
<1>. QED
  BY <1>3, FS_CardinalityType DEF Ahead

\* A member of S takes a place, another number does not.
LEMMA AheadStep ==
  ASSUME NEW N \in Nat, NEW S \in SUBSET (1..N), NEW n \in Int
  PROVE  Ahead(S, n) = IF n \in S THEN Ahead(S, n + 1) + 1 ELSE Ahead(S, n + 1)
<1> DEFINE A == {m \in S : m >= n + 1}
<1>1. IsFiniteSet(A)
  BY AheadType, n + 1 \in Int
<1>4. \A m \in S : m \in Int
  OBVIOUS
<1>5. \A m \in S : m >= n <=> m >= n + 1 \/ m = n
  BY <1>4
<1>2. CASE n \in S
  <2>1. {m \in S : m >= n} = A \cup {n}
    BY <1>2, <1>5
  <2>2. n \notin A
    OBVIOUS
  <2> HIDE DEF A
  <2>3. Cardinality(A \cup {n}) = Cardinality(A) + 1
    BY <1>1, <2>2, FS_AddElement
  <2>4. Ahead(S, n + 1) = Cardinality(A)
    BY DEF Ahead, A
  <2>. QED
    BY <1>2, <2>1, <2>3, <2>4 DEF Ahead
<1>3. CASE n \notin S
  <2>1. {m \in S : m >= n} = A
    BY <1>3, <1>5
  <2>. QED
    BY <1>3, <2>1 DEF Ahead
<1>. QED
  BY <1>2, <1>3

\* Nothing is listed beyond the greatest number.
LEMMA AheadEnd ==
  ASSUME NEW N \in Nat, NEW S \in SUBSET (1..N)
  PROVE  Ahead(S, N + 1) = 0
<1>2. \A m \in S : m \in Int /\ ~(m >= N + 1)
  OBVIOUS
<1>1. {m \in S : m >= N + 1} = {}
  BY <1>2
<1>. QED
  BY <1>1, FS_EmptySet DEF Ahead

\* A smaller number comes later, and later still when more is listed.
LEMMA AheadGrows ==
  ASSUME NEW N \in Nat, NEW T \in SUBSET (1..N), NEW S \in SUBSET T,
         NEW m \in Int, NEW n \in Int, m <= n
  PROVE  Ahead(S, n) <= Ahead(T, m)
<1>1. IsFiniteSet({k \in T : k >= m})
  BY AheadType
<1>2. {k \in S : k >= n} \in SUBSET {k \in T : k >= m}
  <2>1. \A k \in S : k \in T /\ k \in Int
    OBVIOUS
  <2>2. \A k \in S : k >= n => k >= m
    BY <2>1
  <2>. QED  BY <2>1, <2>2
<1>. QED
  BY <1>1, <1>2, FS_Subset DEF Ahead

\* A set of naturals that is not empty has a least member.
LEMMA Least ==
  ASSUME NEW T, T \subseteq Nat, T # {}
  PROVE  \E x \in T : \A y \in T : x <= y
<1>. DEFINE R == OpToRel(<, Nat)
<1>1. IsWellFoundedOn(R, Nat)
  BY NatLessThanWellFounded
<1>2. \A x, y \in Nat : (<<y, x>> \in R) <=> (y < x)
  BY DEF OpToRel
<1>. HIDE DEF R
<1>3. PICK x \in T : \A y \in T : ~(<<y, x>> \in R)
  BY <1>1, WFMin
<1>4. ASSUME NEW y \in T  PROVE x <= y
  <2>1. x \in Nat /\ y \in Nat
    OBVIOUS
  <2>2. ~(y < x)
    BY <1>2, <1>3, <2>1
  <2>. QED  BY <2>1, <2>2
<1>. QED  BY <1>4

\* A listing has no gaps: up to the place of a number, every place is taken.
LEMMA EveryPlaceIsTaken ==
  ASSUME NEW N \in Nat, NEW S \in SUBSET (1..N), NEW n \in 1..N,
         NEW k \in Nat, k > 0, k <= Ahead(S, n)
  PROVE  \E m \in S : Ahead(S, m) = k
<1> DEFINE T == {d \in 0..N : k <= Ahead(S, N - d)}
<1>1. T # {} /\ T \subseteq Nat
  <2>1. N - n \in 0..N /\ N - (N - n) = n
    OBVIOUS
  <2>2. N - n \in T
    BY <2>1
  <2>3. \A d \in T : d \in Nat
    OBVIOUS
  <2> HIDE DEF T
  <2>. QED  BY <2>2, <2>3
<1>2. PICK d \in T : \A e \in T : d <= e
  BY <1>1, Least
<1>3. PICK m \in Int : m = N - d /\ m <= N
  OBVIOUS
<1>4. d \in 0..N /\ k <= Ahead(S, m)
  BY <1>2, <1>3
<1>5. m + 1 \in Int /\ Ahead(S, m) \in Nat /\ Ahead(S, m + 1) \in Nat
  <2>1. m + 1 \in Int
    OBVIOUS
  <2>. QED  BY <2>1, AheadType
<1>6. Ahead(S, m + 1) < k
  <2>1. CASE d = 0
    <3>1. Ahead(S, N + 1) = 0 /\ m = N
      BY <2>1, <1>3, AheadEnd
    <3>. QED  BY <3>1
  <2>2. CASE d # 0
    <3>1. d - 1 \in 0..N /\ N - (d - 1) = m + 1 /\ ~(d <= d - 1)
      BY <2>2, <1>3, <1>4
    <3>2. d - 1 \notin T
      BY <1>2, <3>1
    <3>3. ~(k <= Ahead(S, m + 1))
      BY <3>1, <3>2
    <3>. QED  BY <3>3, <1>5
  <2>. QED  BY <2>1, <2>2
<1>7. Ahead(S, m) = IF m \in S THEN Ahead(S, m + 1) + 1 ELSE Ahead(S, m + 1)
  BY AheadStep
<1>8. m \in S /\ Ahead(S, m) = k
  BY <1>4, <1>5, <1>6, <1>7
<1>. QED
  BY <1>8

\* The places from a + 1 to b hold b - a members when something comes after them.
LEMMA PlacesAreFull ==
  ASSUME NEW N \in Nat, NEW S \in SUBSET (1..N), NEW n \in 1..N,
         NEW a \in Nat, NEW b \in Nat, a <= b, b <= Ahead(S, n)
  PROVE  Cardinality({m \in S : Ahead(S, m) \in (a + 1)..b}) >= b - a
<1> DEFINE P == {m \in S : Ahead(S, m) \in (a + 1)..b}
           f == [k \in (a + 1)..b |-> CHOOSE m \in S : Ahead(S, m) = k]
<1>1. ASSUME NEW k \in (a + 1)..b
      PROVE  f[k] \in S /\ Ahead(S, f[k]) = k
  <2>1. Ahead(S, n) \in Nat
    BY AheadType, n \in Int
  <2>2. k \in Nat /\ k > 0 /\ k <= Ahead(S, n)
    BY <2>1
  <2>3. \E m \in S : Ahead(S, m) = k
    BY <2>2, EveryPlaceIsTaken
  <2>. QED  BY <2>3
<1>2. f \in [(a + 1)..b -> P]
  <2>1. f = [k \in (a + 1)..b |-> f[k]]
    OBVIOUS
  <2>2. \A k \in (a + 1)..b : f[k] \in P
    BY <1>1
  <2> HIDE DEF f, P
  <2>. QED  BY <2>1, <2>2
<1>3. \A k, l \in (a + 1)..b : f[k] = f[l] => k = l
  <2> HIDE DEF f
  <2>. QED  BY <1>1
<1>4. IsFiniteSet(P)
  <2>1. IsFiniteSet(1..N)
    BY FS_Interval
  <2>2. P \in SUBSET (1..N)
    OBVIOUS
  <2>. QED  BY <2>1, <2>2, FS_Subset
<1> HIDE DEF f, P
<1>5. f \in Injection((a + 1)..b, P)
  BY <1>2, <1>3 DEF Injection, IsInjective
<1>6. Cardinality((a + 1)..b) <= Cardinality(P)
  BY <1>4, <1>5, FS_Injection
<1>7. Cardinality((a + 1)..b) = b - a
  <2>1. PICK c \in Int : c = a + 1
    OBVIOUS
  <2>2. Cardinality(c..b) = IF c > b THEN 0 ELSE b - c + 1
    BY FS_Interval
  <2>. QED  BY <2>1, <2>2
<1>8. Cardinality(P) \in Nat
  BY <1>4, FS_CardinalityType
<1>. QED
  BY <1>6, <1>7, <1>8 DEF P

-----------------------------------------------------------------------------
(* The list endpoint.                                                      *)

\* What the list endpoint lists.
Shown == {m \in DOMAIN repo : Listed(m)}

\* The domain of a sequence.
LEMMA RepoType ==
  ASSUME repo \in Seq(Resources)
  PROVE  /\ Len(repo) \in Nat
         /\ DOMAIN repo = 1..Len(repo)
         /\ Shown \in SUBSET (1..Len(repo))
         /\ \A i \in DOMAIN repo : repo[i] \in Resources
  BY DEF Shown

\* A position is a place in the listing.
LEMMA PositionIsAhead ==
  ASSUME NEW n
  PROVE  Position(n) = Ahead(Shown, n)
<1>1. {m \in DOMAIN repo : m >= n /\ Listed(m)} = {m \in Shown : m >= n}
  BY DEF Shown
<1>. QED
  BY <1>1 DEF Position, Ahead

\* A page is the places from the end of the page before it on.
LEMMA PageIsPlaces ==
  ASSUME NEW p
  PROVE  Page(p) = {m \in Shown : Ahead(Shown, m) \in ((p - 1) * PageSize + 1)..(p * PageSize)}
  BY PositionIsAhead DEF Page, Shown

\* The first position is 1.
LEMMA PositionType ==
  ASSUME repo \in Seq(Resources), NEW n \in DOMAIN repo
  PROVE  /\ Position(n) \in Nat
         /\ Listed(n) => Position(n) >= 1
<1>1. PICK N \in Nat : N = Len(repo)
  BY RepoType
<1>2. Shown \in SUBSET (1..N) /\ n \in Int /\ n + 1 \in Int
  BY <1>1, RepoType
<1>3. Ahead(Shown, n) \in Nat /\ Ahead(Shown, n + 1) \in Nat
  BY <1>2, AheadType
<1>4. Listed(n) => Ahead(Shown, n) = Ahead(Shown, n + 1) + 1
  BY <1>2, AheadStep DEF Shown
<1>. QED
  BY <1>3, <1>4, PositionIsAhead

\* The older the resource, the later it comes.
LEMMA OlderComesLater ==
  ASSUME repo \in Seq(Resources), NEW m \in DOMAIN repo, NEW n \in DOMAIN repo,
         Position(m) < Position(n)
  PROVE  n < m
<1>1. PICK N \in Nat : N = Len(repo)
  BY RepoType
<1>2. Shown \in SUBSET (1..N) /\ m \in Int /\ n \in Int /\ Shown \in SUBSET Shown
  BY <1>1, RepoType
<1>3. m <= n => Ahead(Shown, n) <= Ahead(Shown, m)
  BY <1>2, AheadGrows
<1>4. Position(m) \in Nat /\ Position(n) \in Nat
  BY PositionType
<1>. QED
  BY <1>2, <1>3, <1>4, PositionIsAhead

\* Where a page begins and ends.
LEMMA PageBounds ==
  ASSUME NEW p \in Nat, p >= 1
  PROVE  /\ (p - 1) * PageSize \in Nat
         /\ p * PageSize \in Nat
         /\ p * PageSize = (p - 1) * PageSize + PageSize
<1>1. PICK q \in Nat : q = p - 1
  OBVIOUS
<1>2. PageSize \in Nat
  BY SizesAssumption
<1>3. q * PageSize \in Nat /\ p * PageSize \in Nat
  BY <1>2, <1>1
<1>4. (q + 1) * PageSize = q * PageSize + PageSize
  BY <1>2
<1>. QED
  BY <1>1, <1>3, <1>4

\* A page that is followed by something is full.
LEMMA PageIsFull ==
  ASSUME repo \in Seq(Resources), NEW n \in DOMAIN repo, NEW p \in Nat, p >= 1,
         Position(n) > p * PageSize
  PROVE  ~(Cardinality(Page(p)) < PageSize)
<1>1. PICK N \in Nat : N = Len(repo)
  BY RepoType
<1>2. Shown \in SUBSET (1..N) /\ n \in 1..N
  BY <1>1, RepoType
<1>3. PICK a \in Nat, b \in Nat : a = (p - 1) * PageSize /\ b = p * PageSize /\ b = a + PageSize
  BY PageBounds
<1>4. PageSize \in Nat
  BY SizesAssumption
<1>5. a <= b /\ b <= Ahead(Shown, n) /\ b - a = PageSize
  <2>1. PICK c \in Nat : c = Position(n)
    BY PositionType
  <2>2. c > b /\ c = Ahead(Shown, n)
    BY <1>3, <2>1, PositionIsAhead
  <2>. QED  BY <1>3, <1>4, <2>2
<1>6. Cardinality({m \in Shown : Ahead(Shown, m) \in (a + 1)..b}) >= b - a
  BY <1>2, <1>5, PlacesAreFull
<1>7. Page(p) = {m \in Shown : Ahead(Shown, m) \in (a + 1)..b}
  BY <1>3, PageIsPlaces
<1>8. IsFiniteSet(Page(p))
  <2>1. IsFiniteSet(1..N)
    BY FS_Interval
  <2>2. Page(p) \in SUBSET (1..N)
    BY <1>2, <1>7
  <2>. QED  BY <2>1, <2>2, FS_Subset
<1>9. Cardinality(Page(p)) \in Nat
  BY <1>8, FS_CardinalityType
<1>. QED
  BY <1>4, <1>5, <1>6, <1>7, <1>9

\* What is right and of a later second is listed: it was touched then.
LEMMA LaterIsListed ==
  ASSUME RepoOK, wanted \in Kinds, NEW n \in DOMAIN repo, Right(n), repo[n].stamp = "after"
  PROVE  Listed(n) /\ IsCandidate(n)
<1>1. repo[n].touched
  BY DEF RepoOK
<1>2. repo[n].kind = wanted /\ repo[n].fits /\ repo[n].there
  BY DEF Right
<1>3. wanted # "issue" => repo[n].kind = "pull_request"
  BY <1>2 DEF Kinds
<1>. QED
  BY <1>1, <1>2, <1>3 DEF Listed, IsCandidate

-----------------------------------------------------------------------------
(* The answer.                                                             *)

\* What has fitted all along is in the repository.
LEMMA LaterType ==
  ASSUME TypeOK, NEW n \in Later(steady)
  PROVE  n \in steady /\ n \in DOMAIN repo /\ repo[n].stamp = "after"
  BY DEF Later, TypeOK

\* A single candidate is the one that is found.
LEMMA FoundIsTaken ==
  ASSUME NEW c, candidates = {c}
  PROVE  Taken = {c[2]} /\ Found = c[2]
<1>1. Taken = {c[2]}
  BY DEF Taken
<1>. QED
  BY <1>1 DEF Found

\* What the listing keeps up makes the answer right.
LEMMA AnswerIsRight ==
  ASSUME TypeOK, ListingOK
  PROVE  NothingMissed
<1>1. outcome \in {"found", "none"} => outcome # "unknown" /\ outcome # "pending"
  OBVIOUS
<1>2. outcome \in {"found", "none"} /\ whole => \A n \in Later(steady) : n \in Taken
  BY <1>1 DEF ListingOK
<1>3. ASSUME outcome = "found"
      PROVE  /\ repo[Found].kind = wanted /\ repo[Found].stamp = "after"
             /\ whole => Later(steady) \subseteq {Found}
  <2>1. PICK c \in candidates : candidates = {c}
    BY <1>3 DEF ListingOK
  <2>2. Taken = {Found}
    BY <2>1, FoundIsTaken
  <2>3. \A n \in Taken : repo[n].kind = wanted /\ repo[n].stamp = "after"
    BY DEF ListingOK
  <2>. QED
    BY <1>2, <1>3, <2>2, <2>3
<1>4. outcome = "none" /\ whole => Later(steady) = {}
  <2>1. outcome = "none" => Taken = {}
    BY DEF ListingOK, Taken
  <2>. QED
    BY <1>2, <2>1
<1>. QED
  BY <1>3, <1>4 DEF NothingMissed

-----------------------------------------------------------------------------
(* The repository's steps.                                                 *)

\* Initially the repository is of its type and older than the boundary.
LEMMA InitRepo ==
  ASSUME Init
  PROVE  repo \in Seq(Resources) /\ Len(repo) <= MaxResources /\ RepoOK
<1>1. PICK n \in 0..MaxResources, k \in [1..MaxResources -> Kinds], f \in BOOLEAN :
         repo = [i \in 1..n |-> [kind |-> k[i], stamp |-> "before", fits |-> f,
                                 there |-> TRUE, touched |-> FALSE]]
  BY DEF Init
<1>2. n \in Nat /\ n <= MaxResources
  BY SizesAssumption
<1>3. \A i \in 1..n : k[i] \in Kinds
  BY <1>2, SizesAssumption
<1>4. \A i \in 1..n : repo[i] \in Resources /\ repo[i].stamp = "before"
  BY <1>1, <1>3 DEF Resources, Stamps
<1>5. repo = [i \in 1..n |-> repo[i]]
  BY <1>1
<1>6. repo \in [1..n -> Resources]
  BY <1>4, <1>5
<1>7. repo \in Seq(Resources) /\ Len(repo) = n /\ DOMAIN repo = 1..n
  BY <1>2, <1>6
<1>. QED
  BY <1>2, <1>4, <1>7 DEF RepoOK

\* Initially nothing is listed.
LEMMA InitDiscovery ==
  ASSUME Init
  PROVE  TypeOK /\ RepoOK /\ ListingOK
<1>1. repo \in Seq(Resources) /\ Len(repo) <= MaxResources /\ RepoOK
  BY InitRepo
<1>2. MaxEdits \in Nat /\ MaxPages \in Nat
  BY SizesAssumption
<1>3. /\ edits = 0 /\ wanted \in Kinds /\ pc = "idle" /\ page = 1 /\ candidates = {}
      /\ outcome = "pending" /\ steady = {} /\ whole = FALSE
  BY DEF Init
<1>4. edits \in 0..MaxEdits /\ page \in 1..(MaxPages + 1)
  BY <1>2, <1>3
<1>5. TypeOK
  BY <1>1, <1>3, <1>4 DEF TypeOK
<1>6. Taken = {}
  BY <1>3 DEF Taken
<1>7. ListingOK
  BY <1>3, <1>6 DEF ListingOK
<1>. QED
  BY <1>1, <1>5, <1>7

\* A resource that is created is the newest.
LEMMA CreateRepo ==
  ASSUME TypeOK, RepoOK, NEW kind \in Kinds, NEW stamp \in Stamps, NEW fits \in BOOLEAN,
         Create(kind, stamp, fits)
  PROVE  /\ repo' \in Seq(Resources) /\ Len(repo') = Len(repo) + 1 /\ Len(repo') <= MaxResources
         /\ \A i \in DOMAIN repo : i \in DOMAIN repo' /\ repo'[i] = repo[i]
         /\ RepoOK'
<1> DEFINE new == [kind |-> kind, stamp |-> stamp, fits |-> fits,
                   there |-> TRUE, touched |-> stamp = "after"]
<1>1. new \in Resources
  <2>1. (stamp = "after") \in BOOLEAN
    OBVIOUS
  <2>. QED  BY <2>1 DEF Resources
<1>2. /\ Len(repo) < MaxResources
      /\ stamp = "same" => \A i \in DOMAIN repo : repo[i].stamp # "after"
      /\ stamp # "before"
      /\ repo' = Append(repo, new)
  BY DEF Create
<1>3. repo \in Seq(Resources)
  BY DEF TypeOK
<1>4. new.stamp = stamp /\ (stamp = "after" => new.touched)
  OBVIOUS
<1> HIDE DEF new
<1>5. PICK N \in Nat : N = Len(repo) /\ DOMAIN repo = 1..N
  BY <1>3
<1>6. repo' \in Seq(Resources) /\ Len(repo') = N + 1 /\ DOMAIN repo' = 1..(N + 1)
  BY <1>1, <1>2, <1>3, <1>5
<1>7. (\A i \in 1..N : repo'[i] = repo[i]) /\ repo'[N + 1] = new
  BY <1>1, <1>2, <1>3, <1>5
<1>8. Len(repo') <= MaxResources
  BY <1>2, <1>5, <1>6, SizesAssumption
<1>9. ASSUME NEW i \in 1..(N + 1), repo'[i].stamp = "after"
      PROVE  /\ repo'[i].touched
             /\ \A j \in i..(N + 1) : repo'[j].stamp = "after"
  <2>1. CASE i = N + 1
    <3>1. \A j \in i..(N + 1) : j = N + 1
      BY <2>1
    <3>. QED  BY <2>1, <3>1, <1>4, <1>7, <1>9
  <2>2. CASE i # N + 1
    <3>1. i \in 1..N /\ repo[i].stamp = "after"
      BY <2>2, <1>7, <1>9
    <3>2. repo[i].touched /\ \A j \in i..N : repo[j].stamp = "after"
      BY <3>1, <1>5 DEF RepoOK
    <3>3. stamp = "after"
      BY <3>1, <1>2, <1>5 DEF Stamps
    <3>4. \A j \in i..(N + 1) : j = N + 1 \/ (j \in i..N /\ j \in 1..N)
      BY <3>1
    <3>. QED  BY <3>1, <3>2, <3>3, <3>4, <1>4, <1>7
  <2>. QED  BY <2>1, <2>2
<1>10. RepoOK'
  BY <1>6, <1>9 DEF RepoOK
<1>11. \A i \in 1..N : i \in 1..(N + 1)
  BY <1>5
<1>. QED
  BY <1>5, <1>6, <1>7, <1>8, <1>10, <1>11

\* An edit changes one resource, and neither its kind nor its time.
LEMMA EditRepo ==
  ASSUME TypeOK, RepoOK, NEW n \in DOMAIN repo, Retitle(n) \/ Delete(n)
  PROVE  /\ repo' \in Seq(Resources) /\ Len(repo') = Len(repo) /\ DOMAIN repo' = DOMAIN repo
         /\ \A i \in DOMAIN repo : i # n => repo'[i] = repo[i]
         /\ \A i \in DOMAIN repo : /\ repo'[i].kind = repo[i].kind
                                   /\ repo'[i].stamp = repo[i].stamp
                                   /\ repo[i].touched => repo'[i].touched
         /\ Retitle(n) => \A i \in DOMAIN repo : repo'[i].there = repo[i].there
         /\ RepoOK'
<1>1. repo \in Seq(Resources) /\ repo[n] \in Resources
  BY DEF TypeOK
<1> DEFINE edited == IF Retitle(n) THEN [repo[n] EXCEPT !.fits = ~@, !.touched = TRUE]
                                   ELSE [repo[n] EXCEPT !.there = FALSE]
<1>2. repo' = [repo EXCEPT ![n] = edited]
  BY DEF Retitle, Delete
<1>3. edited \in Resources
  BY <1>1 DEF Resources
<1>4. /\ edited.kind = repo[n].kind /\ edited.stamp = repo[n].stamp
      /\ repo[n].touched => edited.touched
      /\ Retitle(n) => edited.there = repo[n].there
  BY <1>1 DEF Resources
<1> HIDE DEF edited
<1>5. repo' \in Seq(Resources) /\ Len(repo') = Len(repo) /\ DOMAIN repo' = DOMAIN repo
  BY <1>1, <1>2, <1>3
<1>6. \A i \in DOMAIN repo : repo'[i] = IF i = n THEN edited ELSE repo[i]
  BY <1>1, <1>2
<1>7. \A i \in DOMAIN repo : /\ repo'[i].kind = repo[i].kind
                             /\ repo'[i].stamp = repo[i].stamp
                             /\ repo[i].touched => repo'[i].touched
  BY <1>4, <1>6
<1>8. RepoOK'
  <2>1. ASSUME NEW i \in DOMAIN repo, repo'[i].stamp = "after"
        PROVE  repo'[i].touched /\ \A j \in i..Len(repo) : repo'[j].stamp = "after"
    <3>1. repo[i].stamp = "after"
      BY <2>1, <1>7
    <3>2. repo[i].touched /\ \A j \in i..Len(repo) : repo[j].stamp = "after"
      BY <3>1 DEF RepoOK
    <3>3. \A j \in i..Len(repo) : j \in DOMAIN repo
      BY <1>1
    <3>. QED  BY <3>2, <3>3, <1>7
  <2>. QED  BY <2>1, <1>5 DEF RepoOK
<1>. QED
  BY <1>4, <1>5, <1>6, <1>7, <1>8

\* What is listed moves to a later place, or stays, when more is listed.
LEMMA PositionsGrow ==
  ASSUME repo \in Seq(Resources), repo' \in Seq(Resources), Len(repo) <= Len(repo'),
         Shown \subseteq Shown', NEW n \in DOMAIN repo
  PROVE  Position(n) <= Position(n)' /\ Position(n)' \in Nat
<1>1. PICK N \in Nat : N = Len(repo')
  OBVIOUS
<1>2. Shown' \in SUBSET (1..N)
  BY <1>1 DEF Shown
<1>3. n \in Int /\ Shown \in SUBSET Shown'
  OBVIOUS
<1>4. Ahead(Shown, n) <= Ahead(Shown', n)
  BY <1>2, <1>3, AheadGrows
<1>5. {m \in DOMAIN repo' : m >= n /\ Listed(m)'} = {m \in Shown' : m >= n}
  BY DEF Shown
<1>6. Position(n)' = Ahead(Shown', n)
  BY <1>5 DEF Position, Ahead
<1>7. Ahead(Shown', n) \in Nat
  BY <1>2, <1>3, AheadType
<1>. QED
  BY <1>4, <1>6, <1>7, PositionIsAhead

\* The adapter's knowledge survives what people do, if they unlist nothing while
\* the listing is whole.
LEMMA PeopleKeepListing ==
  ASSUME TypeOK, ListingOK,
         repo' \in Seq(Resources), Len(repo) <= Len(repo'),
         \A i \in DOMAIN repo : /\ i \in DOMAIN repo'
                                /\ repo'[i].kind = repo[i].kind /\ repo'[i].stamp = repo[i].stamp,
         UNCHANGED <<wanted, pc, page, candidates, outcome>>,
         steady' \subseteq steady, \A n \in steady' : Right(n)',
         whole' => whole /\ Shown \subseteq Shown'
  PROVE  ListingOK'
<1>1. repo \in Seq(Resources) /\ steady \subseteq DOMAIN repo
      /\ candidates \subseteq (1..MaxPages) \X DOMAIN repo
  BY DEF TypeOK
<1>2. Taken' = Taken /\ Taken \subseteq DOMAIN repo
  <2>1. \A c \in candidates : c[2] \in DOMAIN repo
    BY <1>1
  <2>. QED  BY <2>1 DEF Taken
<1>3. (pc = "idle" => page = 1 /\ candidates = {} /\ steady = {} /\ ~whole)'
  BY DEF ListingOK
<1>4. (pc = "list" => page <= MaxPages)' /\ (pc # "done" => outcome = "pending")'
  BY DEF ListingOK
<1>5. (\A n \in Taken : repo[n].kind = wanted /\ repo[n].stamp = "after")'
  <2>1. \A n \in Taken : repo[n].kind = wanted /\ repo[n].stamp = "after"
    BY DEF ListingOK
  <2>. QED  BY <1>2, <2>1
<1>6. ASSUME whole', outcome' # "unknown", NEW n \in Later(steady)'
      PROVE  (n \in Taken \/ (pc = "list" /\ Position(n) > (page - 1) * PageSize))'
  <2>1. n \in steady' /\ repo'[n].stamp = "after"
    BY <1>6 DEF Later
  <2>2. n \in Later(steady) /\ n \in DOMAIN repo
    BY <1>1, <2>1 DEF Later
  <2>3. n \in Taken \/ (pc = "list" /\ Position(n) > (page - 1) * PageSize)
    BY <1>6, <2>2 DEF ListingOK
  <2>4. Position(n) <= Position(n)' /\ Position(n)' \in Nat
    BY <1>1, <1>6, <2>2, PositionsGrow
  <2>5. Position(n) \in Nat
    BY <1>1, <2>2, PositionType
  <2>6. CASE n \in Taken
    BY <1>2, <2>6
  <2>7. CASE pc = "list" /\ Position(n) > (page - 1) * PageSize
    <3>1. PICK a \in Nat : a = (page - 1) * PageSize
      <4>1. page \in Nat /\ page >= 1
        BY SizesAssumption DEF TypeOK
      <4>. QED  BY <4>1, PageBounds
    <3>2. Position(n)' > a
      <4>1. PICK x \in Nat, y \in Nat : x = Position(n) /\ y = Position(n)'
        BY <2>4, <2>5
      <4>2. x <= y /\ x > a
        BY <2>4, <2>7, <3>1, <4>1
      <4>3. y > a
        BY <4>2
      <4>. QED  BY <4>1, <4>3
    <3>. QED  BY <2>7, <3>1, <3>2
  <2>. QED  BY <2>3, <2>6, <2>7
<1>7. (pc = "fetch" \/ outcome = "found" => \E c \in candidates : candidates = {c})'
      /\ (outcome = "none" => candidates = {})'
  BY DEF ListingOK
<1>. QED
  BY <1>3, <1>4, <1>5, <1>6, <1>7 DEF ListingOK

\* Somebody creates a resource.
LEMMA CreateStep ==
  ASSUME TypeOK, RepoOK, ListingOK, NEW kind \in Kinds, NEW stamp \in Stamps, NEW fits \in BOOLEAN,
         Create(kind, stamp, fits)
  PROVE  TypeOK' /\ RepoOK' /\ ListingOK'
<1>1. /\ repo' \in Seq(Resources) /\ Len(repo') = Len(repo) + 1 /\ Len(repo') <= MaxResources
      /\ \A i \in DOMAIN repo : i \in DOMAIN repo' /\ repo'[i] = repo[i]
      /\ RepoOK'
  BY CreateRepo
<1>2. UNCHANGED <<edits, wanted, pc, page, candidates, outcome, steady, whole>>
  BY DEF Create
<1>3. DOMAIN repo \subseteq DOMAIN repo' /\ Len(repo) <= Len(repo')
  <2>1. Len(repo) \in Nat
    BY RepoType DEF TypeOK
  <2>. QED  BY <1>1, <2>1
<1>4. TypeOK'
  BY <1>1, <1>2, <1>3 DEF TypeOK
<1>5. Shown \subseteq Shown'
  BY <1>1, <1>2 DEF Shown, Listed
<1>6. \A n \in steady' : Right(n)'
  <2>1. \A n \in steady : n \in DOMAIN repo /\ Right(n)
    BY DEF TypeOK, ListingOK
  <2>. QED  BY <1>1, <1>2, <2>1 DEF Right
<1>7. ListingOK'
  BY <1>1, <1>2, <1>3, <1>5, <1>6, PeopleKeepListing
<1>. QED
  BY <1>1, <1>4, <1>7

\* Somebody changes what the constraints look at, or deletes an issue.
LEMMA EditStep ==
  ASSUME TypeOK, RepoOK, ListingOK, NEW n \in DOMAIN repo, Retitle(n) \/ Delete(n)
  PROVE  TypeOK' /\ RepoOK' /\ ListingOK'
<1>1. /\ repo' \in Seq(Resources) /\ Len(repo') = Len(repo) /\ DOMAIN repo' = DOMAIN repo
      /\ \A i \in DOMAIN repo : i # n => repo'[i] = repo[i]
      /\ \A i \in DOMAIN repo : /\ repo'[i].kind = repo[i].kind
                                /\ repo'[i].stamp = repo[i].stamp
                                /\ repo[i].touched => repo'[i].touched
      /\ Retitle(n) => \A i \in DOMAIN repo : repo'[i].there = repo[i].there
      /\ RepoOK'
  BY EditRepo
<1>2. /\ UNCHANGED <<wanted, pc, page, candidates, outcome>>
      /\ steady' = steady \ {n}
      /\ whole' = whole \/ whole' = FALSE
      /\ whole' => Retitle(n)
  BY DEF Retitle, Delete
<1>3. edits' \in 0..MaxEdits
  <2>1. edits < MaxEdits /\ edits' = edits + 1
    BY DEF Retitle, Delete
  <2>2. edits \in 0..MaxEdits /\ MaxEdits \in Nat
    BY SizesAssumption DEF TypeOK
  <2>. QED  BY <2>1, <2>2
<1>4. whole' \in BOOLEAN /\ (whole' => whole)
  <2>1. whole \in BOOLEAN
    BY DEF TypeOK
  <2>2. CASE whole' = whole
    BY <2>1, <2>2
  <2>3. CASE whole' = FALSE
    BY <2>3
  <2>. QED  BY <1>2, <2>2, <2>3
<1>5. TypeOK'
  BY <1>1, <1>2, <1>3, <1>4 DEF TypeOK
<1>6. Retitle(n) => Shown \subseteq Shown'
  <2>1. ASSUME Retitle(n), NEW m \in DOMAIN repo, Listed(m)
        PROVE  Listed(m)'
    BY <2>1, <1>1, <1>2 DEF Listed
  <2>. QED  BY <1>1, <2>1 DEF Shown
<1>7. \A m \in steady' : Right(m)'
  <2>1. \A m \in steady : m \in DOMAIN repo /\ Right(m)
    BY DEF TypeOK, ListingOK
  <2>. QED  BY <1>1, <1>2, <2>1 DEF Right
<1>8. Len(repo) <= Len(repo')
  <2>1. Len(repo) \in Nat
    BY RepoType DEF TypeOK
  <2>. QED  BY <1>1, <2>1
<1>9. ListingOK'
  BY <1>1, <1>2, <1>4, <1>6, <1>7, <1>8, PeopleKeepListing
<1>. QED
  BY <1>1, <1>5, <1>9

-----------------------------------------------------------------------------
(* The adapter's steps.                                                    *)

\* Only the adapter moves.
LEMMA SameRepo ==
  ASSUME UNCHANGED <<repo, wanted>>
  PROVE  /\ RepoOK' <=> RepoOK
         /\ \A n : (Right(n)' <=> Right(n)) /\ Position(n)' = Position(n)
  BY DEF RepoOK, Right, Position, Listed

\* The listing begins: everything that fits is ahead.
LEMMA BeginStep ==
  ASSUME TypeOK, RepoOK, ListingOK, Begin
  PROVE  TypeOK' /\ RepoOK' /\ ListingOK'
<1>1. /\ pc = "idle" /\ pc' = "list"
      /\ steady' = {n \in DOMAIN repo : Right(n)}
      /\ whole' = TRUE
      /\ UNCHANGED <<repo, edits, wanted, page, candidates, outcome>>
  BY DEF Begin
<1>2. page = 1 /\ candidates = {} /\ outcome = "pending"
  BY <1>1 DEF ListingOK
<1>3. RepoOK' /\ \A n : (Right(n)' <=> Right(n)) /\ Position(n)' = Position(n)
  BY <1>1, SameRepo
<1>4. TypeOK'
  BY <1>1 DEF TypeOK
<1>5. page' <= MaxPages
  BY <1>1, <1>2, SizesAssumption
<1>6. Taken' = {}
  BY <1>1, <1>2 DEF Taken
<1>7. \A n \in steady' : Right(n)'
  BY <1>1, <1>3
<1>8. ASSUME NEW n \in Later(steady)'
      PROVE  Position(n)' > (page' - 1) * PageSize
  <2>1. n \in DOMAIN repo /\ Right(n) /\ repo[n].stamp = "after"
    BY <1>1, <1>8 DEF Later
  <2>2. Listed(n)
    BY <2>1, LaterIsListed DEF TypeOK
  <2>3. Position(n) \in Nat /\ Position(n) >= 1
    BY <2>1, <2>2, PositionType DEF TypeOK
  <2>4. (page' - 1) * PageSize = 0
    <3>1. page' - 1 = 0
      BY <1>1, <1>2
    <3>. QED  BY <3>1, SizesAssumption
  <2>5. PICK x \in Nat : x = Position(n) /\ x >= 1
    BY <2>3
  <2>6. Position(n)' = x /\ x > 0
    BY <1>3, <2>5
  <2>. QED  BY <2>4, <2>6
<1>9. ListingOK'
  BY <1>1, <1>2, <1>5, <1>6, <1>7, <1>8 DEF ListingOK
<1>. QED
  BY <1>3, <1>4, <1>9

\* What has fitted all along is on this page or ahead of it, and it is ahead
\* only of a full page that reaches no earlier resource.
LEMMA OnThePageOrAhead ==
  ASSUME TypeOK, RepoOK, ListingOK, pc = "list", whole, NEW n \in Later(steady)
  PROVE  \/ n \in Taken
         \/ n \in Page(page) /\ IsCandidate(n)
         \/ /\ Position(n) > page * PageSize
            /\ ~(Cardinality(Page(page)) < PageSize)
            /\ \A m \in Page(page) : repo[m].stamp = "after"
<1>1. n \in DOMAIN repo /\ Right(n) /\ repo[n].stamp = "after"
  BY LaterType DEF ListingOK
<1>2. Listed(n) /\ IsCandidate(n)
  BY <1>1, LaterIsListed DEF TypeOK
<1>3. repo \in Seq(Resources) /\ page \in Nat /\ page >= 1
  BY SizesAssumption DEF TypeOK
<1>4. outcome # "unknown"
  BY DEF ListingOK
<1>5. n \in Taken \/ Position(n) > (page - 1) * PageSize
  BY <1>4 DEF ListingOK
<1>6. PICK a \in Nat, b \in Nat : a = (page - 1) * PageSize /\ b = page * PageSize
  BY <1>3, PageBounds
<1>7. PICK x \in Nat : x = Position(n)
  BY <1>1, <1>3, PositionType
<1>8. ASSUME x > a, x <= b
      PROVE  n \in Page(page)
  <2>1. x \in (a + 1)..b
    BY <1>8
  <2>. QED  BY <1>1, <1>2, <1>6, <1>7, <2>1 DEF Page
<1>9. ASSUME x > b
      PROVE  /\ ~(Cardinality(Page(page)) < PageSize)
             /\ \A m \in Page(page) : repo[m].stamp = "after"
  <2>1. ~(Cardinality(Page(page)) < PageSize)
    BY <1>1, <1>3, <1>6, <1>7, <1>9, PageIsFull
  <2>2. ASSUME NEW m \in Page(page)
        PROVE  repo[m].stamp = "after"
    <3>1. m \in DOMAIN repo /\ Position(m) \in (a + 1)..b
      BY <1>6 DEF Page
    <3>2. Position(m) < Position(n)
      BY <1>7, <1>9, <3>1
    <3>3. n < m
      BY <1>1, <1>3, <3>1, <3>2, OlderComesLater
    <3>4. m \in n..Len(repo)
      BY <1>1, <1>3, <3>1, <3>3
    <3>. QED  BY <1>1, <3>4 DEF RepoOK
  <2>. QED  BY <2>1, <2>2
<1>10. x > b \/ x <= b
  OBVIOUS
<1>. QED
  BY <1>2, <1>5, <1>6, <1>7, <1>8, <1>9, <1>10

\* One page is read.
LEMMA ListPageStep ==
  ASSUME TypeOK, RepoOK, ListingOK, ListPage
  PROVE  TypeOK' /\ RepoOK' /\ ListingOK'
<1> DEFINE items   == Page(page)
           kept    == candidates \cup ({page} \X {n \in items : IsCandidate(n)})
           reached == \E n \in items : repo[n].kind = wanted /\ repo[n].stamp # "after"
           last    == Cardinality(items) < PageSize \/ reached
           ends    == last \/ page = MaxPages
<1>1. /\ pc = "list"
      /\ candidates' = kept
      /\ page' = page + 1
      /\ whole' = (whole /\ (ends => last))
      /\ outcome' = CASE ~ends -> "pending"
                      [] ends /\ Cardinality(kept) = 0 -> "none"
                      [] ends /\ Cardinality(kept) = 1 -> "pending"
                      [] OTHER -> "several"
      /\ pc' = IF ~ends THEN "list" ELSE IF Cardinality(kept) = 1 THEN "fetch" ELSE "done"
      /\ UNCHANGED <<repo, edits, wanted, steady>>
  BY DEF ListPage
<1>2. page \in 1..MaxPages /\ outcome = "pending"
  BY <1>1, SizesAssumption DEF ListingOK, TypeOK
<1>3. RepoOK' /\ \A n : (Right(n)' <=> Right(n)) /\ Position(n)' = Position(n)
  BY <1>1, SameRepo
<1>4. kept \subseteq (1..MaxPages) \X DOMAIN repo
  <2>1. items \subseteq DOMAIN repo
    BY DEF Page
  <2>2. {page} \X {n \in items : IsCandidate(n)} \subseteq (1..MaxPages) \X DOMAIN repo
    BY <1>2, <2>1
  <2>3. candidates \subseteq (1..MaxPages) \X DOMAIN repo
    BY DEF TypeOK
  <2>. QED  BY <2>2, <2>3
<1>5. IsFiniteSet(kept)
  <2>1. PICK N \in Nat : DOMAIN repo = 1..N
    BY RepoType DEF TypeOK
  <2>2. IsFiniteSet(1..N) /\ IsFiniteSet(1..MaxPages)
    BY FS_Interval, SizesAssumption
  <2>3. IsFiniteSet((1..MaxPages) \X DOMAIN repo)
    BY <2>1, <2>2, FS_Product
  <2>. QED  BY <1>4, <2>3, FS_Subset
<1>6. /\ Cardinality(kept) = 0 => kept = {}
      /\ Cardinality(kept) = 1 => \E c : kept = {c}
  BY <1>5, FS_EmptySet, FS_Singleton
<1>7. Taken' = Taken \cup {n \in items : IsCandidate(n)}
  <2>1. \A n : n \in {c[2] : c \in {page} \X {i \in items : IsCandidate(i)}}
                <=> n \in items /\ IsCandidate(n)
    <3> DEFINE I == {i \in items : IsCandidate(i)}
    <3>1. ASSUME NEW n \in I
          PROVE  \E c \in {page} \X I : c[2] = n
      <4>1. <<page, n>> \in {page} \X I /\ <<page, n>>[2] = n
        BY <3>1
      <4> HIDE DEF I
      <4>. QED  BY <4>1
    <3>2. \A c \in {page} \X I : c[2] \in I
      OBVIOUS
    <3>3. \A n : n \in {c[2] : c \in {page} \X I} <=> n \in I
      <4> HIDE DEF I
      <4>. QED  BY <3>1, <3>2
    <3>. QED  BY <3>3
  <2>2. {c[2] : c \in kept}
          = {c[2] : c \in candidates} \cup {c[2] : c \in {page} \X {i \in items : IsCandidate(i)}}
    OBVIOUS
  <2>. QED  BY <1>1, <2>1, <2>2 DEF Taken
<1>8. ASSUME whole, NEW n \in Later(steady)
      PROVE  n \in Taken' \/ (Position(n) > page * PageSize /\ ~last)
  BY <1>1, <1>7, <1>8, OnThePageOrAhead
<1>9. /\ ends => pc' \in {"fetch", "done"} /\ outcome' \in {"none", "pending", "several"}
      /\ ~ends => pc' = "list" /\ outcome' = "pending"
      /\ pc' = "fetch" => Cardinality(kept) = 1
      /\ pc' # "done" => outcome' = "pending"
      /\ outcome' = "none" => Cardinality(kept) = 0
  <2>1. CASE ~ends
    BY <1>1, <2>1
  <2>2. CASE ends /\ Cardinality(kept) = 0
    BY <1>1, <2>2
  <2>3. CASE ends /\ Cardinality(kept) = 1
    BY <1>1, <2>3
  <2>4. CASE ends /\ Cardinality(kept) # 0 /\ Cardinality(kept) # 1
    BY <1>1, <2>4
  <2> HIDE DEF ends, kept
  <2>. QED  BY <2>1, <2>2, <2>3, <2>4
<1> HIDE DEF items, kept, reached, last
<1>10. TypeOK'
  <2>1. page' \in 1..(MaxPages + 1)
    BY <1>1, <1>2, SizesAssumption
  <2>2. whole' \in BOOLEAN
    BY <1>1
  <2>3. /\ pc' \in {"idle", "list", "fetch", "done"}
        /\ outcome' \in {"pending", "none", "several", "unknown", "found"}
    BY <1>9
  <2>4. candidates' \subseteq (1..MaxPages) \X DOMAIN repo'
    BY <1>1, <1>4
  <2>. QED  BY <1>1, <2>1, <2>2, <2>3, <2>4 DEF TypeOK
<1>11. ASSUME whole', NEW n \in Later(steady)'
       PROVE  n \in Taken' \/ (pc' = "list" /\ Position(n)' > (page' - 1) * PageSize)
  <2>1. whole /\ (ends => last) /\ n \in Later(steady)
    BY <1>1, <1>11 DEF Later
  <2>2. page' - 1 = page
    BY <1>1, <1>2
  <2>. QED  BY <1>3, <1>8, <1>9, <2>1, <2>2
<1>12. \A n \in Taken' : repo'[n].kind = wanted' /\ repo'[n].stamp = "after"
  <2>1. \A n \in Taken : repo[n].kind = wanted /\ repo[n].stamp = "after"
    BY DEF ListingOK
  <2>. QED  BY <1>1, <1>7, <2>1 DEF IsCandidate
<1>13. \A n \in steady' : Right(n)'
  BY <1>1, <1>3 DEF ListingOK
<1>14. pc' = "list" => page' <= MaxPages
  BY <1>1, <1>2, <1>9, SizesAssumption
<1>15. /\ pc' = "fetch" \/ outcome' = "found" => \E c \in candidates' : candidates' = {c}
       /\ outcome' = "none" => candidates' = {}
  BY <1>1, <1>6, <1>9
<1>16. ListingOK'
  BY <1>9, <1>11, <1>12, <1>13, <1>14, <1>15 DEF ListingOK
<1>. QED
  BY <1>3, <1>10, <1>16

\* The single candidate is read by its number, or the adapter gives up.
LEMMA AnswerStep ==
  ASSUME TypeOK, RepoOK, ListingOK, FetchNumber \/ GiveUp
  PROVE  TypeOK' /\ RepoOK' /\ ListingOK'
<1>1. /\ pc \in {"list", "fetch"} /\ pc' = "done"
      /\ outcome' = "found" => pc = "fetch"
      /\ outcome' \in {"found", "unknown"}
      /\ UNCHANGED <<repo, edits, wanted, page, candidates, steady, whole>>
  BY DEF FetchNumber, GiveUp
<1>2. RepoOK' /\ \A n : (Right(n)' <=> Right(n)) /\ Position(n)' = Position(n)
  BY <1>1, SameRepo
<1>3. TypeOK'
  BY <1>1 DEF TypeOK
<1>4. Taken' = Taken /\ Later(steady)' = Later(steady)
  BY <1>1 DEF Taken, Later
<1>5. outcome # "unknown"
  BY <1>1 DEF ListingOK
<1>6. ASSUME whole', outcome' # "unknown", NEW n \in Later(steady)'
      PROVE  n \in Taken'
  <2>1. pc = "fetch" /\ whole /\ n \in Later(steady)
    BY <1>1, <1>4, <1>6
  <2>. QED  BY <1>4, <1>5, <2>1 DEF ListingOK
<1>7. \A n \in Taken' : repo'[n].kind = wanted' /\ repo'[n].stamp = "after"
  BY <1>1, <1>4 DEF ListingOK
<1>8. \A n \in steady' : Right(n)'
  BY <1>1, <1>2 DEF ListingOK
<1>9. outcome' = "found" => \E c \in candidates' : candidates' = {c}
  BY <1>1 DEF ListingOK
<1>10. ListingOK'
  BY <1>1, <1>6, <1>7, <1>8, <1>9 DEF ListingOK
<1>. QED
  BY <1>2, <1>3, <1>10

\* Every step keeps the invariant.
LEMMA DiscoveryStep ==
  ASSUME TypeOK, RepoOK, ListingOK, [Next]_vars
  PROVE  TypeOK' /\ RepoOK' /\ ListingOK'
<1>1. CASE People
  <2>1. ASSUME NEW kind \in Kinds, NEW stamp \in Stamps, NEW fits \in BOOLEAN,
               Create(kind, stamp, fits)
        PROVE  TypeOK' /\ RepoOK' /\ ListingOK'
    BY <2>1, CreateStep
  <2>2. ASSUME NEW n \in DOMAIN repo, Retitle(n) \/ Delete(n)
        PROVE  TypeOK' /\ RepoOK' /\ ListingOK'
    BY <2>2, EditStep
  <2>. QED  BY <1>1, <2>1, <2>2 DEF People
<1>2. CASE Begin
  BY <1>2, BeginStep
<1>3. CASE ListPage
  BY <1>3, ListPageStep
<1>4. CASE FetchNumber \/ GiveUp
  BY <1>4, AnswerStep
<1>5. CASE UNCHANGED vars
  <2>1. UNCHANGED <<repo, edits, wanted, pc, page, candidates, outcome, steady, whole>>
    BY <1>5 DEF vars
  <2>2. RepoOK' /\ \A n : (Right(n)' <=> Right(n)) /\ Position(n)' = Position(n)
    BY <2>1, SameRepo
  <2>3. TypeOK'
    BY <2>1 DEF TypeOK
  <2>4. Taken' = Taken /\ Later(steady)' = Later(steady)
    BY <2>1 DEF Taken, Later
  <2>5. ListingOK'
    BY <2>1, <2>2, <2>4 DEF ListingOK
  <2>. QED  BY <2>2, <2>3, <2>5
<1>. QED
  BY <1>1, <1>2, <1>3, <1>4, <1>5 DEF Next, Adapter

\* Whatever people create, retitle or delete between two pages: what is found
\* is of the kind and time asked for, and after a whole listing it is the only
\* later resource that fitted all along, or there was none.
THEOREM ListingMissesNothing == Spec => []Inv
<1>1. Init => TypeOK /\ RepoOK /\ ListingOK
  BY InitDiscovery
<1>2. TypeOK /\ RepoOK /\ ListingOK /\ [Next]_vars => (TypeOK /\ RepoOK /\ ListingOK)'
  BY DiscoveryStep
<1>3. TypeOK /\ RepoOK /\ ListingOK => Inv
  BY AnswerIsRight DEF Inv
<1>. QED
  BY <1>1, <1>2, <1>3, PTL DEF Spec

=============================================================================
