-------------------------- MODULE RateLimiterProofs --------------------------
(***************************************************************************)
(* What the limiter promises, for any number of keys, any limit and window *)
(* and any rate of requests: proofs about RateLimiter.                     *)
(***************************************************************************)
EXTENDS RateLimiter, FiniteSetTheorems, SequenceTheorems, WellFoundedInduction, TLAPS

\* The inductive invariant: nothing is needed beside what the run checks.
LInv == Inv /\ WindowBound

\* A set of naturals that is not empty has a least member.
LEMMA Least ==
  ASSUME NEW T, T \subseteq Nat, T # {}
  PROVE  \E x \in T : \A y \in T : x <= y
<1>. DEFINE R == OpToRel(<, Nat)
<1>1. IsWellFoundedOn(R, Nat)
  BY NatLessThanWellFounded
<1>2. \A x, y \in Nat : (<<y, x>> \in R) <=> (y < x)
  BY DEF OpToRel
<1>. HIDE DEF R
<1>3. PICK x \in T : \A y \in T : ~(<<y, x>> \in R)
  BY <1>1, WFMin
<1>4. ASSUME NEW y \in T  PROVE x <= y
  <2>1. x \in Nat /\ y \in Nat
    OBVIOUS
  <2>2. ~(y < x)
    BY <1>2, <1>3, <2>1
  <2>. QED  BY <2>1, <2>2
<1>. QED  BY <1>4

\* How many members the end of an interval has.
LEMMA IntervalSize ==
  ASSUME NEW m \in Nat, NEW n \in Nat, m <= n
  PROVE  /\ IsFiniteSet((m + 1)..n)
         /\ Cardinality((m + 1)..n) = n - m
<1>1. PICK a \in Int : a = m + 1
  OBVIOUS
<1>2. IsFiniteSet(a..n) /\ Cardinality(a..n) = IF a > n THEN 0 ELSE n - a + 1
  BY FS_Interval
<1>3. (IF a > n THEN 0 ELSE n - a + 1) = n - m
  BY <1>1
<1>. QED  BY <1>1, <1>2, <1>3

\* The end of a sequence after its first m members.
LEMMA TailOf ==
  ASSUME NEW S, NEW q \in Seq(S), NEW m \in 0..Len(q)
  PROVE  /\ SubSeq(q, m + 1, Len(q)) \in Seq(S)
         /\ Len(SubSeq(q, m + 1, Len(q))) = Len(q) - m
         /\ \A i \in 1..(Len(q) - m) : SubSeq(q, m + 1, Len(q))[i] = q[m + i]
<1>1. /\ Len(q) \in Nat /\ m \in Nat /\ m <= Len(q)
      /\ \A i \in 1..Len(q) : q[i] \in S
  BY ElementOfSeq, LenProperties
<1>2. PICK b \in Int : b = m + 1
  BY <1>1
<1>3. PICK n \in Nat : n = Len(q)
  BY <1>1
<1>4. \A i \in b..n : q[i] \in S
  BY <1>1, <1>2, <1>3
<1>5. /\ SubSeq(q, b, n) \in Seq(S)
      /\ Len(SubSeq(q, b, n)) = IF b <= n THEN n - b + 1 ELSE 0
      /\ \A i \in 1..(n - b + 1) : SubSeq(q, b, n)[i] = q[b + i - 1]
  BY <1>4, SubSeqProperties
<1>6. (IF b <= n THEN n - b + 1 ELSE 0) = n - m /\ n - b + 1 = n - m
  BY <1>1, <1>2, <1>3
<1>7. \A i \in 1..(n - m) : b + i - 1 = m + i
  BY <1>1, <1>2, <1>3
<1>8. Len(SubSeq(q, b, n)) = n - m /\ \A i \in 1..(n - m) : SubSeq(q, b, n)[i] = q[m + i]
  BY <1>5, <1>6, <1>7
<1>. QED  BY <1>2, <1>3, <1>5, <1>8

\* What \div is: the code's int() of a quotient that is not negative.
LEMMA Quotient ==
  ASSUME NEW a \in Int, NEW b \in Nat \ {0}
  PROVE  /\ a \div b \in Int
         /\ b * (a \div b) <= a
         /\ a < b * (a \div b) + b
OBVIOUS

\* The window has a length, and the limiter admits one request at least.
LEMMA Sizes ==
  /\ Length \in Nat \ {0}
  /\ RequestsPerMinute \in Nat \ {0}
<1>1. Length \in Nat \ {0}
  BY WindowAssumption, TicksAssumption DEF Length
<1>. QED  BY <1>1, LimitAssumption DEF RequestsPerMinute

\* The loop of check() pops the longest prefix that has left the window: all
\* it pops has left, and the hit it stops at has not.
LEMMA StaleIsPrefix ==
  ASSUME now \in Int, NEW q \in Seq(Int)
  PROVE  /\ Stale(q) \in 0..Len(q)
         /\ \A i \in 1..Stale(q) : q[i] <= now - Length
         /\ Stale(q) < Len(q) => now - Length < q[Stale(q) + 1]
<1>. DEFINE S == {i \in DOMAIN q : \A j \in 1..i : q[j] <= now - Length}
            N == Len(q)
<1>1. DOMAIN q = 1..N /\ N \in Nat /\ \A i \in 1..N : q[i] \in Int
  BY ElementOfSeq, LenProperties
<1>2. Stale(q) = Cardinality(S)
  BY DEF Stale
<1>3. ASSUME S = 1..N
      PROVE  Stale(q) = N /\ \A i \in 1..N : q[i] <= now - Length
  <2>1. Cardinality(S) = N
    <3>1. PICK n \in Nat : n = N
      BY <1>1
    <3>2. Cardinality(1..n) = n
      BY FS_Interval
    <3>. QED  BY <1>3, <3>1, <3>2
  <2>2. \A i \in S : q[i] <= now - Length
    BY <1>1
  <2>. QED  BY <1>2, <1>3, <2>1, <2>2
<1>4. ASSUME S # 1..N
      PROVE  \E m \in 1..N : /\ Stale(q) = m - 1
                             /\ \A i \in 1..(m - 1) : q[i] <= now - Length
                             /\ now - Length < q[m]
  <2>. DEFINE T == (1..N) \ S
  <2>1. S \subseteq 1..N /\ T \subseteq Nat /\ T # {}
    BY <1>1, <1>4
  <2>2. PICK m \in T : \A y \in T : m <= y
    BY <2>1, Least
  <2>3. m \in 1..N /\ \A i \in 1..(m - 1) : i \in S
    BY <1>1, <2>2
  <2>4. \A i \in 1..(m - 1) : q[i] <= now - Length
    BY <1>1, <2>3
  <2>5. now - Length < q[m]
    <3>1. PICK j \in 1..m : ~(q[j] <= now - Length)
      BY <1>1, <2>2, <2>3
    <3>2. j = m
      BY <2>3, <2>4, <3>1
    <3>. QED  BY <1>1, <2>3, <3>1, <3>2, Sizes
  <2>6. \A i \in S : i \in 1..(m - 1)
    BY <1>1, <2>1, <2>3, <2>5, Sizes
  <2>7. S = 1..(m - 1)
    BY <2>3, <2>6
  <2>8. Cardinality(S) = m - 1
    <3>1. PICK n \in Nat : n = m - 1
      BY <1>1, <2>3
    <3>2. Cardinality(1..n) = n
      BY FS_Interval
    <3>. QED  BY <2>7, <3>1, <3>2
  <2>. QED  BY <1>2, <2>3, <2>4, <2>5, <2>8
<1>. HIDE DEF S
<1>5. CASE S = 1..N
  BY <1>1, <1>3, <1>5
<1>6. CASE S # 1..N
  BY <1>1, <1>4, <1>6
<1>. QED  BY <1>5, <1>6

\* What check() keeps of the deque is what was admitted in the window, and
\* nothing of the window is left out.
LEMMA PrunedIsWindow ==
  ASSUME Inv, NEW k \in Keys
  PROVE  \E p \in 0..Len(admitted[k]) :
           /\ Len(admitted[k]) - p <= Len(hits[k])
           /\ Pruned(hits[k]) = SubSeq(admitted[k], p + 1, Len(admitted[k]))
           /\ Len(Pruned(hits[k])) = Len(admitted[k]) - p
           /\ \A i \in 1..p : admitted[k][i] <= now - Length
           /\ \A i \in (p + 1)..Len(admitted[k]) :
                now - Length < admitted[k][i] /\ admitted[k][i] <= now
<1>. DEFINE a == admitted[k]
            h == hits[k]
            N == Len(a)
            d == N - Len(h)
            s == Stale(h)
            p == d + s
<1>1. /\ now \in Nat
      /\ a \in Seq(0..now) /\ N \in Nat /\ \A i \in 1..N : a[i] \in 0..now
      /\ h \in Seq(0..now) /\ Len(h) \in Nat /\ \A i \in 1..Len(h) : h[i] \in 0..now
      /\ DOMAIN a = 1..N
  <2>1. now \in Nat /\ a \in Seq(0..now) /\ h \in Seq(0..now)
    BY BoundAssumption DEF Inv, TypeOK
  <2>. QED  BY <2>1, ElementOfSeq, LenProperties
<1>2. /\ d >= 0
      /\ h = SubSeq(a, d + 1, N)
      /\ \A i \in 1..d : a[i] <= now - Length
  BY DEF Inv, DequeIsWindow
<1>3. \A i, j \in 1..N : i <= j => a[i] <= a[j]
  BY <1>1 DEF Inv, InOrder
<1>. HIDE DEF a, h
<1>4. \A i \in 1..Len(h) : h[i] = a[d + i]
  <2>1. d \in 0..N /\ N - d = Len(h)
    BY <1>1, <1>2
  <2>. HIDE DEF d, N
  <2>2. \A i \in 1..(N - d) : SubSeq(a, d + 1, N)[i] = a[d + i]
    BY <1>1, <2>1, TailOf DEF N
  <2>. QED  BY <1>2, <2>1, <2>2
<1>5. /\ s \in 0..Len(h)
      /\ \A i \in 1..s : h[i] <= now - Length
      /\ s < Len(h) => now - Length < h[s + 1]
  <2>1. h \in Seq(Int) /\ now \in Int
    BY <1>1, SeqMonotonic
  <2>. QED  BY <2>1, StaleIsPrefix
<1>. HIDE DEF s
<1>6. p \in 0..N /\ N - p = Len(h) - s
  BY <1>1, <1>2, <1>5
<1>7. \A i \in 1..p : a[i] <= now - Length
  <2>. SUFFICES ASSUME NEW i \in 1..p  PROVE a[i] <= now - Length
    OBVIOUS
  <2>1. CASE i <= d
    BY <1>2, <2>1
  <2>2. CASE i > d
    <3>. HIDE DEF d
    <3>0. i \in Int /\ d \in Int /\ s \in Int /\ i <= d + s /\ s <= Len(h) /\ Len(h) \in Int
      <4>1. s \in Int /\ Len(h) \in Int /\ s <= Len(h)
        BY <1>1, <1>5
      <4>2. d \in Int
        BY <1>1 DEF d
      <4>. QED  BY <4>1, <4>2
    <3>1. i - d \in 1..s /\ i - d \in 1..Len(h) /\ d + (i - d) = i
      BY <2>2, <3>0
    <3>2. h[i - d] = a[i]
      BY <1>4, <3>1
    <3>. QED  BY <1>5, <3>1, <3>2
  <2>. QED  BY <1>1, <2>1, <2>2
<1>8. \A i \in (p + 1)..N : now - Length < a[i] /\ a[i] <= now
  <2>. SUFFICES ASSUME NEW i \in (p + 1)..N  PROVE now - Length < a[i] /\ a[i] <= now
    OBVIOUS
  <2>1. s < Len(h) /\ s + 1 \in 1..Len(h) /\ d + (s + 1) = p + 1 /\ p + 1 \in 1..N /\ i \in 1..N
    BY <1>1, <1>2, <1>5, <1>6
  <2>2. now - Length < a[p + 1]
    <3>1. h[s + 1] = a[p + 1]
      BY <1>4, <2>1
    <3>. QED  BY <1>5, <2>1, <3>1
  <2>3. a[p + 1] <= a[i]
    BY <1>3, <1>6, <2>1
  <2>4. a[p + 1] \in 0..now /\ a[i] \in 0..now
    BY <1>1, <2>1
  <2>. QED  BY <1>1, <2>2, <2>3, <2>4, Sizes
<1>9. /\ Pruned(h) = SubSeq(a, p + 1, N)
      /\ Len(Pruned(h)) = N - p
  <2>. DEFINE u == SubSeq(h, s + 1, Len(h))
              v == SubSeq(a, p + 1, N)
  <2>1. /\ u \in Seq(0..now) /\ Len(u) = N - p
        /\ \A i \in 1..(N - p) : u[i] = h[s + i]
    BY <1>1, <1>5, <1>6, TailOf
  <2>2. /\ v \in Seq(0..now) /\ Len(v) = N - p
        /\ \A i \in 1..(N - p) : v[i] = a[p + i]
    BY <1>1, <1>6, TailOf
  <2>3. \A i \in 1..(N - p) : u[i] = v[i]
    <3>. SUFFICES ASSUME NEW i \in 1..(N - p)  PROVE u[i] = v[i]
      OBVIOUS
    <3>1. s + i \in 1..Len(h) /\ d + (s + i) = p + i
      BY <1>1, <1>2, <1>5, <1>6
    <3>2. h[s + i] = a[p + i]
      BY <1>4, <3>1
    <3>. QED  BY <2>1, <2>2, <3>2
  <2>. HIDE DEF u, v
  <2>4. u = v
    BY <2>1, <2>2, <2>3, SeqEqual
  <2>. QED  BY <2>1, <2>4 DEF Pruned, s, u, v
<1>10. N - p <= Len(h)
  BY <1>1, <1>5, <1>6
<1>. QED  BY <1>6, <1>7, <1>8, <1>9, <1>10 DEF a, h

\* The admissions in the window that ends now are the last of the history, as
\* many as check() keeps.
LEMMA WindowIsTail ==
  ASSUME Inv, NEW k \in Keys
  PROVE  /\ IsFiniteSet(InWindow(k, now))
         /\ Cardinality(InWindow(k, now)) = Len(Pruned(hits[k]))
         /\ \E p \in 0..Len(admitted[k]) :
              /\ InWindow(k, now) = (p + 1)..Len(admitted[k])
              /\ Len(Pruned(hits[k])) = Len(admitted[k]) - p
              /\ Pruned(hits[k]) = SubSeq(admitted[k], p + 1, Len(admitted[k]))
<1>1. PICK p \in 0..Len(admitted[k]) :
           /\ Len(admitted[k]) - p <= Len(hits[k])
           /\ Pruned(hits[k]) = SubSeq(admitted[k], p + 1, Len(admitted[k]))
           /\ Len(Pruned(hits[k])) = Len(admitted[k]) - p
           /\ \A i \in 1..p : admitted[k][i] <= now - Length
           /\ \A i \in (p + 1)..Len(admitted[k]) :
                now - Length < admitted[k][i] /\ admitted[k][i] <= now
  BY PrunedIsWindow
<1>2. /\ now \in Nat /\ Len(admitted[k]) \in Nat
      /\ DOMAIN admitted[k] = 1..Len(admitted[k])
      /\ \A i \in 1..Len(admitted[k]) : admitted[k][i] \in 0..now
  <2>1. now \in Nat /\ admitted[k] \in Seq(0..now)
    BY BoundAssumption DEF Inv, TypeOK
  <2>. QED  BY <2>1, ElementOfSeq, LenProperties
<1>3. InWindow(k, now) \subseteq (p + 1)..Len(admitted[k])
  <2>. SUFFICES ASSUME NEW i \in DOMAIN admitted[k],
                       now - Length < admitted[k][i]
                PROVE  i \in (p + 1)..Len(admitted[k])
    BY DEF InWindow
  <2>1. i \in 1..Len(admitted[k]) /\ admitted[k][i] \in Nat
    BY <1>2
  <2>2. ~(i \in 1..p)
    BY <1>1, <1>2, <2>1, Sizes
  <2>. QED  BY <1>1, <1>2, <2>1, <2>2
<1>4. (p + 1)..Len(admitted[k]) \subseteq InWindow(k, now)
  BY <1>1, <1>2 DEF InWindow
<1>5. InWindow(k, now) = (p + 1)..Len(admitted[k])
  BY <1>3, <1>4
<1>6. /\ IsFiniteSet((p + 1)..Len(admitted[k]))
      /\ Cardinality((p + 1)..Len(admitted[k])) = Len(admitted[k]) - p
  BY <1>1, <1>2, IntervalSize
<1>. QED  BY <1>1, <1>5, <1>6

-----------------------------------------------------------------------------
(* One key: its deque h and its history a at time t.                       *)

Deque(h, a, t) ==
  /\ h \in Seq(0..t)
  /\ a \in Seq(0..t)
  /\ Len(a) - Len(h) >= 0
  /\ h = SubSeq(a, Len(a) - Len(h) + 1, Len(a))
  /\ \A i \in 1..(Len(a) - Len(h)) : a[i] <= t - Length
  /\ Len(h) <= RequestsPerMinute
  /\ \A i, j \in DOMAIN a : i <= j => a[i] <= a[j]

In(a, t) == {i \in DOMAIN a : t - Length < a[i] /\ a[i] <= t}

\* No window that ends by the time t holds more than the limit.
Within(a, t) == \A u \in 0..t : Cardinality(In(a, u)) <= RequestsPerMinute

\* The invariant is one of each key, beside the clock and the last answer.
LEMMA ByKey ==
  LInv <=> /\ now \in 0..MaxTick
           /\ hits = [k \in Keys |-> hits[k]]
           /\ admitted = [k \in Keys |-> admitted[k]]
           /\ answer \in [key : Keys, allowed : BOOLEAN, retry : 0..Window]
           /\ \A k \in Keys : Deque(hits[k], admitted[k], now) /\ Within(admitted[k], now)
<1>1. \A k \in Keys, t \in 0..now : InWindow(k, t) = In(admitted[k], t)
  BY DEF InWindow, In
<1>2. WindowBound <=> \A k \in Keys : Within(admitted[k], now)
  BY <1>1 DEF WindowBound, Within
<1>3. /\ hits \in [Keys -> Seq(0..now)] <=>
           hits = [k \in Keys |-> hits[k]] /\ \A k \in Keys : hits[k] \in Seq(0..now)
      /\ admitted \in [Keys -> Seq(0..now)] <=>
           admitted = [k \in Keys |-> admitted[k]] /\ \A k \in Keys : admitted[k] \in Seq(0..now)
  OBVIOUS
<1>. QED  BY <1>2, <1>3 DEF LInv, Inv, TypeOK, DequeIsWindow, InOrder, Deque

\* The same of the state after a step.
LEMMA ByKeyNext ==
  LInv' <=> /\ now' \in 0..MaxTick
            /\ hits' = [k \in Keys |-> hits'[k]]
            /\ admitted' = [k \in Keys |-> admitted'[k]]
            /\ answer' \in [key : Keys, allowed : BOOLEAN, retry : 0..Window]
            /\ \A k \in Keys : Deque(hits'[k], admitted'[k], now') /\ Within(admitted'[k], now')
<1>1. \A k \in Keys, t \in 0..now' : InWindow(k, t)' = In(admitted'[k], t)
  BY DEF InWindow, In
<1>2. WindowBound' <=> \A k \in Keys : Within(admitted'[k], now')
  BY <1>1 DEF WindowBound, Within
<1>3. /\ hits' \in [Keys -> Seq(0..now')] <=>
           hits' = [k \in Keys |-> hits'[k]] /\ \A k \in Keys : hits'[k] \in Seq(0..now')
      /\ admitted' \in [Keys -> Seq(0..now')] <=>
           admitted' = [k \in Keys |-> admitted'[k]] /\ \A k \in Keys : admitted'[k] \in Seq(0..now')
  OBVIOUS
<1>. QED  BY <1>2, <1>3 DEF LInv, Inv, TypeOK, DequeIsWindow, InOrder, Deque

\* The clock ages a deque and breaks nothing.
LEMMA DequeAges ==
  ASSUME NEW h, NEW a, NEW t \in Nat, Deque(h, a, t)
  PROVE  Deque(h, a, t + 1)
<1>1. h \in Seq(0..(t + 1)) /\ a \in Seq(0..(t + 1))
  <2>1. 0..t \subseteq 0..(t + 1)
    OBVIOUS
  <2>. QED  BY <2>1, SeqMonotonic DEF Deque
<1>2. \A i \in 1..(Len(a) - Len(h)) : a[i] <= (t + 1) - Length
  <2>1. /\ Len(a) \in Nat /\ Len(h) \in Nat
        /\ \A i \in 1..Len(a) : a[i] \in 0..t
    BY ElementOfSeq, LenProperties DEF Deque
  <2>2. \A i \in 1..(Len(a) - Len(h)) : i \in 1..Len(a)
    BY <2>1
  <2>. QED  BY <2>1, <2>2, Sizes DEF Deque
<1>. QED  BY <1>1, <1>2 DEF Deque

\* A window that ends later than the last admission holds no more than the one
\* that ends with it.
LEMMA WindowAges ==
  ASSUME NEW a, NEW t \in Nat, a \in Seq(0..t), Within(a, t)
  PROVE  Within(a, t + 1)
<1>1. /\ Len(a) \in Nat /\ DOMAIN a = 1..Len(a)
      /\ \A i \in 1..Len(a) : a[i] \in 0..t
  BY ElementOfSeq, LenProperties
<1>2. In(a, t + 1) \subseteq In(a, t)
  <2>. SUFFICES ASSUME NEW i \in 1..Len(a), (t + 1) - Length < a[i]
                PROVE  t - Length < a[i] /\ a[i] <= t
    BY <1>1 DEF In
  <2>. QED  BY <1>1, Sizes
<1>3. IsFiniteSet(In(a, t))
  <2>1. In(a, t) \in SUBSET (1..Len(a))
    BY <1>1 DEF In
  <2>2. IsFiniteSet(1..Len(a))
    BY <1>1, FS_Interval
  <2>. QED  BY <2>1, <2>2, FS_Subset
<1>4. /\ Cardinality(In(a, t + 1)) <= Cardinality(In(a, t))
      /\ Cardinality(In(a, t + 1)) \in Nat /\ Cardinality(In(a, t)) \in Nat
  BY <1>2, <1>3, FS_Subset, FS_CardinalityType
<1>5. Cardinality(In(a, t)) <= RequestsPerMinute
  BY DEF Within
<1>6. Cardinality(In(a, t + 1)) <= RequestsPerMinute
  BY <1>4, <1>5, Sizes
<1>7. \A u \in 0..(t + 1) : u \in 0..t \/ u = t + 1
  OBVIOUS
<1>. QED  BY <1>6, <1>7 DEF Within

\* Pruning leaves a deque, if all that it drops has left the window.
LEMMA DequePruned ==
  ASSUME NEW h, NEW a, NEW t \in Nat, Deque(h, a, t), NEW p \in 0..Len(a),
         Len(a) - p <= Len(h),
         \A i \in 1..p : a[i] <= t - Length
  PROVE  Deque(SubSeq(a, p + 1, Len(a)), a, t)
<1>. DEFINE q == SubSeq(a, p + 1, Len(a))
<1>1. Len(a) \in Nat /\ Len(h) \in Nat /\ p \in Nat
  BY LenProperties DEF Deque
<1>2. q \in Seq(0..t) /\ Len(q) = Len(a) - p
  BY TailOf DEF Deque
<1>. HIDE DEF q
<1>3. Len(a) - Len(q) = p
  BY <1>1, <1>2
<1>4. Len(q) <= RequestsPerMinute
  BY <1>1, <1>2, Sizes DEF Deque
<1>5. Deque(q, a, t)
  <2>1. q = SubSeq(a, Len(a) - Len(q) + 1, Len(a))
    BY <1>3 DEF q
  <2>. QED  BY <1>1, <1>2, <1>3, <1>4, <2>1 DEF Deque
<1>. QED  BY <1>5 DEF q

\* An admission goes to the end of the deque and of the history alike.
LEMMA DequeAdmits ==
  ASSUME NEW q, NEW a, NEW t \in Nat, Deque(q, a, t), Len(q) < RequestsPerMinute
  PROVE  Deque(Append(q, t), Append(a, t), t)
<1>. DEFINE b == Append(a, t)
            r == Append(q, t)
            d == Len(a) - Len(q)
<1>0. t \in 0..t
  OBVIOUS
<1>1. /\ a \in Seq(0..t) /\ q \in Seq(0..t) /\ Len(a) \in Nat /\ Len(q) \in Nat
      /\ DOMAIN a = 1..Len(a)
      /\ \A i \in 1..Len(a) : a[i] \in 0..t
  BY ElementOfSeq, LenProperties DEF Deque
<1>2. /\ b \in Seq(0..t) /\ Len(b) = Len(a) + 1
      /\ \A i \in 1..Len(a) : b[i] = a[i]
      /\ b[Len(a) + 1] = t
  BY <1>0, <1>1, AppendProperties
<1>3. /\ r \in Seq(0..t) /\ Len(r) = Len(q) + 1
      /\ \A i \in 1..Len(q) : r[i] = q[i]
      /\ r[Len(q) + 1] = t
  BY <1>0, <1>1, AppendProperties
<1>4. d \in 0..Len(a) /\ Len(b) - Len(r) = d /\ Len(a) - d = Len(q)
  BY <1>1, <1>2, <1>3 DEF Deque
<1>. HIDE DEF b, r, d
<1>5. \A i \in 1..Len(q) : q[i] = a[d + i]
  <2>1. q = SubSeq(a, d + 1, Len(a))
    BY DEF Deque, d
  <2>2. \A i \in 1..(Len(a) - d) : SubSeq(a, d + 1, Len(a))[i] = a[d + i]
    BY <1>1, <1>4, TailOf
  <2>. QED  BY <1>4, <2>1, <2>2
<1>6. r = SubSeq(b, d + 1, Len(b))
  <2>. DEFINE v == SubSeq(b, d + 1, Len(b))
  <2>1. d \in 0..Len(b) /\ Len(b) - d = Len(q) + 1
    BY <1>1, <1>2, <1>4
  <2>2. /\ v \in Seq(0..t) /\ Len(v) = Len(b) - d
        /\ \A i \in 1..(Len(b) - d) : v[i] = b[d + i]
    BY <1>2, <2>1, TailOf
  <2>. HIDE DEF v
  <2>3. ASSUME NEW i \in 1..(Len(q) + 1)  PROVE r[i] = v[i]
    <3>1. v[i] = b[d + i]
      BY <2>1, <2>2
    <3>2. CASE i \in 1..Len(q)
      <4>1. d + i \in 1..Len(a)
        BY <1>1, <1>4, <3>2
      <4>. QED  BY <1>2, <1>3, <1>5, <3>1, <3>2, <4>1
    <3>3. CASE i = Len(q) + 1
      <4>1. PICK m \in Nat, n \in Nat : m = Len(a) /\ n = Len(q)
        BY <1>1
      <4>2. d = m - n /\ i = n + 1
        BY <3>3, <4>1 DEF d
      <4>3. d + i = m + 1
        BY <4>1, <4>2
      <4>4. v[i] = t
        BY <1>2, <3>1, <4>1, <4>3
      <4>. QED  BY <1>3, <3>3, <4>4
    <3>4. i \in 1..Len(q) \/ i = Len(q) + 1
      BY <1>1
    <3>. QED  BY <3>2, <3>3, <3>4
  <2>4. r = v
    BY <1>3, <2>1, <2>2, <2>3, SeqEqual
  <2>. QED  BY <2>4 DEF v
<1>7. \A i \in 1..d : b[i] <= t - Length
  <2>1. \A i \in 1..d : i \in 1..Len(a) /\ a[i] <= t - Length
    BY <1>1, <1>4 DEF Deque, d
  <2>. QED  BY <1>2, <2>1
<1>8. Len(r) <= RequestsPerMinute
  BY <1>1, <1>3, Sizes
<1>9. \A i, j \in DOMAIN b : i <= j => b[i] <= b[j]
  <2>. SUFFICES ASSUME NEW i \in 1..(Len(a) + 1), NEW j \in 1..(Len(a) + 1), i <= j
                PROVE  b[i] <= b[j]
    BY <1>2, LenProperties
  <2>1. CASE j \in 1..Len(a)
    <3>1. i \in 1..Len(a)
      BY <1>1, <2>1
    <3>2. a[i] <= a[j]
      BY <1>1, <2>1, <3>1 DEF Deque
    <3>. QED  BY <1>2, <2>1, <3>1, <3>2
  <2>2. CASE j = Len(a) + 1
    <3>1. CASE i \in 1..Len(a)
      <4>1. a[i] \in 0..t
        BY <1>1, <3>1
      <4>. QED  BY <1>2, <2>2, <3>1, <4>1
    <3>2. CASE i = Len(a) + 1
      BY <1>2, <2>2, <3>2
    <3>. QED  BY <1>1, <3>1, <3>2
  <2>. QED  BY <1>1, <2>1, <2>2
<1>10. Deque(r, b, t)
  <2>1. Len(b) - Len(r) >= 0 /\ r = SubSeq(b, Len(b) - Len(r) + 1, Len(b))
    <3>1. d >= 0
      BY <1>4
    <3>2. Len(b) - Len(r) = d
      BY <1>4
    <3>. QED  BY <1>6, <3>1, <3>2
  <2>. QED  BY <1>2, <1>3, <1>4, <1>7, <1>8, <1>9, <2>1 DEF Deque
<1>. QED  BY <1>10 DEF b, r

\* An admission at time t is in no window that ended before, and is one more in
\* the window that ends now.
LEMMA WindowAdmits ==
  ASSUME NEW a, NEW t \in Nat, a \in Seq(0..t), Within(a, t),
         Cardinality(In(a, t)) < RequestsPerMinute
  PROVE  Within(Append(a, t), t)
<1>. DEFINE b == Append(a, t)
<1>0. t \in 0..t
  OBVIOUS
<1>1. /\ Len(a) \in Nat /\ DOMAIN a = 1..Len(a)
      /\ \A i \in 1..Len(a) : a[i] \in 0..t
  BY ElementOfSeq, LenProperties
<1>2. /\ b \in Seq(0..t) /\ Len(b) = Len(a) + 1 /\ DOMAIN b = 1..(Len(a) + 1)
      /\ \A i \in 1..Len(a) : b[i] = a[i]
      /\ b[Len(a) + 1] = t
  BY <1>0, AppendProperties, LenProperties
<1>. HIDE DEF b
<1>3. ASSUME NEW u \in 0..t, u # t  PROVE In(b, u) = In(a, u)
  <2>1. \A i \in 1..(Len(a) + 1) : i \in 1..Len(a) \/ i = Len(a) + 1
    BY <1>1
  <2>2. \A i \in 1..Len(a) : i \in 1..(Len(a) + 1)
    BY <1>1
  <2>3. ~(t <= u)
    BY <1>3
  <2>4. In(b, u) \subseteq In(a, u)
    BY <1>1, <1>2, <2>1, <2>3 DEF In
  <2>5. In(a, u) \subseteq In(b, u)
    BY <1>1, <1>2, <2>2 DEF In
  <2>. QED  BY <2>4, <2>5
<1>4. In(b, t) \subseteq In(a, t) \cup {Len(a) + 1}
  <2>1. \A i \in 1..(Len(a) + 1) : i \in 1..Len(a) \/ i = Len(a) + 1
    BY <1>1
  <2>. QED  BY <1>1, <1>2, <2>1 DEF In
<1>5. IsFiniteSet(In(a, t))
  <2>1. In(a, t) \in SUBSET (1..Len(a))
    BY <1>1 DEF In
  <2>2. IsFiniteSet(1..Len(a))
    BY <1>1, FS_Interval
  <2>. QED  BY <2>1, <2>2, FS_Subset
<1>6. /\ IsFiniteSet(In(a, t) \cup {Len(a) + 1})
      /\ Cardinality(In(a, t) \cup {Len(a) + 1}) <= Cardinality(In(a, t)) + 1
  <2>1. Cardinality(In(a, t)) \in Nat
    BY <1>5, FS_CardinalityType
  <2>2. /\ IsFiniteSet(In(a, t) \cup {Len(a) + 1})
        /\ Cardinality(In(a, t) \cup {Len(a) + 1}) =
             IF Len(a) + 1 \in In(a, t) THEN Cardinality(In(a, t)) ELSE Cardinality(In(a, t)) + 1
    BY <1>5, FS_AddElement
  <2>. QED  BY <2>1, <2>2
<1>7. Cardinality(In(b, t)) <= RequestsPerMinute
  <2>1. Cardinality(In(b, t)) <= Cardinality(In(a, t) \cup {Len(a) + 1}) /\ IsFiniteSet(In(b, t))
    BY <1>4, <1>6, FS_Subset
  <2>2. /\ Cardinality(In(b, t)) \in Nat /\ Cardinality(In(a, t)) \in Nat
        /\ Cardinality(In(a, t) \cup {Len(a) + 1}) \in Nat
    BY <1>5, <1>6, <2>1, FS_CardinalityType
  <2>. QED  BY <1>6, <2>1, <2>2, Sizes
<1>8. \A u \in 0..t : Cardinality(In(b, u)) <= RequestsPerMinute
  BY <1>3, <1>7 DEF Within
<1>. QED  BY <1>8 DEF Within, b
-----------------------------------------------------------------------------
(* The steps.                                                              *)

\* check() admits what finds room in the window, and refuses only at the limit;
\* the hit that decides the advice is the oldest of the window.
LEMMA CheckCounts ==
  ASSUME Inv, NEW k \in Keys, Check(k)
  PROVE  LET q == Pruned(hits[k]) IN
           \/ /\ Len(q) < RequestsPerMinute
              /\ Cardinality(InWindow(k, now)) < RequestsPerMinute
              /\ Admit(k, Append(q, now))
           \/ /\ Len(q) = RequestsPerMinute
              /\ Cardinality(InWindow(k, now)) = RequestsPerMinute
              /\ Refuse(k, q)
<1>. DEFINE q == Pruned(hits[k])
<1>1. Cardinality(InWindow(k, now)) = Len(q)
  BY WindowIsTail
<1>2. Len(q) \in Nat /\ Len(q) <= RequestsPerMinute
  <2>1. PICK p \in 0..Len(admitted[k]) :
          Len(admitted[k]) - p <= Len(hits[k]) /\ Len(q) = Len(admitted[k]) - p
    BY PrunedIsWindow
  <2>2. admitted[k] \in Seq(0..now) /\ hits[k] \in Seq(0..now)
    BY DEF Inv, TypeOK
  <2>3. Len(admitted[k]) \in Nat /\ Len(hits[k]) \in Nat
    BY <2>2, LenProperties
  <2>4. Len(hits[k]) <= RequestsPerMinute
    BY DEF Inv, DequeIsWindow
  <2>. QED  BY <2>1, <2>3, <2>4, Sizes
<1>3. IF Len(q) >= RequestsPerMinute THEN Refuse(k, q) ELSE Admit(k, Append(q, now))
  BY DEF Check
<1>. HIDE DEF q
<1>4. \/ Len(q) < RequestsPerMinute /\ Admit(k, Append(q, now))
      \/ Len(q) = RequestsPerMinute /\ Refuse(k, q)
  <2>1. CASE Len(q) >= RequestsPerMinute
    BY <1>2, <1>3, <2>1, Sizes
  <2>2. CASE ~(Len(q) >= RequestsPerMinute)
    BY <1>2, <1>3, <2>2, Sizes
  <2>. QED  BY <2>1, <2>2
<1>. QED  BY <1>1, <1>4 DEF q

\* The oldest hit of the window is in it.
LEMMA OldestInWindow ==
  ASSUME Inv, NEW k \in Keys, Len(Pruned(hits[k])) = RequestsPerMinute
  PROVE  LET oldest == Pruned(hits[k])[1] IN
           /\ oldest \in 0..now /\ now - Length < oldest
           /\ InWindow(k, now) # {}
           /\ oldest = admitted[k][Min(InWindow(k, now))]
<1>. DEFINE q == Pruned(hits[k])
            W == InWindow(k, now)
            a == admitted[k]
<1>1. PICK p \in 0..Len(a) :
        /\ W = (p + 1)..Len(a)
        /\ Len(q) = Len(a) - p
        /\ q = SubSeq(a, p + 1, Len(a))
  BY WindowIsTail
<1>2. a \in Seq(0..now) /\ Len(a) \in Nat
      /\ \A i \in 1..Len(a) : a[i] \in 0..now
  <2>1. a \in Seq(0..now)
    BY DEF Inv, TypeOK
  <2>. QED  BY <2>1, ElementOfSeq, LenProperties
<1>3. p \in Nat /\ p + 1 <= Len(a) /\ 1 \in 1..(Len(a) - p)
  BY <1>1, <1>2, Sizes
<1>4. q[1] = a[p + 1]
  BY <1>1, <1>2, <1>3, TailOf
<1>5. p + 1 \in W /\ \A i \in W : p + 1 <= i
  BY <1>1, <1>2, <1>3
<1>6. Min(W) = p + 1
  <2>1. \A x \in W : (\A y \in W : x <= y) => x = p + 1
    BY <1>1, <1>2, <1>3, <1>5
  <2>. HIDE DEF W
  <2>2. \E x \in W : \A y \in W : x <= y
    BY <1>5
  <2>3. Min(W) \in W /\ \A y \in W : Min(W) <= y
    BY <2>2 DEF Min
  <2>. QED  BY <2>1, <2>3
<1>7. now - Length < a[p + 1]
  BY <1>5 DEF InWindow
<1>8. a[p + 1] \in 0..now
  BY <1>2, <1>3
<1>. HIDE DEF W, q, a
<1>9. q[1] \in 0..now /\ now - Length < q[1] /\ W # {} /\ q[1] = a[Min(W)]
  BY <1>4, <1>5, <1>6, <1>7, <1>8
<1>. QED  BY <1>9 DEF W, q, a

\* The advice lies between one second and the whole window.
LEMMA RetryRange ==
  ASSUME now \in Nat, NEW oldest \in 0..now, now - Length < oldest
  PROVE  /\ Retry(oldest) \in 1..Window
         /\ oldest + Length - now < (Retry(oldest) + 1) * TicksPerSecond
         /\ Retry(oldest) * TicksPerSecond <= oldest + Length - now \/ Retry(oldest) = 1
<1>1. PICK x \in Int : x = Length - (now - oldest)
  BY Sizes
<1>2. PICK T \in Nat \ {0} : T = TicksPerSecond
  BY TicksAssumption
<1>3. PICK w \in Int : w = x \div T
  BY Quotient
<1>4. T * w <= x /\ x < T * w + T
  BY <1>3, Quotient
<1>5. x > 0 /\ x <= Length /\ x = oldest + Length - now
  BY <1>1, Sizes
<1>6. Length = Window * T /\ Window \in Nat \ {0}
  BY <1>2, WindowAssumption DEF Length
<1>7. w <= Window
  <2>1. T * w <= T * Window
    BY <1>4, <1>5, <1>6
  <2>. QED  BY <1>6, <2>1
<1>8. Retry(oldest) = IF w > 1 THEN w ELSE 1
  BY <1>1, <1>2, <1>3 DEF Retry
<1>9. CASE w > 1
  <2>1. Retry(oldest) = w
    BY <1>8, <1>9
  <2>2. x < (w + 1) * T /\ w * T <= x
    BY <1>4
  <2>. QED  BY <1>2, <1>5, <1>6, <1>7, <1>9, <2>1, <2>2
<1>10. CASE ~(w > 1)
  <2>1. Retry(oldest) = 1
    BY <1>8, <1>10
  <2>2. T * w <= T
    BY <1>10
  <2>3. x < 2 * T
    BY <1>4, <2>2
  <2>. QED  BY <1>2, <1>5, <1>6, <2>1, <2>3
<1>. QED  BY <1>9, <1>10

\* Nobody's answer is an answer.
LEMMA NoAnswerType == NoAnswer \in [key : Keys, allowed : BOOLEAN, retry : 0..Window]
<1>1. (CHOOSE k \in Keys : TRUE) \in Keys
  BY KeysAssumption
<1>. QED  BY <1>1, WindowAssumption DEF NoAnswer

\* The empty instance keeps every promise.
LEMMA InitLInv == Init => LInv
<1>. SUFFICES ASSUME Init  PROVE LInv
  OBVIOUS
<1>2. now = 0 /\ now \in 0..MaxTick
  BY BoundAssumption DEF Init
<1>3. answer \in [key : Keys, allowed : BOOLEAN, retry : 0..Window]
  BY NoAnswerType DEF Init
<1>4. ASSUME NEW k \in Keys  PROVE hits[k] = <<>> /\ admitted[k] = <<>>
  BY DEF Init
<1>5. Deque(<<>>, <<>>, 0)
  <2>1. <<>> \in Seq(0..0) /\ Len(<<>>) = 0 /\ DOMAIN <<>> = {}
    BY EmptySeq
  <2>2. SubSeq(<<>>, 1, 0) = <<>>
    BY SubSeqEmpty
  <2>. QED  BY <2>1, <2>2, Sizes DEF Deque
<1>6. Within(<<>>, 0)
  <2>1. DOMAIN <<>> = {}
    BY EmptySeq
  <2>2. \A u \in 0..0 : In(<<>>, u) = {}
    BY <2>1 DEF In
  <2>3. Cardinality({}) = 0
    BY FS_EmptySet
  <2>. QED  BY <2>2, <2>3, Sizes DEF Within
<1>7. \A k \in Keys : Deque(hits[k], admitted[k], now) /\ Within(admitted[k], now)
  BY <1>2, <1>4, <1>5, <1>6
<1>8. hits = [k \in Keys |-> hits[k]] /\ admitted = [k \in Keys |-> admitted[k]]
  BY DEF Init
<1>. QED  BY <1>2, <1>3, <1>7, <1>8, ByKey

\* Every step keeps the invariant of every key.
LEMMA StepLInv ==
  ASSUME LInv, [Next]_vars
  PROVE  LInv'
<1>1. /\ now \in Nat /\ now \in 0..MaxTick
      /\ hits = [k \in Keys |-> hits[k]]
      /\ admitted = [k \in Keys |-> admitted[k]]
      /\ answer \in [key : Keys, allowed : BOOLEAN, retry : 0..Window]
      /\ \A k \in Keys : Deque(hits[k], admitted[k], now) /\ Within(admitted[k], now)
  BY ByKey, BoundAssumption
<1>2. ASSUME Tick  PROVE LInv'
  <2>1. now' = now + 1 /\ now' \in 0..MaxTick
        /\ hits' = hits /\ admitted' = admitted /\ answer' = NoAnswer
    BY <1>1, <1>2, BoundAssumption DEF Tick
  <2>2. ASSUME NEW k \in Keys
        PROVE  Deque(hits[k], admitted[k], now + 1) /\ Within(admitted[k], now + 1)
    <3>1. admitted[k] \in Seq(0..now)
      BY <1>1 DEF Deque
    <3>. QED  BY <1>1, <3>1, DequeAges, WindowAges
  <2>. HIDE DEF Deque, Within
  <2>3. \A k \in Keys : Deque(hits'[k], admitted'[k], now') /\ Within(admitted'[k], now')
    BY <2>1, <2>2
  <2>4. answer' \in [key : Keys, allowed : BOOLEAN, retry : 0..Window]
    BY <2>1, NoAnswerType
  <2>. QED  BY <1>1, <2>1, <2>3, <2>4, ByKeyNext
<1>3. ASSUME NEW k \in Keys, Check(k)  PROVE LInv'
  <2>. DEFINE q == Pruned(hits[k])
              a == admitted[k]
  <2>1. now' = now
    BY <1>3 DEF Check
  <2>2. Inv
    BY DEF LInv
  <2>3. \/ /\ Len(q) < RequestsPerMinute
           /\ Cardinality(InWindow(k, now)) < RequestsPerMinute
           /\ Admit(k, Append(q, now))
        \/ /\ Len(q) = RequestsPerMinute
           /\ Refuse(k, q)
    BY <1>3, <2>2, CheckCounts
  <2>4. Deque(q, a, now)
    <3>1. PICK p \in 0..Len(a) :
             /\ Len(a) - p <= Len(hits[k])
             /\ q = SubSeq(a, p + 1, Len(a))
             /\ \A i \in 1..p : a[i] <= now - Length
      BY <2>2, PrunedIsWindow
    <3>2. Deque(hits[k], a, now)
      BY <1>1
    <3>. QED  BY <1>1, <3>1, <3>2, DequePruned
  <2>5. a \in Seq(0..now) /\ Within(a, now) /\ InWindow(k, now) = In(a, now)
    BY <1>1 DEF Deque, InWindow, In
  <2>6. CASE /\ Len(q) < RequestsPerMinute
             /\ Cardinality(InWindow(k, now)) < RequestsPerMinute
             /\ Admit(k, Append(q, now))
    <3>1. Deque(Append(q, now), Append(a, now), now)
      BY <1>1, <2>4, <2>6, DequeAdmits
    <3>2. Within(Append(a, now), now)
      BY <1>1, <2>5, <2>6, WindowAdmits
    <3>3. /\ hits' = [hits EXCEPT ![k] = Append(q, now)]
          /\ admitted' = [admitted EXCEPT ![k] = Append(a, now)]
          /\ answer' = [key |-> k, allowed |-> TRUE, retry |-> 0]
      BY <2>6 DEF Admit
    <3>. HIDE DEF q, a
    <3>4. /\ hits' = [j \in Keys |-> hits'[j]] /\ admitted' = [j \in Keys |-> admitted'[j]]
          /\ hits'[k] = Append(q, now) /\ admitted'[k] = Append(a, now)
          /\ \A j \in Keys \ {k} : hits'[j] = hits[j] /\ admitted'[j] = admitted[j]
      BY <1>1, <3>3
    <3>5. answer' \in [key : Keys, allowed : BOOLEAN, retry : 0..Window]
      BY <3>3, WindowAssumption
    <3>6. \A j \in Keys : Deque(hits'[j], admitted'[j], now') /\ Within(admitted'[j], now')
      BY <1>1, <2>1, <3>1, <3>2, <3>4
    <3>. QED  BY <1>1, <2>1, <3>4, <3>5, <3>6, ByKeyNext
  <2>7. CASE Len(q) = RequestsPerMinute /\ Refuse(k, q)
    <3>1. /\ hits' = [hits EXCEPT ![k] = q]
          /\ admitted' = admitted
          /\ answer' = [key |-> k, allowed |-> FALSE, retry |-> Retry(q[1])]
      BY <2>7 DEF Refuse
    <3>2. Retry(q[1]) \in 1..Window
      BY <1>1, <2>2, <2>7, OldestInWindow, RetryRange
    <3>. HIDE DEF q, a
    <3>3. /\ hits' = [j \in Keys |-> hits'[j]]
          /\ hits'[k] = q
          /\ \A j \in Keys \ {k} : hits'[j] = hits[j]
      BY <1>1, <3>1
    <3>4. answer' \in [key : Keys, allowed : BOOLEAN, retry : 0..Window]
      <4>1. Retry(q[1]) \in 0..Window
        BY <3>2, WindowAssumption
      <4>. QED  BY <3>1, <4>1
    <3>5. \A j \in Keys : Deque(hits'[j], admitted'[j], now') /\ Within(admitted'[j], now')
      <4>1. Deque(q, admitted[k], now)
        BY <2>4 DEF a
      <4>. QED  BY <1>1, <2>1, <3>1, <3>3, <4>1
    <3>. QED  BY <1>1, <2>1, <3>1, <3>3, <3>4, <3>5, ByKeyNext
  <2>. QED  BY <2>3, <2>6, <2>7
<1>4. ASSUME UNCHANGED vars  PROVE LInv'
  <2>1. UNCHANGED <<now, hits, admitted, answer>>
    BY <1>4 DEF vars
  <2>2. \A k \in Keys : Deque(hits'[k], admitted'[k], now') /\ Within(admitted'[k], now')
    BY <1>1, <2>1
  <2>. QED  BY <1>1, <2>1, <2>2, ByKeyNext
<1>. QED  BY <1>2, <1>3, <1>4 DEF Next

\* The invariant of the limiter holds for ever: each key's deque is exactly what
\* of its history the window still holds.
THEOREM Limiting == Spec => []LInv
<1>1. LInv /\ [Next]_vars => LInv'
  BY StepLInv
<1>. QED  BY InitLInv, <1>1, PTL DEF Spec

\* However requests are spaced, no window of the configured length holds more
\* admissions of a key than the configured number (limits.py, check).
THEOREM WindowNeverOverrun == Spec => []WindowBound
<1>1. LInv => WindowBound
  BY DEF LInv
<1>. QED  BY Limiting, <1>1, PTL

\* Each deque is the end of the history of its key, of its type and in order.
THEOREM DequeIsHistory == Spec => []Inv
<1>1. LInv => Inv
  BY DEF LInv
<1>. QED  BY Limiting, <1>1, PTL

\* What a refusal tells of the state before it.
LEMMA Refusals ==
  ASSUME LInv, [Next]_vars, answer' # answer, ~answer'.allowed
  PROVE  \E k \in Keys :
           /\ answer' = [key |-> k, allowed |-> FALSE, retry |-> Retry(Pruned(hits[k])[1])]
           /\ Len(Pruned(hits[k])) = RequestsPerMinute
           /\ Cardinality(InWindow(k, now)) = RequestsPerMinute
<1>1. PICK k \in Keys : Check(k)
  BY DEF Next, Tick, NoAnswer, vars
<1>2. Inv
  BY DEF LInv
<1>3. ~Admit(k, Append(Pruned(hits[k]), now))
  BY DEF Admit
<1>4. /\ Len(Pruned(hits[k])) = RequestsPerMinute
      /\ Cardinality(InWindow(k, now)) = RequestsPerMinute
      /\ Refuse(k, Pruned(hits[k]))
  BY <1>1, <1>2, <1>3, CheckCounts
<1>5. answer' = [key |-> k, allowed |-> FALSE, retry |-> Retry(Pruned(hits[k])[1])]
  BY <1>4 DEF Refuse
<1>. QED  BY <1>4, <1>5

\* A request is refused only when its own key has used up its window: neither
\* another key's traffic nor an earlier refusal counts.
THEOREM RefusalsAreEarned == Spec => RefusedOnlyWhenFull
<1>1. ASSUME LInv, [Next]_vars, answer' # answer, ~answer'.allowed
      PROVE  Cardinality(InWindow(answer'.key, now)) = RequestsPerMinute
  <2>1. PICK k \in Keys :
           /\ answer' = [key |-> k, allowed |-> FALSE, retry |-> Retry(Pruned(hits[k])[1])]
           /\ Cardinality(InWindow(k, now)) = RequestsPerMinute
    BY <1>1, Refusals
  <2>2. answer'.key = k
    BY <2>1
  <2>. QED  BY <2>1, <2>2
<1>2. LInv /\ [Next]_vars =>
        [answer' # answer /\ ~answer'.allowed =>
           Cardinality(InWindow(answer'.key, now)) = RequestsPerMinute]_vars
  BY <1>1
<1>. QED  BY <1>2, Limiting, PTL DEF Spec, RefusedOnlyWhenFull

\* Retry-After falls short of the time to the next free slot by less than a
\* second, and never asks for more, save that it is at least one.
THEOREM AdviceIsClose == Spec => RetryAfterIsClose
<1>1. ASSUME LInv, [Next]_vars, answer' # answer, ~answer'.allowed
      PROVE  LET oldest == admitted[answer'.key][Min(InWindow(answer'.key, now))]
                 free   == oldest + Length - now
             IN  /\ free < (answer'.retry + 1) * TicksPerSecond
                 /\ answer'.retry * TicksPerSecond <= free \/ answer'.retry = 1
  <2>1. PICK k \in Keys :
           /\ answer' = [key |-> k, allowed |-> FALSE, retry |-> Retry(Pruned(hits[k])[1])]
           /\ Len(Pruned(hits[k])) = RequestsPerMinute
    BY <1>1, Refusals
  <2>2. answer'.key = k /\ answer'.retry = Retry(Pruned(hits[k])[1])
    BY <2>1
  <2>3. PICK oldest \in 0..now :
          /\ oldest = Pruned(hits[k])[1] /\ now - Length < oldest
          /\ oldest = admitted[k][Min(InWindow(k, now))]
    BY <1>1, <2>1, OldestInWindow DEF LInv
  <2>4. now \in Nat
    BY <1>1, BoundAssumption DEF LInv, Inv, TypeOK
  <2>5. /\ oldest + Length - now < (Retry(oldest) + 1) * TicksPerSecond
        /\ Retry(oldest) * TicksPerSecond <= oldest + Length - now \/ Retry(oldest) = 1
    BY <2>3, <2>4, RetryRange
  <2>6. answer'.retry = Retry(oldest)
    BY <2>2, <2>3
  <2>. QED  BY <2>2, <2>3, <2>5, <2>6
<1>2. LInv /\ [Next]_vars =>
        [answer' # answer /\ ~answer'.allowed =>
           LET oldest == admitted[answer'.key][Min(InWindow(answer'.key, now))]
               free   == oldest + Length - now
           IN  /\ free < (answer'.retry + 1) * TicksPerSecond
               /\ answer'.retry * TicksPerSecond <= free \/ answer'.retry = 1]_vars
  BY <1>1
<1>. QED  BY <1>2, Limiting, PTL DEF Spec, RetryAfterIsClose
=============================================================================
