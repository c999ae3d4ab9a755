------------------------- MODULE ReceiptKeysProofs -------------------------
(***************************************************************************)
(* What receipts prove, for any number of instances, starts, receipts and  *)
(* keys: proofs about ReceiptKeys.                                         *)
(***************************************************************************)
EXTENDS ReceiptKeys, FiniteSetTheorems, TLAPS

\* The settings and the pin have their types, whatever the bounds.
Typed ==
  /\ settings \in [Instances -> Settings \cup {Absent}]
  /\ pinned \in Keys \cup {Absent}

\* Every stored receipt is what ReceiptSigner.sign makes with a key there is.
Issued == \A r \in store : \E c \in Contents, k \in Keys : r = Sign(c, k)

\* The counters stay within their bounds.
Bounded ==
  /\ starts \in 0..MaxStarts
  /\ IsFiniteSet(store) /\ Cardinality(store) \in 0..MaxReceipts

KInv == Typed /\ Issued /\ Bounded

\* What serves has settings: the guard of create_app has looked at them.
LEMMA ServesSettings ==
  ASSUME Typed, NEW i \in Instances, Serves(i)
  PROVE  settings[i] \in Settings /\ StartupError(settings[i]) = Absent
BY DEF Typed, Serves

\* The guards of create_app leave a signer only with a key there is.
LEMMA KeyThere ==
  ASSUME NEW s \in Settings, StartupError(s) = Absent
  PROVE  KeyOf(s) \in Keys
<1>1. s.seed \in Seeds \cup {NotBase64, Short, Absent} /\ s.legacy \in Secrets \cup {Example, BuiltIn, Absent}
  BY DEF Settings
<1>2. CASE s.seed = Absent
  BY <1>1, <1>2 DEF KeyOf, Keys
<1>3. CASE s.seed # Absent
  <2>1. s.seed # NotBase64 /\ s.seed # Short
    BY <1>3, KeysAssumption DEF StartupError, Codes
  <2>. QED
    BY <1>1, <1>3, <2>1 DEF KeyOf, Keys
<1>. QED
  BY <1>2, <1>3

\* Production serves only with authentication, durable storage and a key that
\* was configured, and not as the example; a seed that is set is the key.
LEMMA SafeSettings ==
  ASSUME NEW s \in Settings, StartupError(s) = Absent
  PROVE  /\ s.production => /\ s.auth /\ s.durable
                            /\ KeyOf(s) \in {s.seed, s.legacy} \ {Example}
         /\ s.seed # Absent => KeyOf(s) = s.seed
<1>1. s.seed # Absent => KeyOf(s) = s.seed
  BY DEF KeyOf
<1>2. ASSUME s.production PROVE s.auth /\ s.durable /\ HasStableSigningKey(s)
  BY <1>2, KeysAssumption DEF StartupError, Codes
<1>3. ASSUME s.production PROVE KeyOf(s) \in {s.seed, s.legacy} \ {Example}
  <2>1. HasStableSigningKey(s)
    BY <1>2, <1>3
  <2>2. CASE s.seed # Absent
    BY <2>1, <2>2, KeysAssumption DEF HasStableSigningKey, KeyOf, Public
  <2>3. CASE s.seed = Absent
    BY <2>1, <2>3 DEF HasStableSigningKey, KeyOf
  <2>. QED
    BY <2>2, <2>3
<1>. QED
  BY <1>1, <1>2, <1>3

\* Nothing served and nothing stored: the initial state satisfies the invariant.
LEMMA InitKInv == Init => KInv
BY FS_EmptySet, BoundsAssumption DEF Init, KInv, Typed, Issued, Bounded

\* Only Issue adds a receipt, and it adds what the signer makes.
LEMMA NextKInv == KInv /\ [Next]_vars => KInv'
<1> SUFFICES ASSUME KInv, [Next]_vars PROVE KInv'
  OBVIOUS
<1>1. CASE UNCHANGED vars
  BY <1>1 DEF KInv, Typed, Issued, Bounded, vars
<1>2. ASSUME NEW i \in Instances, NEW s \in Settings, Start(i, s) PROVE KInv'
  <2>1. Typed' /\ Issued'
    BY <1>2 DEF KInv, Typed, Issued, Start
  <2>2. Bounded'
    BY <1>2, BoundsAssumption DEF KInv, Bounded, Start
  <2>. QED
    BY <2>1, <2>2 DEF KInv
<1>3. ASSUME NEW i \in Instances, NEW content \in Contents, Issue(i, content) PROVE KInv'
  <2> DEFINE new == Sign(content, KeyOf(settings[i]))
  <2>1. KeyOf(settings[i]) \in Keys
    BY <1>3, ServesSettings, KeyThere DEF Issue, KInv
  <2>2. Issued'
    BY <1>3, <2>1 DEF Issue, KInv, Issued
  <2>3. IsFiniteSet(store \cup {new})
        /\ Cardinality(store \cup {new}) \in {Cardinality(store), Cardinality(store) + 1}
    BY FS_AddElement DEF KInv, Bounded
  <2>4. Bounded'
    <3>1. store' = store \cup {new} /\ Cardinality(store) < MaxReceipts /\ UNCHANGED starts
      BY <1>3 DEF Issue
    <3>. QED
      BY <2>3, <3>1, BoundsAssumption DEF KInv, Bounded
  <2>. QED
    BY <1>3, <2>2, <2>4 DEF Issue, KInv, Typed
<1>4. ASSUME NEW i \in Instances, Pin(i) PROVE KInv'
  <2>1. KeyOf(settings[i]) \in Keys
    BY <1>4, ServesSettings, KeyThere DEF Pin, KInv
  <2>. QED
    BY <1>4, <2>1 DEF Pin, KInv, Typed, Issued, Bounded
<1>. QED
  BY <1>1, <1>2, <1>3, <1>4 DEF Next

\* What engine.verify has signed and stored (engine.py, signing.py) always has
\* the signer's form, and the settings stay settings.
THEOREM KeysInvariance == Spec => []KInv
<1>. QED
  BY InitKInv, NextKInv, PTL DEF Spec

\* A receipt is of its type, and verifies by the key it carries.
LEMMA SignedVerifies ==
  ASSUME NEW c \in Contents, NEW k \in Keys
  PROVE  Sign(c, k) \in Receipts /\ Verify(Sign(c, k))
BY DEF Sign, Verify, Receipts, Payloads

\* create_app and ReceiptSigner, for any settings and through any restarts: what
\* serves in production is authenticated, durable and signs with the seed or the
\* legacy key that was configured, never with the example or a fall-back.
THEOREM ServesSafely == Spec => []Inv
<1>1. KInv => FailClosed
  BY ServesSettings, SafeSettings DEF KInv, FailClosed
<1>2. KInv => TypeOK
  BY SignedVerifies, BoundsAssumption DEF KInv, Typed, Issued, Bounded, TypeOK
<1>. QED
  BY <1>1, <1>2, KeysInvariance, PTL DEF Inv

\* GET /v1/receipts/{id}/integrity: rotating the key never invalidates a
\* receipt, on any instance.
THEOREM ReceiptsOutliveKeys == Spec => []IssuedStaysValid
<1>1. KInv => IssuedStaysValid
  BY SignedVerifies DEF KInv, Issued, IssuedStaysValid, Integrity
<1>. QED
  BY <1>1, KeysInvariance, PTL

\* Whatever is put together from stored receipts without a key, only a stored
\* receipt verifies.
LEMMA OnlyStoredVerify ==
  ASSUME Issued, NEW x \in Copies, Verify(x)
  PROVE  x \in store
<1>1. PICK p \in Payloads, r \in store :
        \E h : x = [payload |-> p, hash |-> h, signature |-> r.signature]
  BY DEF Copies
<1>2. PICK h : x = [payload |-> p, hash |-> h, signature |-> r.signature]
  BY <1>1
<1>3. PICK c \in Contents, k \in Keys : r = Sign(c, k)
  BY DEF Issued
<1>4. h = p /\ r.signature = [by |-> p.publicKey, of |-> p]
  BY <1>2 DEF Verify
<1>5. r.payload = r.signature.of /\ r.hash = r.payload
      /\ r = [payload |-> r.payload, hash |-> r.hash, signature |-> r.signature]
  BY <1>3 DEF Sign
<1>6. r.signature.of = p
  BY <1>4
<1>. QED
  BY <1>2, <1>4, <1>5, <1>6

\* ReceiptSigner.verify and verify_trusted: an unchanged receipt is what
\* verifies, and a pinned key accepts the receipts it has signed and no other,
\* before and after any rotation.
THEOREM PinnedKeyDecides == Spec => []TrustedIsIssued
<1>1. ASSUME KInv, NEW x \in Copies PROVE Verify(x) => x \in store
  BY <1>1, OnlyStoredVerify DEF KInv
<1>2. ASSUME KInv, NEW x \in Copies
      PROVE  VerifyTrusted(x, pinned) <=> x \in store /\ x.signature.by = pinned
  <2>1. ASSUME VerifyTrusted(x, pinned) PROVE x \in store /\ x.signature.by = pinned
    BY <1>1, <1>2, <2>1 DEF VerifyTrusted, Verify
  <2>2. ASSUME x \in store, x.signature.by = pinned PROVE VerifyTrusted(x, pinned)
    <3>1. PICK c \in Contents, k \in Keys : x = Sign(c, k)
      BY <1>2, <2>2 DEF KInv, Issued
    <3>. QED
      BY <2>2, <3>1, SignedVerifies DEF VerifyTrusted, Sign
  <2>. QED
    BY <2>1, <2>2
<1>3. KInv => TrustedIsIssued
  BY <1>1, <1>2 DEF TrustedIsIssued
<1>. QED
  BY <1>3, KeysInvariance, PTL
=============================================================================
