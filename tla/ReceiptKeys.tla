---------------------------- MODULE ReceiptKeys ----------------------------
(***************************************************************************)
(* Signing keys and what a receipt proves.  An instance starts with a      *)
(* configuration (create_app in doneproof/app.py, doneproof/config.py) and *)
(* derives its key (ReceiptSigner in doneproof/signing.py), or refuses to  *)
(* serve.  Restarts rotate the key; receipts outlive it, and are checked   *)
(* against the key they carry and against a key that was pinned.           *)
(*                                                                         *)
(* Hashes and signatures are ideal: a hash is its argument, and only who   *)
(* has a key can sign with it.  A key stands for its pair, and for the     *)
(* fingerprint of its public half.                                         *)
(***************************************************************************)
EXTENDS Naturals, FiniteSets

CONSTANTS
  Instances,    \* deployments of DoneProof
  Seeds,        \* signing seeds: the base64 of 32 bytes
  NotBase64,    \* a seed that is not base64
  Short,        \* the base64 of fewer bytes
  Secrets,      \* legacy receipt keys of an operator's own
  Example,      \* "dev-only-change-me"
  BuiltIn,      \* "doneproof-development-signing-key"
  Absent,       \* a setting that is not there
  Contents,     \* what a receipt says: contract hash, verdict, results
  MaxReceipts,  \* bound on the receipts
  MaxStarts     \* bound on the starts

\* The keys there may be: of a seed, or of the sha256 of a text.
Keys == Seeds \cup Secrets \cup {Example, BuiltIn}

\* Everybody can read these two in the source.
Public == {Example, BuiltIn}

\* _startup_error_code: what a degraded instance shows.
Codes == {"configuration.invalid", "configuration.api_keys", "configuration.signing_key",
          "configuration.database_url", "startup.unavailable"}

ASSUME BoundsAssumption == MaxReceipts \in Nat /\ MaxStarts \in Nat

ASSUME KeysAssumption ==
  /\ Seeds \cap Secrets = {} /\ (Seeds \cup Secrets) \cap Public = {}
  /\ {Absent, NotBase64, Short} \cap Keys = {}
  /\ Example # BuiltIn /\ Absent \notin {NotBase64, Short} \cup Codes /\ NotBase64 # Short

\* limits: the timeout, the body and the batch size are in their ranges.
Settings == [limits : BOOLEAN, production : BOOLEAN, auth : BOOLEAN, durable : BOOLEAN,
             seed   : Seeds \cup {NotBase64, Short, Absent},
             legacy : Secrets \cup {Example, BuiltIn, Absent}]

\* The payload is the receipt without its hash and signature; a hash is the
\* payload it is of.
Payloads == [content : Contents, keyId : Keys, publicKey : Keys]
Receipts == [payload : Payloads, hash : Payloads,
             signature : [by : Keys, of : Payloads]]

VARIABLES
  settings, \* instance -> what it was last started with, or Absent
  starts,   \* how many starts there were
  store,    \* the receipts of all instances
  pinned    \* the key a reader has pinned, or Absent

vars == <<settings, starts, store, pinned>>

-----------------------------------------------------------------------------
(* Start                                                                   *)

\* Mutant of HasStableSigningKey: the example of the documentation will do.
HasStableSigningKey_Example(s) ==
  IF s.seed # Absent THEN s.seed \in Seeds ELSE s.legacy # Absent

\* Settings.has_stable_signing_key
HasStableSigningKey(s) ==
  IF s.seed # Absent THEN s.seed \in Seeds ELSE s.legacy \notin {Absent, Example}

\* The guards of create_app and then the signer's own, in their order, by the
\* code that _startup_error_code has for each.
StartupError(s) ==
  IF ~s.limits THEN "configuration.invalid"
  ELSE IF s.production /\ ~s.auth THEN "configuration.api_keys"
  ELSE IF s.production /\ ~HasStableSigningKey(s) THEN "configuration.signing_key"
  ELSE IF s.production /\ ~s.durable THEN "configuration.database_url"
  ELSE CASE s.seed = NotBase64 -> "startup.unavailable"
         [] s.seed = Short     -> "configuration.signing_key"
         [] OTHER              -> Absent

\* The seed of ReceiptSigner.__init__
KeyOf(s) ==
  IF s.seed # Absent THEN s.seed ELSE IF s.legacy # Absent THEN s.legacy ELSE BuiltIn

\* The instance serves; otherwise it is the degraded app, which only answers
\* 503 with the code.
Serves(i) == settings[i] # Absent /\ StartupError(settings[i]) = Absent

-----------------------------------------------------------------------------
(* Receipts                                                                *)

\* ReceiptSigner.sign
Sign(content, key) ==
  LET payload == [content |-> content, keyId |-> key, publicKey |-> key]
  IN  [payload |-> payload, hash |-> payload, signature |-> [by |-> key, of |-> payload]]

\* Mutant of Verify: the hash is taken for the proof.
Verify_HashOnly(r) == r.payload.publicKey = r.payload.keyId /\ r.payload = r.hash

\* ReceiptSigner.verify, by the key the receipt carries.
Verify(r) ==
  /\ r.payload.publicKey = r.payload.keyId
  /\ r.payload = r.hash
  /\ r.signature = [by |-> r.payload.publicKey, of |-> r.payload]

\* ReceiptSigner.verify_trusted and DoneProofClient.verify_receipt
VerifyTrusted(r, trusted) == r.payload.publicKey = trusted /\ Verify(r)

\* Mutant of Integrity: by the key the instance has now.
Integrity_CurrentKey(i, r) == Verify(r) /\ r.payload.publicKey = KeyOf(settings[i])

\* GET /v1/receipts/{id}/integrity, and the bundle, of instance i.
Integrity(i, r) == Serves(i) /\ Verify(r)

-----------------------------------------------------------------------------
Init ==
  /\ settings = [i \in Instances |-> Absent]
  /\ starts = 0
  /\ store = {}
  /\ pinned = Absent

\* create_runtime_app: a first start, or a restart with other settings.
Start(i, s) ==
  /\ starts < MaxStarts
  /\ starts' = starts + 1
  /\ settings' = [settings EXCEPT ![i] = s]
  /\ UNCHANGED <<store, pinned>>

\* A verification ends: engine.verify signs and the handler stores.
Issue(i, content) ==
  /\ Serves(i)
  /\ Cardinality(store) < MaxReceipts
  /\ store' = store \cup {Sign(content, KeyOf(settings[i]))}
  /\ UNCHANGED <<settings, starts, pinned>>

\* A reader pins what GET /v1/signing-key shows.
Pin(i) ==
  /\ Serves(i)
  /\ pinned' = KeyOf(settings[i])
  /\ UNCHANGED <<settings, starts, store>>

Next ==
  \E i \in Instances :
    \/ \E s \in Settings : Start(i, s)
    \/ \E content \in Contents : Issue(i, content)
    \/ Pin(i)

Spec == Init /\ [][Next]_vars

-----------------------------------------------------------------------------
(* Properties.                                                             *)

\* The settings, the receipts and the pin are of their types.
TypeOK ==
  /\ settings \in [Instances -> Settings \cup {Absent}]
  /\ starts \in 0..MaxStarts
  /\ store \subseteq Receipts /\ Cardinality(store) <= MaxReceipts
  /\ pinned \in Keys \cup {Absent}

\* "Production configuration remains fail-closed": what serves in production has
\* authentication, durable storage and a key that was configured, and not the
\* documentation's example: never the signer's fall-back.  Where a seed is set,
\* it is the key or nothing is served.  (A configured key may be any other text,
\* also the very text the signer falls back to.)
FailClosed ==
  \A i \in Instances : Serves(i) =>
    LET s == settings[i] IN
      /\ s.production => /\ s.auth /\ s.durable
                         /\ KeyOf(s) \in {s.seed, s.legacy} \ {Example}
      /\ s.seed # Absent => KeyOf(s) = s.seed

\* What serves is safely configured, and the store has receipts only.
Inv == TypeOK /\ FailClosed

\* Key rotation does not invalidate old receipts: whichever instance is asked,
\* every stored receipt is intact.
IssuedStaysValid ==
  \A i \in Instances, r \in store : Serves(i) => Integrity(i, r)

\* What a reader may have been handed: whatever can be put together without a
\* key, with the signature of a stored receipt and a hash of its own or a stored
\* one.
Copies ==
  {[payload |-> p, hash |-> h, signature |-> r.signature] :
     p \in Payloads, r \in store, h \in {x.hash : x \in store}}
  \cup {[payload |-> p, hash |-> p, signature |-> r.signature] : p \in Payloads, r \in store}

\* "Its embedded key can prove that the receipt has not changed since it was
\* signed", and by a pinned key exactly the receipts of that key are accepted,
\* before and after a rotation.
TrustedIsIssued ==
  \A x \in Copies :
    /\ Verify(x) => x \in store
    /\ pinned # Absent =>
         (VerifyTrusted(x, pinned) <=> x \in store /\ x.signature.by = pinned)
=============================================================================
