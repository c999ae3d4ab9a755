-------------------------- MODULE GithubDiscovery --------------------------
(***************************************************************************)
(* GitHubAdapter.observe without a number (doneproof/adapters/github.py):  *)
(* the repository is listed page by page, newest first, the resources that *)
(* fit the constraints and were created after the run's boundary are the   *)
(* candidates, and a single candidate is read again by its number.  Other  *)
(* people use the repository between any two of these requests.            *)
(***************************************************************************)
EXTENDS Integers, Sequences, FiniteSets

CONSTANTS
  PageSize,      \* per_page
  MaxPages,      \* _MAX_DISCOVERY_PAGES
  MaxResources,  \* bound on the resources of the repository
  MaxEdits       \* bound on retitlings and deletions

Kinds == {"issue", "pull_request"}

ASSUME SizesAssumption ==
  /\ PageSize \in Nat \ {0} /\ MaxPages \in Nat \ {0}
  /\ MaxResources \in Nat /\ MaxEdits \in Nat

(***************************************************************************)
(* A resource.  created_at has whole seconds and the boundary of a         *)
(* registered run has microseconds: what is created in the second of the   *)
(* boundary, but after it, is stamped "same" and sorts before it.          *)
(***************************************************************************)
Stamps == {"before", "same", "after"}
Resources == [kind    : Kinds,
              stamp   : Stamps,
              fits    : BOOLEAN,  \* title, author and head_ref are as asked
              there   : BOOLEAN,  \* neither deleted nor transferred
              touched : BOOLEAN]  \* updated since the boundary

VARIABLES
  repo,       \* the repository: resource number i is repo[i], newest last
  edits,      \* how many retitlings and deletions there were
  wanted,     \* selector.kind
  pc,         \* the adapter: "idle", "list", "fetch" or "done"
  page,       \* the next page
  candidates, \* the candidates so far: a page and a number each
  outcome,    \* "pending", "none", "several", "unknown" or "found"
  steady,     \* history: what has fitted ever since the listing began
  whole       \* history: the listing reached its end, and nothing was deleted

vars == <<repo, edits, wanted, pc, page, candidates, outcome, steady, whole>>

Init ==
  /\ \E n \in 0..MaxResources, k \in [1..MaxResources -> Kinds], f \in BOOLEAN :
       repo = [i \in 1..n |-> [kind |-> k[i], stamp |-> "before", fits |-> f,
                               there |-> TRUE, touched |-> FALSE]]
  /\ edits = 0
  /\ wanted \in Kinds
  /\ pc = "idle"
  /\ page = 1
  /\ candidates = {}
  /\ outcome = "pending"
  /\ steady = {}
  /\ whole = FALSE

-----------------------------------------------------------------------------
(* The repository.                                                         *)

\* Somebody creates a resource; stamps never go back.
Create(kind, stamp, fits) ==
  /\ Len(repo) < MaxResources
  /\ stamp = "same" => \A i \in DOMAIN repo : repo[i].stamp # "after"
  /\ stamp # "before"
  /\ repo' = Append(repo, [kind |-> kind, stamp |-> stamp, fits |-> fits,
                           there |-> TRUE, touched |-> stamp = "after"])
  /\ UNCHANGED <<edits, wanted, pc, page, candidates, outcome, steady, whole>>

\* Somebody changes what the constraints look at.
Retitle(n) ==
  /\ edits < MaxEdits
  /\ edits' = edits + 1
  /\ repo[n].there
  /\ repo' = [repo EXCEPT ![n].fits = ~@, ![n].touched = TRUE]
  /\ steady' = steady \ {n}
  /\ UNCHANGED <<wanted, pc, page, candidates, outcome, whole>>

\* Somebody deletes or transfers an issue, and the ones below it move up.
Delete(n) ==
  /\ edits < MaxEdits
  /\ edits' = edits + 1
  /\ repo[n].there
  /\ repo[n].kind = "issue"
  /\ repo' = [repo EXCEPT ![n].there = FALSE]
  /\ steady' = steady \ {n}
  /\ whole' = FALSE
  /\ UNCHANGED <<wanted, pc, page, candidates, outcome>>

-----------------------------------------------------------------------------
(* The adapter.                                                            *)

\* /issues has the pull requests too and honours since; /pulls has neither.
Listed(n) ==
  /\ repo[n].there
  /\ IF wanted = "issue" THEN repo[n].touched ELSE repo[n].kind = "pull_request"

\* Mutant of Position: oldest first.
Position_Ascending(n) == Cardinality({m \in DOMAIN repo : m <= n /\ Listed(m)})

\* The list endpoint, newest first: a resource comes after the newer listed ones.
Position(n) == Cardinality({m \in DOMAIN repo : m >= n /\ Listed(m)})

\* The items of a page; a later page starts where this one ends only if nothing
\* is listed or unlisted in between.
Page(p) ==
  {n \in DOMAIN repo :
     Listed(n) /\ Position(n) \in ((p - 1) * PageSize + 1)..(p * PageSize)}

\* The body of the loop over a page's items.
IsCandidate(n) == repo[n].kind = wanted /\ repo[n].stamp = "after" /\ repo[n].fits

Right(n) == repo[n].kind = wanted /\ repo[n].stamp # "before" /\ repo[n].fits /\ repo[n].there

\* The listing begins.
Begin ==
  /\ pc = "idle"
  /\ pc' = "list"
  /\ steady' = {n \in DOMAIN repo : Right(n)}
  /\ whole' = TRUE
  /\ UNCHANGED <<repo, edits, wanted, page, candidates, outcome>>

\* One page is read.  A short page, an item from before the boundary or the
\* page limit ends the listing, and the number of candidates decides: one that
\* is seen on two pages counts twice.
ListPage ==
  LET items   == Page(page)
      kept    == candidates \cup ({page} \X {n \in items : IsCandidate(n)})
      reached == \E n \in items : repo[n].kind = wanted /\ repo[n].stamp # "after"
      last    == Cardinality(items) < PageSize \/ reached
      ends    == last \/ page = MaxPages
  IN  /\ pc = "list"
      /\ candidates' = kept
      /\ page' = page + 1
      /\ whole' = (whole /\ (ends => last))
      /\ outcome' = CASE ~ends -> "pending"
                      [] ends /\ Cardinality(kept) = 0 -> "none"
                      [] ends /\ Cardinality(kept) = 1 -> "pending"
                      [] OTHER -> "several"
      /\ pc' = IF ~ends THEN "list" ELSE IF Cardinality(kept) = 1 THEN "fetch" ELSE "done"
      /\ UNCHANGED <<repo, edits, wanted, steady>>

Taken == {c[2] : c \in candidates}
Found == CHOOSE n \in Taken : TRUE

\* _observe_number of the one candidate; a 404 is indeterminate.
FetchNumber ==
  /\ pc = "fetch"
  /\ outcome' = IF repo[Found].there THEN "found" ELSE "unknown"
  /\ pc' = "done"
  /\ UNCHANGED <<repo, edits, wanted, page, candidates, steady, whole>>

\* A 404, an error that outlasts resilient_get, or the engine's timeout.
GiveUp ==
  /\ pc \in {"list", "fetch"}
  /\ outcome' = "unknown"
  /\ pc' = "done"
  /\ UNCHANGED <<repo, edits, wanted, page, candidates, steady, whole>>

People ==
  \/ \E kind \in Kinds, stamp \in Stamps, fits \in BOOLEAN : Create(kind, stamp, fits)
  \/ \E n \in DOMAIN repo : Retitle(n) \/ Delete(n)

Adapter == Begin \/ ListPage \/ FetchNumber \/ GiveUp

Next == People \/ Adapter

Spec == Init /\ [][Next]_vars

-----------------------------------------------------------------------------
(* Properties.                                                             *)

\* The repository and the adapter's variables are of their types.
TypeOK ==
  /\ repo \in Seq(Resources) /\ Len(repo) <= MaxResources
  /\ edits \in 0..MaxEdits
  /\ wanted \in Kinds
  /\ pc \in {"idle", "list", "fetch", "done"}
  /\ page \in 1..(MaxPages + 1)
  /\ candidates \subseteq (1..MaxPages) \X DOMAIN repo
  /\ outcome \in {"pending", "none", "several", "unknown", "found"}
  /\ steady \subseteq DOMAIN repo
  /\ whole \in BOOLEAN

Later(S) == {n \in S : repo[n].stamp = "after"}

\* "Refusing to guess": what is found is of the kind and time asked for, and
\* when the listing was whole, nothing else of a later second has fitted all
\* along, whatever was created, retitled or deleted between two pages; and
\* nothing at all when "No GitHub resource matched".
NothingMissed ==
  /\ outcome = "found" =>
       /\ repo[Found].kind = wanted /\ repo[Found].stamp = "after"
       /\ whole => Later(steady) \subseteq {Found}
  /\ outcome = "none" /\ whole => Later(steady) = {}

\* Stamps never go back, and what is later than the boundary was touched then.
RepoOK ==
  \A i \in DOMAIN repo : repo[i].stamp = "after" =>
    /\ repo[i].touched
    /\ \A j \in i..Len(repo) : repo[j].stamp = "after"

\* While nothing is deleted, what has fitted all along is taken or still ahead:
\* whatever is listed above it only moves it to a later page.
ListingOK ==
  /\ pc = "idle" => page = 1 /\ candidates = {} /\ steady = {} /\ ~whole
  /\ pc = "list" => page <= MaxPages
  /\ pc # "done" => outcome = "pending"
  /\ \A n \in Taken : repo[n].kind = wanted /\ repo[n].stamp = "after"
  /\ \A n \in steady : Right(n)
  /\ whole /\ outcome # "unknown" => \A n \in Later(steady) :
       n \in Taken \/ (pc = "list" /\ Position(n) > (page - 1) * PageSize)
  /\ pc = "fetch" \/ outcome = "found" => \E c \in candidates : candidates = {c}
  /\ outcome = "none" => candidates = {}

\* The repository and the adapter are of their types and consistent, and the
\* outcome is right.
Inv == TypeOK /\ RepoOK /\ ListingOK /\ NothingMissed
=============================================================================
