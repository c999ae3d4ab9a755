----------------------------- MODULE StoreStart -----------------------------
(***************************************************************************)
(* The start of a store on either backend (doneproof/store.py,             *)
(* Store.__init__).  A SQLite store starts as SqliteMigration says.  A     *)
(* PostgreSQL store creates its schema in one transaction: it takes an     *)
(* advisory lock, runs its CREATE ... IF NOT EXISTS statements, records    *)
(* the version and commits, and the lock goes with the transaction.        *)
(*                                                                         *)
(* IF NOT EXISTS alone is no protection in PostgreSQL: the statement looks *)
(* at what is committed, waits for another transaction that creates the    *)
(* same thing, and raises when that one has committed.                     *)
(***************************************************************************)
EXTENDS SqliteMigration

CONSTANT Statements  \* how many tables and indexes the schema has

ASSUME StatementsAssumption == Statements \in Nat \ {0}
ASSUME ProcessesAssumption == {"nobody", "orphan"} \cap Processes = {}

\* The tables and indexes by the order of their statements, and the version row.
Schema == 1..(Statements + 1)
Version == Statements + 1

\* Who may hold the advisory lock: a start, nobody, or the session that a dead
\* process has left behind.
Holders == Processes \cup {"nobody", "orphan"}

VARIABLES
  backend,  \* what the DSN selects
  made,     \* what of the schema is committed
  step,     \* the statement each start is at
  own,      \* what each start has made and not committed
  lock,     \* who holds the advisory lock
  lost      \* history: the processes whose last start lost its connection

pgvars == <<made, step, own, lock, lost>>
storevars == <<vars, backend, pgvars>>

PgStarting == {"start", "lock", "look", "make", "commit"}

StoreInit ==
  /\ Init
  /\ backend \in {"sqlite", "postgresql"}
  /\ backend = "postgresql" => contracts = None
  /\ made \in {{}} \cup {S \in {Schema} : backend = "postgresql"}
  /\ step = [p \in Processes |-> 1]
  /\ own = [p \in Processes |-> {}]
  /\ lock = "nobody"
  /\ lost = {}

-----------------------------------------------------------------------------
\* A move of a PostgreSQL start to another place.
PgGoto(p, label) == Goto(p, label) /\ UNCHANGED <<contracts, legacy, deaths, cut, committed>>

\* The transaction of p ends without a commit; its lock goes to whom.
RollBack(p, whom) ==
  /\ own' = [own EXCEPT ![p] = {}]
  /\ lock' = IF lock = p THEN whom ELSE lock
  /\ UNCHANGED <<made, step>>

\* _pg_connect
Connect(p) ==
  /\ pc[p] = "start"
  /\ PgGoto(p, "lock")
  /\ UNCHANGED pgvars

\* Mutant of Lock: nobody is waited for.
Lock_Free(p) ==
  /\ pc[p] = "lock"
  /\ lock' = p
  /\ step' = [step EXCEPT ![p] = 1]
  /\ PgGoto(p, "look")
  /\ UNCHANGED <<made, own, lost>>

\* pg_advisory_xact_lock waits for its holder.
Lock(p) == lock = "nobody" /\ Lock_Free(p)

\* IF NOT EXISTS and ON CONFLICT look at what is committed, and at what is p's own.
Look(p) ==
  /\ pc[p] = "look"
  /\ IF step[p] \in made
       THEN /\ step' = [step EXCEPT ![p] = @ + 1]
            /\ PgGoto(p, IF step[p] = Version THEN "commit" ELSE "look")
       ELSE PgGoto(p, "make") /\ UNCHANGED step
  /\ UNCHANGED <<made, own, lock, lost>>

\* Mutant of Make: each statement commits on its own.
Make_Autocommit(p) ==
  /\ pc[p] = "make"
  /\ made' = made \cup {step[p]}
  /\ step' = [step EXCEPT ![p] = @ + 1]
  /\ PgGoto(p, IF step[p] = Version THEN "commit" ELSE "look")
  /\ UNCHANGED <<own, lock, lost>>

\* The statement waits for another transaction that has made the same thing.
\* When that has committed a CREATE raises, and the version's INSERT does nothing.
Make(p) ==
  /\ pc[p] = "make"
  /\ \A q \in Processes \ {p} : step[p] \notin own[q]
  /\ IF step[p] \in made /\ step[p] # Version
       THEN Fail(p) /\ RollBack(p, "nobody") /\ UNCHANGED lost
       ELSE /\ own' = [own EXCEPT ![p] = @ \cup ({step[p]} \ made)]
            /\ step' = [step EXCEPT ![p] = @ + 1]
            /\ PgGoto(p, IF step[p] = Version THEN "commit" ELSE "look")
            /\ UNCHANGED <<made, lock, lost>>

\* The end of the with block.
Commit(p) ==
  /\ pc[p] = "commit"
  /\ made' = made \cup own[p]
  /\ own' = [own EXCEPT ![p] = {}]
  /\ lock' = "nobody"
  /\ PgGoto(p, "serving")
  /\ UNCHANGED <<step, lost>>

\* The connection is refused or breaks: the start raises, once per life.
LoseConnection(p) ==
  /\ pc[p] \in PgStarting
  /\ Fail(p)
  /\ RollBack(p, "nobody")
  /\ lost' = lost \cup {p}

\* A process dies and is started again; the server keeps its session, with the
\* lock, until it notices.
PgDie(p) ==
  /\ Die(p)
  /\ RollBack(p, "orphan")
  /\ lost' = lost \ {p}

\* PostgreSQL ends the session of a dead process.
Reap ==
  /\ lock = "orphan"
  /\ lock' = "nobody"
  /\ UNCHANGED <<vars, made, step, own, lost>>

-----------------------------------------------------------------------------
PgStartUp(p) == Connect(p) \/ Lock(p) \/ Look(p) \/ Make(p) \/ Commit(p)

PgNext == Reap \/ \E p \in Processes : PgStartUp(p) \/ LoseConnection(p) \/ PgDie(p)

\* Store.__init__: the DSN decides.
StoreNext ==
  /\ UNCHANGED backend
  /\ \/ backend = "sqlite" /\ Next /\ UNCHANGED pgvars
     \/ backend = "postgresql" /\ PgNext

\* A started process runs on, and PostgreSQL ends sessions whose client is gone.
StoreSpec ==
  /\ StoreInit
  /\ [][StoreNext]_storevars
  /\ \A p \in Processes :
       /\ WF_storevars(backend = "sqlite" /\ StartUp(p) /\ UNCHANGED <<backend, pgvars>>)
       /\ WF_storevars(backend = "postgresql" /\ PgStartUp(p) /\ UNCHANGED backend)
  /\ WF_storevars(backend = "postgresql" /\ Reap /\ UNCHANGED backend)

-----------------------------------------------------------------------------
(* Properties.                                                             *)

\* Every variable is of its type, on either backend.
StoreTypeOK ==
  /\ backend = "sqlite" => TypeOK
  /\ backend = "postgresql" => pc \in [Processes -> PgStarting \cup {"serving", "degraded"}]
  /\ made \subseteq Schema
  /\ step \in [Processes -> 1..(Version + 1)]
  /\ own \in [Processes -> SUBSET Schema]
  /\ lock \in Holders
  /\ lost \subseteq Processes

\* The schema of PostgreSQL is there as a whole or not at all, wherever a start
\* dies, and it is there when somebody serves.
SchemaIsWhole ==
  backend = "postgresql" =>
    /\ made \in {{}, Schema}
    /\ (\E p \in Processes : pc[p] = "serving") => made = Schema

\* Processes that start at one SQLite file never knock each other all out: as
\* long as they get, one of them is not degraded.
SomebodyIsLeft ==
  backend = "sqlite" /\ Processes # {} => \E p \in Processes : pc[p] # "degraded"

\* A PostgreSQL start is degraded by its own connection only, never by another
\* start; and whoever has the lock is at a statement that waits for nobody.
NobodyIsPutOut ==
  backend = "postgresql" =>
    /\ \A p \in Processes : pc[p] = "degraded" => p \in lost
    /\ \A p \in Processes : lock = p =>
         /\ pc[p] \in {"look", "make", "commit"}
         /\ \A q \in Processes \ {p} : own[q] = {}

\* The variables are of their types, the schema is never half there, and starts
\* do not end each other.
StoreInv == StoreTypeOK /\ SchemaIsWhole /\ SomebodyIsLeft /\ NobodyIsPutOut

\* docs/DEPLOYMENT.md: "concurrent serverless cold starts cannot race the initial
\* schema bootstrap": once nobody dies any more, every PostgreSQL start serves or
\* has lost its connection; none is degraded by another one, and none waits for
\* ever for a lock whose holder is gone.
EverybodyServes ==
  backend = "postgresql" => <>[](\A p \in Processes : pc[p] = "serving" \/ p \in lost)

\* Processes that start at one SQLite file may knock each other out, but once
\* nobody dies any more one of them serves: no half-done migration keeps all
\* of them degraded.
SomebodyServes ==
  backend = "sqlite" => <>[](\E p \in Processes : pc[p] = "serving")
=============================================================================
