-------------------------- MODULE SqliteMigration --------------------------
(***************************************************************************)
(* The start of a SQLite store (doneproof/store.py, _init_sqlite): the     *)
(* tables are created, a missing column is added, and a contracts table    *)
(* whose primary key is the bare id is rebuilt with (tenant_id, id).       *)
(*                                                                         *)
(* executescript runs in autocommit mode, and so does the DDL of execute:  *)
(* each statement commits on its own.  A process can die between any two,  *)
(* is started again, and may find another one at the same file.            *)
(***************************************************************************)
EXTENDS Integers, FiniteSets

CONSTANTS
  Processes,
  Tenants,      \* workspaces
  Default,      \* the workspace of rows that have none
  Ids,          \* contract ids
  MaxDeaths     \* bound on the deaths of processes

ASSUME DefaultAssumption == Default \in Tenants
ASSUME DeathsAssumption == MaxDeaths \in Nat

\* A row of contracts; origin tells apart the content of two contracts.
Rows == [tenant : Tenants, id : Ids, origin : {"legacy", "new"}]

\* A table: its primary key, whether it has tenant_id, and its rows.
Tables == [key : {"id", "tenant_id, id"}, scoped : BOOLEAN, rows : SUBSET Rows]

\* A table that is not there, as a set without elements; else a singleton.
None == {}
Slots == {None} \cup {{t} : t \in Tables}

VARIABLES
  contracts,  \* the table contracts
  legacy,     \* the table contracts_legacy_global_pk
  pc,         \* where each process is
  deaths,     \* how often a process has died
  cut,        \* history: a process ended between its rename and its drop
  committed   \* history: every row that was ever committed to contracts

vars == <<contracts, legacy, pc, deaths, cut, committed>>

Migrating == {"create", "copy", "drop"}
Starting == {"start", "column", "alter", "key", "rename"} \cup Migrating

Exists(slot) == slot # None
Table(slot) == CHOOSE t \in slot : TRUE
RowsOf(slot) == UNION {t.rows : t \in slot}

Scoped == [key |-> "tenant_id, id", scoped |-> TRUE, rows |-> {}]

\* The tables of earlier releases: ids are unique, and rows written before
\* workspaces existed have no tenant, which reads as the default one.
LegacyRows == {R \in SUBSET [tenant : Tenants, id : Ids, origin : {"legacy"}] :
                 \A x, y \in R : x.id = y.id => x = y}

OldTables == {[key |-> "id", scoped |-> s, rows |-> R] :
                s \in BOOLEAN, R \in LegacyRows}

Init ==
  /\ \/ contracts = None
     \/ \E t \in OldTables :
          /\ t.scoped \/ \A x \in t.rows : x.tenant = Default
          /\ contracts = {t}
  /\ legacy = None
  /\ pc = [p \in Processes |-> "start"]
  /\ deaths = 0
  /\ cut = FALSE
  /\ committed = RowsOf(contracts)

-----------------------------------------------------------------------------
Goto(p, label) == pc' = [pc EXCEPT ![p] = label]

\* A statement that raises: create_runtime_app answers 503 from then on, until
\* the process is started again.
Fail(p) ==
  /\ Goto(p, "degraded")
  /\ cut' = (cut \/ pc[p] \in Migrating)
  /\ UNCHANGED <<contracts, legacy, deaths, committed>>

\* The CREATE TABLE IF NOT EXISTS script.
CreateTables(p) ==
  /\ pc[p] = "start"
  /\ contracts' = IF Exists(contracts) THEN contracts ELSE {Scoped}
  /\ Goto(p, "column")
  /\ UNCHANGED <<legacy, deaths, cut, committed>>

\* Mutant of CheckColumn: the column is added without looking.
CheckColumn_Always(p) ==
  /\ pc[p] = "column"
  /\ Goto(p, "alter")
  /\ UNCHANGED <<contracts, legacy, deaths, cut, committed>>

\* _add_column_if_missing: PRAGMA table_info of a missing table is empty.
CheckColumn(p) ==
  /\ pc[p] = "column"
  /\ Goto(p, IF \E t \in contracts : t.scoped THEN "key" ELSE "alter")
  /\ UNCHANGED <<contracts, legacy, deaths, cut, committed>>

AddColumn(p) ==
  /\ pc[p] = "alter"
  /\ IF \E t \in contracts : ~t.scoped
       THEN /\ contracts' = {[Table(contracts) EXCEPT !.scoped = TRUE]}
            /\ Goto(p, "key")
            /\ UNCHANGED <<legacy, deaths, cut, committed>>
       ELSE Fail(p)

\* Mutant of CheckKey: a table that has the column counts as migrated.
CheckKey_ByColumn(p) ==
  /\ pc[p] = "key"
  /\ Goto(p, IF \E t \in contracts : ~t.scoped THEN "rename" ELSE "serving")
  /\ UNCHANGED <<contracts, legacy, deaths, cut, committed>>

\* _migrate_contract_primary_key: anything but a key of just id is left alone.
CheckKey(p) ==
  /\ pc[p] = "key"
  /\ Goto(p, IF \E t \in contracts : t.key = "id" THEN "rename" ELSE "serving")
  /\ UNCHANGED <<contracts, legacy, deaths, cut, committed>>

\* The contracts table gets the name contracts_legacy_global_pk.
TakeName(p) ==
  /\ legacy' = contracts
  /\ contracts' = None
  /\ Goto(p, "create")
  /\ UNCHANGED <<deaths, cut, committed>>

\* Mutant of Rename: a table left behind is dropped first.
Rename_DropsStale(p) ==
  pc[p] = "rename" /\ IF Exists(contracts) THEN TakeName(p) ELSE Fail(p)

\* ALTER TABLE contracts RENAME TO contracts_legacy_global_pk
Rename(p) ==
  /\ pc[p] = "rename"
  /\ IF Exists(contracts) /\ ~Exists(legacy) THEN TakeName(p) ELSE Fail(p)

\* CREATE TABLE contracts
CreateScoped(p) ==
  /\ pc[p] = "create"
  /\ IF Exists(contracts)
       THEN Fail(p)
       ELSE /\ contracts' = {Scoped}
            /\ Goto(p, "copy")
            /\ UNCHANGED <<legacy, deaths, cut, committed>>

Clash(R, S) == \E x \in R, y \in S : x.tenant = y.tenant /\ x.id = y.id

\* All rows or, when a key clashes or a table is missing, none.
Insert(p, rows) ==
  /\ pc[p] = "copy"
  /\ IF Exists(contracts) /\ Exists(legacy) /\ ~Clash(RowsOf(contracts), rows)
       THEN /\ contracts' = {[Table(contracts) EXCEPT !.rows = @ \cup rows]}
            /\ Goto(p, "drop")
            /\ UNCHANGED <<legacy, deaths, cut, committed>>
       ELSE Fail(p)

\* Mutant of Copy: the rows are given to the default workspace.
Copy_Default(p) == Insert(p, {[x EXCEPT !.tenant = Default] : x \in RowsOf(legacy)})

\* INSERT INTO contracts ... SELECT ... FROM contracts_legacy_global_pk
Copy(p) == Insert(p, RowsOf(legacy))

\* DROP TABLE contracts_legacy_global_pk
Drop(p) ==
  /\ pc[p] = "drop"
  /\ IF Exists(legacy)
       THEN /\ legacy' = None
            /\ Goto(p, "serving")
            /\ UNCHANGED <<contracts, deaths, cut, committed>>
       ELSE Fail(p)

\* store.save_contract by a process that serves: nothing is written when the
\* table is missing or the key is taken.
Save(p, t, i) ==
  LET row == [tenant |-> t, id |-> i, origin |-> "new"] IN
  /\ pc[p] = "serving"
  /\ Exists(contracts)
  /\ \A x \in RowsOf(contracts) :
       x.id # i \/ (x.tenant # t /\ Table(contracts).key # "id")
  /\ contracts' = {[Table(contracts) EXCEPT !.rows = @ \cup {row}]}
  /\ committed' = committed \cup {row}
  /\ UNCHANGED <<legacy, pc, deaths, cut>>

\* The process dies and is started again.
Die(p) ==
  /\ deaths < MaxDeaths
  /\ deaths' = deaths + 1
  /\ Goto(p, "start")
  /\ cut' = (cut \/ pc[p] \in Migrating)
  /\ UNCHANGED <<contracts, legacy, committed>>

StartUp(p) ==
  \/ CreateTables(p) \/ CheckColumn(p) \/ AddColumn(p) \/ CheckKey(p)
  \/ Rename(p) \/ CreateScoped(p) \/ Copy(p) \/ Drop(p)

Next ==
  \E p \in Processes :
    StartUp(p) \/ Die(p) \/ \E t \in Tenants, i \in Ids : Save(p, t, i)

Spec == Init /\ [][Next]_vars

-----------------------------------------------------------------------------
(* Properties.                                                             *)

\* Every table and process is of its type, and both tables keep their key.
TypeOK ==
  /\ contracts \in Slots
  /\ legacy \in Slots
  /\ \A t \in contracts \cup legacy, x, y \in RowsOf(contracts) \cup RowsOf(legacy) :
       {x, y} \subseteq t.rows /\ x.id = y.id =>
         x = y \/ (x.tenant # y.tenant /\ t.key # "id")
  /\ pc \in [Processes -> Starting \cup {"serving", "degraded"}]
  /\ deaths \in 0..MaxDeaths
  /\ cut \in BOOLEAN
  /\ committed \subseteq Rows

\* No row that was ever committed is destroyed, whoever dies and whichever
\* processes start at once: it is in one of the two tables.
NothingDestroyed == committed \subseteq RowsOf(contracts) \cup RowsOf(legacy)

\* When nobody is migrating, and nobody was cut short while migrating, every
\* row is where the store reads it, under the workspace it was written for.
MigrationKeepsAll ==
  ~cut /\ (\A p \in Processes : pc[p] \notin Migrating) =>
    committed \subseteq RowsOf(contracts)

\* A process that serves finds either no table or one with the scoped key:
\* two workspaces can use one id.
ServedIsScoped ==
  (\E p \in Processes : pc[p] = "serving") =>
    \A t \in contracts : t.key = "tenant_id, id" /\ t.scoped

\* store.py: "upgrade legacy global contract IDs ... without losing data": with
\* nobody migrating, a process that serves reads every row.
ServedIsComplete ==
  (\A p \in Processes : pc[p] = "serving") => committed \subseteq RowsOf(contracts)
=============================================================================
