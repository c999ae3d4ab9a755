-------------------------- MODULE StoreStartProofs --------------------------
(***************************************************************************)
(* What the start of a store keeps, for any number of processes, deaths,   *)
(* rows and statements: proofs about StoreStart and SqliteMigration.       *)
(***************************************************************************)
EXTENDS StoreStart, TLAPS

(***************************************************************************)
(* SQLite.                                                                 *)
(***************************************************************************)

\* Where the start of a SQLite store may be.
Places == Starting \cup {"serving", "degraded"}

\* A table keeps its key, and the scoped key comes with its column.
Keyed(t) ==
  /\ t.key # "id" => t.scoped
  /\ \A x, y \in t.rows : x.id = y.id => x = y \/ (x.tenant # y.tenant /\ t.key # "id")

\* Every variable is of its type and every table keeps its key.
Tidy ==
  /\ contracts \in Slots /\ legacy \in Slots
  /\ \A t \in contracts \cup legacy : Keyed(t)
  /\ pc \in [Processes -> Places]
  /\ deaths \in 0..MaxDeaths
  /\ cut \in BOOLEAN
  /\ committed \subseteq Rows

\* One process migrates at a time, and the old table is there as long as it
\* does; otherwise it is there only when somebody was cut short.
OneMigrates ==
  /\ \A p \in Processes : pc[p] \in Migrating =>
       Exists(legacy) /\ \A q \in Processes : pc[q] \in Migrating => p = q
  /\ Exists(legacy) /\ ~cut => \E p \in Processes : pc[p] \in Migrating

\* A table with the bare key is never made: once it is out of the way, or was
\* found to be, it does not come back.
BareKeyIsPast ==
  Exists(legacy) \/ (\E p \in Processes : pc[p] = "serving") =>
    \A t \in contracts : t.key # "id"

\* What is about to be dropped is copied.
CopiedFirst == \A p \in Processes : pc[p] = "drop" => RowsOf(legacy) \subseteq RowsOf(contracts)

FileInv == Tidy /\ OneMigrates /\ BareKeyIsPast /\ CopiedFirst /\ NothingDestroyed

\* A slot holds a table or nothing.
LEMMA SlotTable ==
  ASSUME NEW slot \in Slots
  PROVE  \/ slot = None /\ RowsOf(slot) = {}
         \/ \E t \in Tables : slot = {t} /\ Table(slot) = t /\ RowsOf(slot) = t.rows
<1>1. CASE slot = {}
  BY <1>1 DEF None, RowsOf
<1>2. ASSUME NEW t \in Tables, slot = {t}
      PROVE  Table(slot) = t /\ RowsOf(slot) = t.rows
  BY <1>2 DEF Table, RowsOf
<1>. QED
  BY <1>1, <1>2 DEF Slots, None

\* A statement that looks, fails or ends a process leaves both tables alone:
\* it keeps the invariant unless it goes on with a migration or serves.
LEMMA Elsewhere ==
  ASSUME FileInv, NEW p \in Processes, NEW label \in Places, Goto(p, label),
         label \notin Migrating \cup {"serving"}, deaths' \in 0..MaxDeaths,
         cut' = (cut \/ pc[p] \in Migrating),
         UNCHANGED <<contracts, legacy, committed>>
  PROVE  FileInv'
<1>1. /\ pc' \in [Processes -> Places]
      /\ pc'[p] = label /\ \A q \in Processes \ {p} : pc'[q] = pc[q]
  BY DEF Goto, FileInv, Tidy
<1>2. Tidy' /\ NothingDestroyed'
  BY <1>1 DEF FileInv, Tidy, NothingDestroyed, Keyed, RowsOf
<1>3. OneMigrates'
  <2>1. \A q \in Processes : pc'[q] \in Migrating => pc[q] \in Migrating
    BY <1>1
  <2>2. ASSUME Exists(legacy), ~cut' PROVE \E q \in Processes : pc'[q] \in Migrating
    BY <1>1, <2>2 DEF FileInv, Tidy, OneMigrates
  <2>. QED
    BY <2>1, <2>2 DEF FileInv, OneMigrates, Exists
<1>4. BareKeyIsPast' /\ CopiedFirst'
  <2>1. \A q \in Processes : /\ pc'[q] = "serving" => pc[q] = "serving"
                             /\ pc'[q] = "drop" => pc[q] = "drop"
    BY <1>1 DEF Migrating
  <2>. QED
    BY <2>1 DEF FileInv, BareKeyIsPast, CopiedFirst, Exists, RowsOf
<1>. QED
  BY <1>2, <1>3, <1>4 DEF FileInv

\* A statement that raises keeps the invariant.
LEMMA FailKeeps ==
  ASSUME FileInv, NEW p \in Processes, Fail(p)
  PROVE  FileInv'
<1>1. "degraded" \in Places /\ "degraded" \notin Migrating \cup {"serving"}
  BY DEF Migrating, Places
<1>2. /\ Goto(p, "degraded") /\ cut' = (cut \/ pc[p] \in Migrating)
      /\ UNCHANGED <<contracts, legacy, committed>> /\ deaths' \in 0..MaxDeaths
  BY DEF Fail, FileInv, Tidy
<1>. QED
  BY <1>1, <1>2, Elsewhere

\* A process that dies starts again, and keeps the invariant.
LEMMA DieKeeps ==
  ASSUME FileInv, NEW p \in Processes, Die(p)
  PROVE  FileInv'
<1>1. "start" \in Places /\ "start" \notin Migrating \cup {"serving"}
  BY DEF Migrating, Places, Starting
<1>2. /\ Goto(p, "start") /\ cut' = (cut \/ pc[p] \in Migrating)
      /\ UNCHANGED <<contracts, legacy, committed>> /\ deaths' \in 0..MaxDeaths
  BY DeathsAssumption DEF Die, FileInv, Tidy
<1>. QED
  BY <1>1, <1>2, Elsewhere

\* A statement that changes the table contracts, and neither the old table nor
\* who migrates, keeps the invariant when it keeps the rows and the key.
LEMMA TableKeeps ==
  ASSUME FileInv, NEW p \in Processes, NEW label \in Places,
         pc' = [pc EXCEPT ![p] = label],
         label \in Migrating <=> pc[p] \in Migrating,
         label = "serving" => pc[p] = "serving",
         label = "drop" => RowsOf(legacy) \subseteq RowsOf(contracts)',
         NEW t \in Tables, contracts' = {t}, Keyed(t),
         RowsOf(contracts) \subseteq t.rows,
         t.key = "id" => \E u \in contracts : u.key = "id",
         committed' \subseteq Rows,
         committed' \subseteq committed \cup t.rows,
         UNCHANGED <<legacy, deaths, cut>>
  PROVE  FileInv'
<1>1. /\ pc' \in [Processes -> Places]
      /\ pc'[p] = label /\ \A q \in Processes \ {p} : pc'[q] = pc[q]
  BY DEF FileInv, Tidy
<1>2. RowsOf(contracts)' = t.rows /\ RowsOf(legacy)' = RowsOf(legacy)
  BY DEF RowsOf
<1>3. Tidy'
  <2>1. contracts' \in Slots
    BY DEF Slots
  <2>2. Keyed(t)' <=> Keyed(t)
    BY DEF Keyed
  <2>. QED
    BY <1>1, <2>1 DEF FileInv, Tidy, Keyed
<1>4. NothingDestroyed'
  BY <1>2 DEF FileInv, NothingDestroyed
<1>5. OneMigrates'
  <2>1. \A q \in Processes : pc'[q] \in Migrating <=> pc[q] \in Migrating
    BY <1>1
  <2>. QED
    BY <2>1 DEF FileInv, OneMigrates, Exists
<1>6. BareKeyIsPast'
  <2>1. \A q \in Processes : pc'[q] = "serving" => pc[q] = "serving"
    BY <1>1
  <2>. QED
    BY <2>1 DEF FileInv, BareKeyIsPast, Exists
<1>7. CopiedFirst'
  BY <1>1, <1>2 DEF FileInv, CopiedFirst
<1>. QED
  BY <1>3, <1>4, <1>5, <1>6, <1>7 DEF FileInv

\* The first script makes a missing table with the scoped key.
LEMMA CreateTablesKeeps ==
  ASSUME FileInv, NEW p \in Processes, CreateTables(p)
  PROVE  FileInv'
<1>1. "column" \in Places /\ "column" \notin Migrating \cup {"serving", "drop"} /\ "start" \notin Migrating
  BY DEF Migrating, Places, Starting
<1>2. CASE Exists(contracts)
  BY <1>1, <1>2, Elsewhere DEF CreateTables, FileInv, Tidy
<1>3. CASE ~Exists(contracts)
  <2>1. Scoped \in Tables /\ Keyed(Scoped) /\ Scoped.key # "id"
    BY DEF Scoped, Tables, Keyed
  <2>2. RowsOf(contracts) = {}
    BY <1>3 DEF Exists, None, RowsOf
  <2>. QED
    BY <1>1, <1>3, <2>1, <2>2, TableKeeps DEF CreateTables, FileInv, Tidy, Goto
<1>. QED
  BY <1>2, <1>3

\* Looking for the column changes no table.
LEMMA CheckColumnKeeps ==
  ASSUME FileInv, NEW p \in Processes, CheckColumn(p)
  PROVE  FileInv'
<1> DEFINE label == IF \E t \in contracts : t.scoped THEN "key" ELSE "alter"
<1>1. label \in Places /\ label \notin Migrating \cup {"serving"} /\ "column" \notin Migrating
  BY DEF Migrating, Places, Starting
<1>2. /\ Goto(p, label) /\ pc[p] = "column" /\ cut \in BOOLEAN /\ deaths' \in 0..MaxDeaths
      /\ UNCHANGED <<contracts, legacy, deaths, cut, committed>>
  BY DEF CheckColumn, FileInv, Tidy
<1>. QED
  BY <1>1, <1>2, Elsewhere

\* The column is added with the rows and the key kept.
LEMMA AddColumnKeeps ==
  ASSUME FileInv, NEW p \in Processes, AddColumn(p)
  PROVE  FileInv'
<1>1. CASE \E t \in contracts : ~t.scoped
  <2>1. PICK t \in Tables : contracts = {t} /\ Table(contracts) = t /\ RowsOf(contracts) = t.rows
    BY <1>1, SlotTable DEF None, FileInv, Tidy
  <2> DEFINE new == [t EXCEPT !.scoped = TRUE]
  <2>2. new \in Tables /\ new.rows = t.rows /\ new.key = t.key /\ Keyed(new)
    BY <2>1 DEF Tables, Keyed, FileInv, Tidy
  <2>3. "key" \in Places /\ "key" \notin Migrating \cup {"serving", "drop"} /\ "alter" \notin Migrating
    BY DEF Migrating, Places, Starting
  <2>4. /\ pc[p] = "alter" /\ contracts' = {new} /\ pc' = [pc EXCEPT ![p] = "key"]
        /\ UNCHANGED <<legacy, deaths, cut, committed>>
    BY <1>1, <2>1 DEF AddColumn, Goto
  <2>. QED
    BY <2>1, <2>2, <2>3, <2>4, TableKeeps DEF FileInv, Tidy
<1>2. CASE ~\E t \in contracts : ~t.scoped
  BY <1>2, FailKeeps DEF AddColumn
<1>. QED
  BY <1>1, <1>2

\* A process that finds no bare key serves, and there will be none.
LEMMA CheckKeyKeeps ==
  ASSUME FileInv, NEW p \in Processes, CheckKey(p)
  PROVE  FileInv'
<1>1. /\ pc[p] = "key" /\ "key" \notin Migrating
      /\ UNCHANGED <<contracts, legacy, deaths, cut, committed>>
  BY DEF CheckKey, Migrating
<1>2. CASE \E t \in contracts : t.key = "id"
  <2>1. Goto(p, "rename") /\ "rename" \in Places /\ "rename" \notin Migrating \cup {"serving"}
    BY <1>2 DEF CheckKey, Migrating, Places, Starting
  <2>. QED
    BY <1>1, <2>1, Elsewhere DEF FileInv, Tidy
<1>3. CASE ~\E t \in contracts : t.key = "id"
  <2>1. pc' = [pc EXCEPT ![p] = "serving"] /\ "serving" \in Places /\ "serving" \notin Migrating
    BY <1>3 DEF CheckKey, Goto, Migrating, Places
  <2>2. \A q \in Processes : /\ pc'[q] \in Migrating <=> pc[q] \in Migrating
                             /\ pc'[q] = "drop" => pc[q] = "drop"
    BY <1>1, <2>1 DEF FileInv, Tidy
  <2>3. Tidy' /\ NothingDestroyed'
    BY <1>1, <2>1 DEF FileInv, Tidy, Keyed, NothingDestroyed, RowsOf
  <2>4. OneMigrates' /\ CopiedFirst'
    BY <1>1, <2>2 DEF FileInv, OneMigrates, CopiedFirst, Exists, RowsOf
  <2>5. BareKeyIsPast'
    BY <1>1, <1>3 DEF BareKeyIsPast
  <2>. QED
    BY <2>3, <2>4, <2>5 DEF FileInv
<1>. QED
  BY <1>2, <1>3

\* The rename needs the name to be free: nobody else is migrating then.
LEMMA RenameKeeps ==
  ASSUME FileInv, NEW p \in Processes, Rename(p)
  PROVE  FileInv'
<1>1. CASE Exists(contracts) /\ ~Exists(legacy)
  <2>1. /\ pc[p] = "rename" /\ pc' = [pc EXCEPT ![p] = "create"]
        /\ legacy' = contracts /\ contracts' = None
        /\ UNCHANGED <<deaths, cut, committed>>
    BY <1>1 DEF Rename, TakeName, Goto
  <2>2. \A q \in Processes : pc[q] \notin Migrating
    BY <1>1 DEF FileInv, OneMigrates
  <2>3. /\ pc' \in [Processes -> Places]
        /\ pc'[p] = "create" /\ \A q \in Processes \ {p} : pc'[q] = pc[q]
    BY <2>1 DEF FileInv, Tidy, Places, Starting, Migrating
  <2>4. RowsOf(contracts)' = {} /\ RowsOf(legacy)' = RowsOf(contracts) /\ RowsOf(legacy) = {}
    BY <1>1, <2>1 DEF RowsOf, None, Exists
  <2>5. Tidy' /\ NothingDestroyed'
    <3>1. None \in Slots
      BY DEF Slots
    <3>. QED
      BY <2>1, <2>3, <2>4, <3>1 DEF FileInv, Tidy, Keyed, NothingDestroyed, None
  <2>6. OneMigrates' /\ BareKeyIsPast' /\ CopiedFirst'
    BY <1>1, <2>1, <2>2, <2>3 DEF OneMigrates, BareKeyIsPast, CopiedFirst, Exists, None, Migrating
  <2>. QED
    BY <2>5, <2>6 DEF FileInv
<1>2. CASE ~(Exists(contracts) /\ ~Exists(legacy))
  BY <1>2, FailKeeps DEF Rename
<1>. QED
  BY <1>1, <1>2

\* The new table is empty and has the scoped key.
LEMMA CreateScopedKeeps ==
  ASSUME FileInv, NEW p \in Processes, CreateScoped(p)
  PROVE  FileInv'
<1>1. CASE Exists(contracts)
  BY <1>1, FailKeeps DEF CreateScoped
<1>2. CASE ~Exists(contracts)
  <2>1. Scoped \in Tables /\ Keyed(Scoped) /\ Scoped.key # "id"
    BY DEF Scoped, Tables, Keyed
  <2>2. RowsOf(contracts) = {}
    BY <1>2 DEF Exists, None, RowsOf
  <2>3. "copy" \in Places /\ {"create", "copy"} \subseteq Migrating /\ "copy" \notin {"drop", "serving"}
    BY DEF Migrating, Places, Starting
  <2>. QED
    BY <1>2, <2>1, <2>2, <2>3, TableKeeps DEF CreateScoped, FileInv, Tidy, Goto
<1>. QED
  BY <1>1, <1>2

\* The copy keeps the key: a clash makes it raise as a whole.
LEMMA CopyKeeps ==
  ASSUME FileInv, NEW p \in Processes, Copy(p)
  PROVE  FileInv'
<1> DEFINE free == Exists(contracts) /\ Exists(legacy) /\ ~Clash(RowsOf(contracts), RowsOf(legacy))
<1>1. CASE free
  <2>1. PICK t \in Tables : contracts = {t} /\ Table(contracts) = t /\ RowsOf(contracts) = t.rows
    BY <1>1, SlotTable DEF Exists, FileInv, Tidy
  <2>2. PICK o \in Tables : legacy = {o} /\ RowsOf(legacy) = o.rows
    BY <1>1, SlotTable DEF Exists, FileInv, Tidy
  <2>3. t.key # "id" /\ Keyed(t) /\ Keyed(o)
    BY <1>1, <2>1, <2>2 DEF FileInv, Tidy, BareKeyIsPast
  <2> DEFINE new == [t EXCEPT !.rows = @ \cup o.rows]
  <2>4. new \in Tables /\ new.rows = t.rows \cup o.rows /\ new.key = t.key /\ new.scoped = t.scoped
    BY DEF Tables
  <2>5. Keyed(new)
    <3>1. \A x \in t.rows, y \in o.rows : ~(x.tenant = y.tenant /\ x.id = y.id)
      BY <1>1, <2>1, <2>2 DEF Clash
    <3> HIDE DEF new
    <3>. QED
      BY <2>3, <2>4, <3>1 DEF Keyed
  <2>6. "drop" \in Places /\ {"copy", "drop"} \subseteq Migrating /\ "drop" # "serving"
    BY DEF Migrating, Places, Starting
  <2>7. /\ pc[p] = "copy" /\ pc' = [pc EXCEPT ![p] = "drop"] /\ contracts' = {new}
        /\ UNCHANGED <<legacy, deaths, cut, committed>>
    BY <1>1, <2>1, <2>2 DEF Copy, Insert, Goto
  <2>8. RowsOf(legacy) \subseteq RowsOf(contracts)'
    <3> HIDE DEF new
    <3>1. RowsOf(contracts)' = new.rows
      BY <2>7 DEF RowsOf
    <3>. QED
      BY <2>2, <2>4, <3>1
  <2>9. RowsOf(contracts) \subseteq new.rows /\ committed' = committed /\ committed \subseteq Rows
    BY <2>1, <2>4, <2>7 DEF FileInv, Tidy
  <2>10. new.key # "id"
    BY <2>3, <2>4
  <2> HIDE DEF new
  <2>. QED
    BY <2>4, <2>5, <2>6, <2>7, <2>8, <2>9, <2>10, TableKeeps
<1>2. CASE ~free
  BY <1>2, FailKeeps DEF Copy, Insert
<1>. QED
  BY <1>1, <1>2

\* What is dropped is copied, and the migration of p is over.
LEMMA DropKeeps ==
  ASSUME FileInv, NEW p \in Processes, Drop(p)
  PROVE  FileInv'
<1>1. CASE Exists(legacy)
  <2>1. /\ pc[p] = "drop" /\ pc' = [pc EXCEPT ![p] = "serving"] /\ legacy' = None
        /\ UNCHANGED <<contracts, deaths, cut, committed>>
    BY <1>1 DEF Drop, Goto
  <2>2. /\ pc' \in [Processes -> Places]
        /\ pc'[p] = "serving" /\ \A q \in Processes \ {p} : pc'[q] = pc[q]
    BY <2>1 DEF FileInv, Tidy, Places
  <2>3. \A q \in Processes : pc'[q] \notin Migrating
    BY <2>1, <2>2 DEF FileInv, OneMigrates, Migrating
  <2>4. RowsOf(contracts)' = RowsOf(contracts) /\ RowsOf(legacy) \subseteq RowsOf(contracts)
    BY <2>1 DEF FileInv, CopiedFirst, RowsOf
  <2>5. Tidy' /\ NothingDestroyed'
    <3>1. None \in Slots
      BY DEF Slots
    <3>. QED
      BY <2>1, <2>2, <2>4, <3>1 DEF FileInv, Tidy, Keyed, NothingDestroyed, None
  <2>6. OneMigrates' /\ CopiedFirst'
    BY <2>1, <2>3 DEF OneMigrates, CopiedFirst, Exists, Migrating
  <2>7. BareKeyIsPast'
    BY <1>1, <2>1 DEF FileInv, BareKeyIsPast
  <2>. QED
    BY <2>5, <2>6, <2>7 DEF FileInv
<1>2. CASE ~Exists(legacy)
  BY <1>2, FailKeeps DEF Drop
<1>. QED
  BY <1>1, <1>2

\* A saved contract keeps the key of the table.
LEMMA SaveKeeps ==
  ASSUME FileInv, NEW p \in Processes, NEW c \in Tenants, NEW i \in Ids, Save(p, c, i)
  PROVE  FileInv'
<1> DEFINE row == [tenant |-> c, id |-> i, origin |-> "new"]
<1>1. PICK t \in Tables : contracts = {t} /\ Table(contracts) = t /\ RowsOf(contracts) = t.rows
  BY SlotTable DEF Save, Exists, FileInv, Tidy
<1> DEFINE new == [t EXCEPT !.rows = @ \cup {row}]
<1>2. row \in Rows
  BY DEF Rows
<1>3. /\ new \in Tables /\ new.rows = t.rows \cup {row}
      /\ new.key = t.key /\ new.scoped = t.scoped
  BY <1>2 DEF Tables
<1>4. Keyed(new)
  <2>1. Keyed(t) /\ \A x \in t.rows : x.id # i \/ (x.tenant # c /\ t.key # "id")
    BY <1>1 DEF Save, FileInv, Tidy
  <2>2. row.id = i /\ row.tenant = c
    OBVIOUS
  <2> HIDE DEF new, row
  <2>. QED
    BY <1>3, <2>1, <2>2 DEF Keyed
<1>5. /\ pc[p] = "serving" /\ contracts' = {new} /\ committed' = committed \cup {row}
      /\ UNCHANGED <<legacy, pc, deaths, cut>>
  BY <1>1 DEF Save
<1>6. pc' = [pc EXCEPT ![p] = "serving"] /\ "serving" \in Places
  BY <1>5 DEF FileInv, Tidy, Places
<1> HIDE DEF new, row
<1>. QED
  BY <1>1, <1>2, <1>3, <1>4, <1>5, <1>6, TableKeeps DEF FileInv, Tidy

\* A file of any earlier release is tidy.
LEMMA InitFile == Init => FileInv
<1> SUFFICES ASSUME Init PROVE FileInv
  OBVIOUS
<1>1. legacy = {} /\ pc = [p \in Processes |-> "start"] /\ None = {}
  BY DEF Init, None
<1>2. ASSUME NEW t \in OldTables PROVE t \in Tables /\ Keyed(t)
  <2>1. PICK s \in BOOLEAN, R \in LegacyRows : t = [key |-> "id", scoped |-> s, rows |-> R]
    BY DEF OldTables
  <2>2. R \subseteq [tenant : Tenants, id : Ids, origin : {"legacy"}]
        /\ \A x, y \in R : x.id = y.id => x = y
    BY DEF LegacyRows
  <2>3. R \in SUBSET Rows
    BY <2>2 DEF Rows
  <2>. QED
    BY <2>1, <2>2, <2>3 DEF Tables, Keyed
<1>3. contracts \in Slots /\ \A t \in contracts : Keyed(t)
  BY <1>2 DEF Init, Slots, None
<1>4. legacy \in Slots /\ pc \in [Processes -> Places]
  BY <1>1 DEF Slots, Places, Starting
<1>5. committed = RowsOf(contracts) /\ committed \subseteq Rows
  <2>1. CASE contracts = None
    BY <2>1, <1>1 DEF Init, RowsOf
  <2>2. CASE \E t \in OldTables : contracts = {t}
    BY <2>2, <1>2 DEF Init, RowsOf, Tables
  <2>. QED
    BY <2>1, <2>2 DEF Init
<1>6. Tidy /\ NothingDestroyed
  <2>1. deaths \in 0..MaxDeaths /\ cut \in BOOLEAN
    <3>1. deaths = 0 /\ cut = FALSE
      BY DEF Init
    <3>2. 0 \in 0..MaxDeaths
      BY DeathsAssumption
    <3>. QED
      BY <3>1, <3>2
  <2>2. \A t \in contracts \cup legacy : Keyed(t)
    BY <1>1, <1>3
  <2>3. NothingDestroyed
    BY <1>5 DEF NothingDestroyed
  <2>. QED
    BY <1>3, <1>4, <1>5, <2>1, <2>2, <2>3 DEF Tidy
<1>7. OneMigrates /\ BareKeyIsPast /\ CopiedFirst
  BY <1>1 DEF OneMigrates, BareKeyIsPast, CopiedFirst, Exists, Migrating
<1>. QED
  BY <1>6, <1>7 DEF FileInv

\* Every step of every process at the file keeps the invariant.
LEMMA NextFile == FileInv /\ [Next]_vars => FileInv'
<1>1. ASSUME FileInv, UNCHANGED vars PROVE FileInv'
  BY <1>1 DEF vars, FileInv, Tidy, Keyed, OneMigrates, BareKeyIsPast, CopiedFirst,
              NothingDestroyed, RowsOf, Exists
<1>2. ASSUME FileInv, NEW p \in Processes, StartUp(p) PROVE FileInv'
  BY <1>2, CreateTablesKeeps, CheckColumnKeeps, AddColumnKeeps, CheckKeyKeeps, RenameKeeps,
     CreateScopedKeeps, CopyKeeps, DropKeeps DEF StartUp
<1>. QED
  BY <1>1, <1>2, DieKeeps, SaveKeeps DEF Next

(***************************************************************************)
(* Somebody is left at the file.                                           *)
(***************************************************************************)

\* Who gets to serve when it is let alone, with the old table there.
Fine(p) ==
  \/ pc[p] \in {"start", "key", "serving", "copy", "drop"}
  \/ pc[p] = "column" /\ Exists(contracts)
  \/ pc[p] = "create" /\ ~Exists(contracts)

\* Who gets there without it.
Hopeful(p) ==
  /\ pc[p] # "degraded"
  /\ pc[p] = "alter" => \E t \in contracts : ~t.scoped

\* Somebody goes on, whichever of the tables are there.
SomebodyGoesOn ==
  /\ Exists(legacy) => \E p \in Processes : Fine(p)
  /\ ~Exists(legacy) /\ Exists(contracts) => \E p \in Processes : Hopeful(p)
  /\ ~Exists(legacy) /\ ~Exists(contracts) => \E p \in Processes : pc[p] = "start"

\* Who copies has a table to copy to, and finds it empty or is not alone:
\* whoever wrote to it serves.
CopiesAtPeace ==
  \A p \in Processes :
    /\ pc[p] \in {"copy", "drop"} => Exists(contracts)
    /\ pc[p] = "copy" =>
         RowsOf(contracts) = {} \/ \E q \in Processes \ {p} : Fine(q)

\* What a process may do at the file.
StepOf(p) == StartUp(p) \/ Die(p) \/ \E t \in Tenants, i \in Ids : Save(p, t, i)

\* A step moves one process.
LEMMA OthersStay ==
  ASSUME FileInv, NEW p \in Processes, StepOf(p)
  PROVE  \A q \in Processes \ {p} : pc'[q] = pc[q]
<1>1. pc' = pc \/ \E label : pc' = [pc EXCEPT ![p] = label]
  BY DEF StepOf, StartUp, CreateTables, CheckColumn, AddColumn, CheckKey, Rename, TakeName,
         CreateScoped, Copy, Insert, Drop, Die, Save, Fail, Goto
<1>. QED
  BY <1>1 DEF FileInv, Tidy

\* While the old table is there, the new one has its column.
LEMMA NewIsScoped ==
  ASSUME FileInv, Exists(legacy)
  PROVE  \A t \in contracts : t.scoped /\ t.key # "id"
BY DEF FileInv, Tidy, BareKeyIsPast, Keyed

\* While the old table is there, contracts does not go away, and its rows are
\* added to by who copies or serves.
LEMMA NewStays ==
  ASSUME FileInv, NEW p \in Processes, StepOf(p), Exists(legacy), Exists(contracts)
  PROVE  /\ Exists(contracts)'
         /\ RowsOf(contracts)' = RowsOf(contracts) \/ pc[p] \in {"copy", "serving"}
<1>1. CASE contracts' = contracts
  BY <1>1 DEF Exists, RowsOf
<1>2. CASE AddColumn(p) /\ contracts' # contracts
  BY <1>2, NewIsScoped DEF AddColumn, Fail
<1>3. CASE Copy(p) /\ contracts' # contracts
  BY <1>3 DEF Copy, Insert, Fail, Exists, None
<1>4. CASE \E t \in Tenants, i \in Ids : Save(p, t, i)
  BY <1>4 DEF Save, Exists, None
<1>. QED
  BY <1>1, <1>2, <1>3, <1>4 DEF StepOf, StartUp, CreateTables, CheckColumn, CheckKey, Rename,
     TakeName, CreateScoped, Drop, Die, Fail

\* Who is fine stays so, or whoever takes it out is fine: only a copy may raise.
LEMMA FineLater ==
  ASSUME FileInv, CopiesAtPeace, NEW p \in Processes, StepOf(p), Exists(legacy),
         NEW q \in Processes, Fine(q), q = p => pc[p] # "copy"
  PROVE  Fine(q)' \/ Fine(p)'
<1>1. pc \in [Processes -> Places]
  BY DEF FileInv, Tidy
<1>2. CASE q # p
  <2>1. pc'[q] = pc[q]
    BY <1>2, OthersStay
  <2>2. CASE Exists(contracts)' <=> Exists(contracts)
    BY <2>1, <2>2 DEF Fine
  <2>3. CASE Exists(contracts) /\ ~Exists(contracts)'
    BY <2>3, NewStays
  <2>4. CASE ~Exists(contracts) /\ Exists(contracts)'
    <3>1. CreateTables(p) \/ CreateScoped(p)
      BY <2>4 DEF StepOf, StartUp, CheckColumn, AddColumn, CheckKey, Rename, TakeName, Copy,
                  Insert, Drop, Die, Save, Fail, Exists, None
    <3>2. pc'[p] \in {"column", "copy"}
      BY <1>1, <2>4, <3>1 DEF CreateTables, CreateScoped, Fail, Goto, Exists
    <3>. QED
      BY <2>4, <3>2 DEF Fine
  <2>. QED
    BY <2>2, <2>3, <2>4
<1>3. CASE q = p
  <2>1. CASE CreateTables(p)
    BY <1>1, <2>1 DEF CreateTables, Goto, Fine, Exists, None
  <2>2. CASE CheckColumn(p)
    <3>1. \E t \in contracts : t.scoped
      BY <1>3, <2>2, NewIsScoped DEF CheckColumn, Fine, Exists, None
    <3>. QED
      BY <1>1, <2>2, <3>1 DEF CheckColumn, Goto, Fine
  <2>3. CASE CheckKey(p)
    BY <1>1, <2>3, NewIsScoped DEF CheckKey, Goto, Fine
  <2>4. CASE CreateScoped(p)
    BY <1>1, <1>3, <2>4 DEF CreateScoped, Goto, Fine
  <2>5. CASE Drop(p)
    BY <1>1, <2>5 DEF Drop, Goto, Fine
  <2>6. CASE Die(p)
    BY <1>1, <2>6 DEF Die, Goto, Fine
  <2>7. CASE \E t \in Tenants, i \in Ids : Save(p, t, i)
    BY <2>7 DEF Save, Fine
  <2>. QED
    BY <1>3, <2>1, <2>2, <2>3, <2>4, <2>5, <2>6, <2>7
    DEF StepOf, StartUp, AddColumn, Rename, Copy, Insert, Fine
<1>. QED
  BY <1>2, <1>3

\* The same for who copies: a clash is with what somebody wrote who serves.
LEMMA SomebodyFine ==
  ASSUME FileInv, SomebodyGoesOn, CopiesAtPeace, NEW p \in Processes, StepOf(p),
         Exists(legacy)
  PROVE  \E q \in Processes : Fine(q)'
<1>1. PICK q \in Processes : Fine(q)
  BY DEF SomebodyGoesOn
<1>2. CASE ~(q = p /\ pc[p] = "copy")
  BY <1>1, <1>2, FineLater
<1>3. CASE pc[p] = "copy"
  <2>1. Copy(p) \/ Die(p)
    BY <1>3 DEF StepOf, StartUp, CreateTables, CheckColumn, AddColumn, CheckKey, Rename,
                CreateScoped, Drop, Save
  <2>2. CASE \E r \in Processes \ {p} : Fine(r)
    BY <2>2, FineLater
  <2>3. CASE RowsOf(contracts) = {}
    <3>1. Exists(contracts) /\ ~Clash(RowsOf(contracts), RowsOf(legacy))
      BY <1>3, <2>3 DEF CopiesAtPeace, Clash
    <3>2. pc'[p] \in {"drop", "start"}
      BY <2>1, <3>1 DEF Copy, Insert, Die, Goto, FileInv, Tidy
    <3>. QED
      BY <3>2 DEF Fine
  <2>. QED
    BY <1>3, <2>2, <2>3 DEF CopiesAtPeace
<1>. QED
  BY <1>2, <1>3

\* The old table goes when it is copied, by a process that serves then.
LEMMA MigrationEnds ==
  ASSUME FileInv, CopiesAtPeace, NEW p \in Processes, StepOf(p),
         Exists(legacy), ~Exists(legacy)'
  PROVE  Exists(contracts)' /\ Hopeful(p)'
<1>1. Drop(p)
  BY DEF StepOf, StartUp, CreateTables, CheckColumn, AddColumn, CheckKey, Rename, TakeName,
         CreateScoped, Copy, Insert, Drop, Die, Save, Fail, Exists
<1>2. pc[p] = "drop" /\ contracts' = contracts /\ pc'[p] = "serving"
  BY <1>1 DEF Drop, Fail, Goto, Exists, FileInv, Tidy
<1>. QED
  BY <1>2 DEF CopiesAtPeace, Hopeful, Exists

\* The old table comes by a rename, and who renamed creates the new one.
LEMMA MigrationBegins ==
  ASSUME FileInv, NEW p \in Processes, StepOf(p), ~Exists(legacy), Exists(legacy)'
  PROVE  Fine(p)'
<1>1. Rename(p)
  BY DEF StepOf, StartUp, CreateTables, CheckColumn, AddColumn, CheckKey,
         CreateScoped, Copy, Insert, Drop, Die, Save, Fail, Exists
<1>2. contracts' = None /\ pc'[p] = "create"
  BY <1>1 DEF Rename, TakeName, Fail, Goto, Exists, FileInv, Tidy
<1>. QED
  BY <1>2 DEF Fine, Exists

\* With neither table the first start makes the new one.
LEMMA NothingThere ==
  ASSUME FileInv, SomebodyGoesOn, NEW p \in Processes, StepOf(p),
         ~Exists(legacy), ~Exists(contracts)
  PROVE  IF Exists(contracts)' THEN Hopeful(p)' ELSE \E q \in Processes : (pc[q] = "start")'
<1>1. PICK q \in Processes : pc[q] = "start"
  BY DEF SomebodyGoesOn
<1>2. pc \in [Processes -> Places] /\ pc[p] \notin Migrating
  BY DEF FileInv, Tidy, OneMigrates
<1>3. CASE CreateTables(p)
  BY <1>2, <1>3 DEF CreateTables, Goto, Hopeful, Exists, None
<1>4. CASE Die(p)
  BY <1>2, <1>4 DEF Die, Goto, Exists
<1>5. CASE ~CreateTables(p) /\ ~Die(p)
  <2>1. q # p
    BY <1>1, <1>5 DEF StepOf, StartUp, CheckColumn, AddColumn, CheckKey, Rename,
                      CreateScoped, Copy, Insert, Drop, Save, Exists
  <2>2. pc'[q] = "start"
    BY <1>1, <2>1, OthersStay
  <2>3. contracts' = contracts
    BY <1>2, <1>5 DEF StepOf, StartUp, CheckColumn, AddColumn, CheckKey, Rename, Fail,
                      CreateScoped, Copy, Insert, Drop, Save, Exists, None, Migrating
  <2>. QED
    BY <2>2, <2>3 DEF Exists
<1>. QED
  BY <1>3, <1>4, <1>5

\* With the one table there, who is left goes on, or who takes its column away
\* does: nobody else can make a rename fail.
LEMMA OneTable ==
  ASSUME FileInv, SomebodyGoesOn, NEW p \in Processes, StepOf(p),
         ~Exists(legacy), ~Exists(legacy)', Exists(contracts)
  PROVE  Exists(contracts)' /\ \E q \in Processes : Hopeful(q)'
<1>1. PICK q \in Processes : Hopeful(q)
  BY DEF SomebodyGoesOn
<1>2. pc \in [Processes -> Places] /\ pc[p] \notin Migrating
  BY DEF FileInv, Tidy, OneMigrates
<1>3. PICK t \in Tables : contracts = {t} /\ Table(contracts) = t
  BY SlotTable DEF FileInv, Tidy, Exists
<1>4. CASE AddColumn(p) /\ ~t.scoped
  <2>1. contracts' = {[t EXCEPT !.scoped = TRUE]} /\ pc'[p] = "key"
    BY <1>2, <1>3, <1>4 DEF AddColumn, Goto
  <2>. QED
    BY <2>1 DEF Hopeful, Exists, None
<1>5. CASE \E c \in Tenants, i \in Ids : Save(p, c, i)
  <2>1. PICK R : contracts' = {[t EXCEPT !.rows = R]} /\ pc' = pc /\ pc[p] = "serving"
    BY <1>3, <1>5 DEF Save
  <2>2. Hopeful(p)' /\ Exists(contracts)'
    BY <2>1 DEF Hopeful, Exists, None
  <2>. QED
    BY <2>2
<1>6. CASE contracts' = contracts
  <2>1. CASE q # p
    <3>1. pc'[q] = pc[q]
      BY <2>1, OthersStay
    <3>2. Hopeful(q)'
      BY <1>1, <1>6, <3>1 DEF Hopeful
    <3>. QED
      BY <1>6, <3>2 DEF Exists
  <2>2. CASE q = p
    <3>1. CASE CheckColumn(p)
      <4>1. pc'[p] = IF t.scoped THEN "key" ELSE "alter"
        BY <1>2, <1>3, <3>1 DEF CheckColumn, Goto
      <4>. QED
        BY <1>3, <1>6, <4>1 DEF Hopeful, Exists
    <3>2. CASE AddColumn(p)
      BY <1>1, <1>3, <1>4, <2>2, <3>2 DEF AddColumn, Hopeful
    <3>3. CASE CreateTables(p) \/ CheckKey(p) \/ Die(p)
      <4>1. pc'[p] \in {"column", "rename", "serving", "start"}
        BY <1>2, <3>3 DEF CreateTables, CheckKey, Die, Goto
      <4>. QED
        BY <1>6, <4>1 DEF Hopeful, Exists
    <3>4. CASE Rename(p)
      BY <1>6, <3>4 DEF Rename, TakeName, Exists
    <3>. QED
      BY <1>2, <1>5, <3>1, <3>2, <3>3, <3>4
      DEF StepOf, StartUp, CreateScoped, Copy, Insert, Drop, Migrating
  <2>. QED
    BY <2>1, <2>2
<1>7. contracts' = contracts \/ (AddColumn(p) /\ ~t.scoped)
        \/ \E c \in Tenants, i \in Ids : Save(p, c, i)
  BY <1>2, <1>3 DEF StepOf, StartUp, CreateTables, CheckColumn, AddColumn, CheckKey, Rename,
     TakeName, CreateScoped, Copy, Insert, Drop, Die, Fail, Exists, Migrating
<1>. QED
  BY <1>4, <1>5, <1>6, <1>7

\* Whoever moves, and whoever dies, somebody goes on.
LEMMA SomebodyStays ==
  ASSUME FileInv, SomebodyGoesOn, CopiesAtPeace, NEW p \in Processes, StepOf(p)
  PROVE  SomebodyGoesOn'
<1>1. CASE Exists(legacy)
  BY <1>1, SomebodyFine, MigrationEnds DEF SomebodyGoesOn
<1>2. CASE ~Exists(legacy)
  BY <1>2, MigrationBegins, NothingThere, OneTable DEF SomebodyGoesOn
<1>. QED
  BY <1>1, <1>2

\* Only who serves writes while another one copies.
LEMMA PeaceStays ==
  ASSUME FileInv, CopiesAtPeace, NEW p \in Processes, StepOf(p)
  PROVE  CopiesAtPeace'
<1>1. ASSUME NEW r \in Processes \ {p}, (pc[r] \in {"copy", "drop"})'
      PROVE  /\ Exists(contracts)'
             /\ (pc[r] = "copy")' =>
                  (RowsOf(contracts) = {})' \/ \E q \in Processes \ {r} : Fine(q)'
  <2>1. pc[r] = pc'[r] /\ pc[r] \in {"copy", "drop"}
    BY <1>1, OthersStay
  <2>2. Exists(legacy) /\ Exists(contracts) /\ pc[p] # "copy"
    BY <2>1 DEF FileInv, OneMigrates, Migrating, CopiesAtPeace
  <2>3. Exists(contracts)' /\ (RowsOf(contracts)' = RowsOf(contracts) \/ pc[p] = "serving")
    BY <2>2, NewStays
  <2>4. CASE pc[p] = "serving"
    <3>1. Fine(p)
      BY <2>4 DEF Fine
    <3>. QED
      BY <2>2, <2>3, <3>1, FineLater
  <2>5. CASE \E q \in Processes \ {r} : Fine(q)
    BY <2>2, <2>3, <2>5, FineLater
  <2>. QED
    BY <2>1, <2>3, <2>4, <2>5 DEF CopiesAtPeace
<1>2. ASSUME (pc[p] \in {"copy", "drop"})'
      PROVE  /\ Exists(contracts)'
             /\ (pc[p] = "copy")' => (RowsOf(contracts) = {})'
  <2>1. pc \in [Processes -> Places]
    BY DEF FileInv, Tidy
  <2>2. CreateScoped(p) \/ Copy(p)
    BY <1>2, <2>1 DEF StepOf, StartUp, CreateTables, CheckColumn, AddColumn, CheckKey, Rename,
                      TakeName, Drop, Die, Save, Fail, Goto
  <2>3. CASE CreateScoped(p)
    <3>1. contracts' = {Scoped}
      BY <1>2, <2>1, <2>3 DEF CreateScoped, Fail, Goto
    <3>2. Scoped.rows = {}
      BY DEF Scoped
    <3>. QED
      BY <3>1, <3>2 DEF Exists, None, RowsOf
  <2>4. CASE Copy(p)
    BY <1>2, <2>1, <2>4 DEF Copy, Insert, Fail, Goto, Exists, None
  <2>. QED
    BY <2>2, <2>3, <2>4
<1>. QED
  BY <1>1, <1>2 DEF CopiesAtPeace

\* Everybody is at the start, if there is anybody.
LEMMA InitSomebody == Init => (Processes # {} => SomebodyGoesOn) /\ CopiesAtPeace
<1> SUFFICES ASSUME Init PROVE (Processes # {} => SomebodyGoesOn) /\ CopiesAtPeace
  OBVIOUS
<1>1. ~Exists(legacy) /\ \A p \in Processes : pc[p] = "start"
  BY DEF Init, Exists
<1>. QED
  BY <1>1 DEF SomebodyGoesOn, CopiesAtPeace, Hopeful

\* Every step at the file leaves somebody who goes on.
LEMMA NextSomebody ==
  FileInv /\ (Processes # {} => SomebodyGoesOn) /\ CopiesAtPeace /\ [Next]_vars =>
    (Processes # {} => SomebodyGoesOn)' /\ CopiesAtPeace'
<1>1. UNCHANGED vars => /\ SomebodyGoesOn' <=> SomebodyGoesOn
                        /\ CopiesAtPeace' <=> CopiesAtPeace
  BY DEF vars, SomebodyGoesOn, CopiesAtPeace, Fine, Hopeful, Exists, RowsOf
<1>2. Next => \E p \in Processes : StepOf(p)
  BY DEF Next, StepOf
<1>. QED
  BY <1>1, <1>2, SomebodyStays, PeaceStays

(***************************************************************************)
(* PostgreSQL.                                                             *)
(***************************************************************************)

\* The places of a start that has the advisory lock.
Inside == {"look", "make", "commit"}

PgPlaces == PgStarting \cup {"serving", "degraded"}

\* The schema's variables are of their types, whatever the backend.
SchemaTyped ==
  /\ made \in {{}, Schema}
  /\ step \in [Processes -> 1..(Version + 1)]
  /\ own \in [Processes -> SUBSET Schema]
  /\ lock \in Holders
  /\ lost \subseteq Processes

\* Who has the lock is inside the transaction, has made what was missing up to
\* its statement, and nobody else has made anything.
HolderMakes ==
  \A p \in Processes :
    /\ pc[p] \in Inside <=> lock = p
    /\ own[p] = IF lock = p THEN 1..(step[p] - 1) \ made ELSE {}
    /\ pc[p] \in {"look", "make"} => step[p] \in Schema
    /\ pc[p] = "make" => step[p] \notin made
    /\ pc[p] = "commit" => step[p] = Version + 1

\* Who serves has found or made the whole schema.
ServedIsMade == \A p \in Processes : pc[p] = "serving" => made = Schema

\* No contract is looked at.
NoFile == contracts = None /\ legacy = None /\ committed = {}

DatabaseInv == pc \in [Processes -> PgPlaces] /\ SchemaTyped /\ HolderMakes /\ ServedIsMade /\ NoFile

\* The end of a transaction without a commit undoes what it has made.
LEMMA RollBackKeeps ==
  ASSUME DatabaseInv, NEW p \in Processes, NEW whom \in {"nobody", "orphan"},
         NEW label \in {"start", "degraded"},
         RollBack(p, whom), Goto(p, label), lost' \subseteq Processes,
         UNCHANGED <<contracts, legacy, committed>>
  PROVE  DatabaseInv'
<1>1. /\ pc' \in [Processes -> PgPlaces]
      /\ pc'[p] = label /\ \A q \in Processes \ {p} : pc'[q] = pc[q]
  BY DEF Goto, DatabaseInv, PgPlaces, PgStarting
<1>2. /\ UNCHANGED <<made, step>> /\ lock' = IF lock = p THEN whom ELSE lock
      /\ own' = [own EXCEPT ![p] = {}]
  BY DEF RollBack
<1>3. SchemaTyped'
  BY <1>2 DEF DatabaseInv, SchemaTyped, Holders, Schema, Version
<1>4. HolderMakes'
  <2>1. whom \notin Processes /\ label \notin Inside
    BY ProcessesAssumption DEF Inside
  <2>2. \A q \in Processes : lock' = q <=> lock = q /\ q # p
    BY <1>2, <2>1
  <2>3. /\ own'[p] = {} /\ \A q \in Processes \ {p} : own'[q] = own[q]
    BY <1>2 DEF DatabaseInv, SchemaTyped
  <2>4. \A q \in Processes \ {p} :
          /\ pc[q] \in Inside <=> lock = q
          /\ own[q] = IF lock = q THEN 1..(step[q] - 1) \ made ELSE {}
          /\ pc[q] \in {"look", "make"} => step[q] \in Schema
          /\ pc[q] = "make" => step[q] \notin made
          /\ pc[q] = "commit" => step[q] = Version + 1
    BY DEF DatabaseInv, HolderMakes
  <2>5. ASSUME NEW q \in Processes \ {p}
        PROVE  /\ (pc[q] \in Inside <=> lock = q)'
               /\ (own[q] = IF lock = q THEN 1..(step[q] - 1) \ made ELSE {})'
               /\ (pc[q] \in {"look", "make"} => step[q] \in Schema)'
               /\ (pc[q] = "make" => step[q] \notin made)'
               /\ (pc[q] = "commit" => step[q] = Version + 1)'
    BY <1>1, <1>2, <2>2, <2>3, <2>4 DEF Schema, Version
  <2>6. /\ (pc[p] \in Inside <=> lock = p)'
        /\ (own[p] = IF lock = p THEN 1..(step[p] - 1) \ made ELSE {})'
        /\ (pc[p] \in {"look", "make"} => step[p] \in Schema)'
        /\ (pc[p] = "make" => step[p] \notin made)'
        /\ (pc[p] = "commit" => step[p] = Version + 1)'
    BY <1>1, <2>1, <2>2, <2>3 DEF Inside
  <2>. QED
    BY <2>5, <2>6 DEF HolderMakes
<1>5. ServedIsMade' /\ NoFile'
  BY <1>1, <1>2 DEF DatabaseInv, ServedIsMade, NoFile, Schema, Version
<1>. QED
  BY <1>1, <1>3, <1>4, <1>5 DEF DatabaseInv

\* A start waits for the lock, which nobody holds then.
LEMMA LockKeeps ==
  ASSUME DatabaseInv, NEW p \in Processes, Connect(p) \/ Lock(p)
  PROVE  DatabaseInv'
<1>1. CASE Connect(p)
  <2>1. /\ pc' = [pc EXCEPT ![p] = "lock"] /\ pc[p] = "start"
        /\ UNCHANGED <<contracts, legacy, committed, made, step, own, lock, lost>>
    BY <1>1 DEF Connect, PgGoto, Goto, pgvars
  <2>2. pc' \in [Processes -> PgPlaces]
    BY <2>1 DEF DatabaseInv, PgPlaces, PgStarting
  <2>3. HolderMakes'
    BY <2>1 DEF DatabaseInv, HolderMakes, Inside, Schema, Version
  <2>. QED
    BY <2>1, <2>2, <2>3 DEF DatabaseInv, SchemaTyped, ServedIsMade, NoFile, Schema, Version
<1>2. CASE Lock(p)
  <2>1. /\ pc' = [pc EXCEPT ![p] = "look"] /\ pc[p] = "lock" /\ lock = "nobody" /\ lock' = p
        /\ step' = [step EXCEPT ![p] = 1]
        /\ UNCHANGED <<contracts, legacy, committed, made, own, lost>>
    BY <1>2 DEF Lock, Lock_Free, PgGoto, Goto
  <2>2. pc' \in [Processes -> PgPlaces] /\ step' \in [Processes -> 1..(Version + 1)]
    BY <2>1, StatementsAssumption DEF DatabaseInv, SchemaTyped, PgPlaces, PgStarting, Version
  <2>3. \A q \in Processes : own[q] = {} /\ pc[q] \notin Inside /\ lock # q
    BY <2>1, ProcessesAssumption DEF DatabaseInv, HolderMakes
  <2>4. 1 \in Schema /\ 1..(1 - 1) = {}
    BY StatementsAssumption DEF Schema
  <2>5. \A q \in Processes : /\ pc'[q] = IF q = p THEN "look" ELSE pc[q]
                             /\ step'[q] = IF q = p THEN 1 ELSE step[q]
    BY <2>1 DEF DatabaseInv, SchemaTyped
  <2>6. HolderMakes'
    <3>1. ASSUME NEW q \in Processes
          PROVE  /\ (pc[q] \in Inside <=> lock = q)'
                 /\ (own[q] = IF lock = q THEN 1..(step[q] - 1) \ made ELSE {})'
                 /\ (pc[q] \in {"look", "make"} => step[q] \in Schema)'
                 /\ (pc[q] = "make" => step[q] \notin made)'
                 /\ (pc[q] = "commit" => step[q] = Version + 1)'
      <4>1. own'[q] = {} /\ lock' = p /\ made' = made /\ pc[q] \notin Inside
        BY <2>1, <2>3
      <4>2. CASE q = p
        <5>1. pc'[q] = "look" /\ step'[q] = 1
          BY <2>5, <4>2
        <5>2. 1..(step'[q] - 1) = {}
          BY <2>4, <5>1
        <5>. QED
          BY <2>4, <4>1, <4>2, <5>1, <5>2 DEF Inside, Schema, Version
      <4>3. CASE q # p
        BY <2>5, <4>1, <4>3 DEF Inside
      <4>. QED
        BY <4>2, <4>3
    <3>. QED
      BY <3>1 DEF HolderMakes
  <2>7. SchemaTyped' /\ ServedIsMade' /\ NoFile'
    BY <2>1, <2>2, <2>5 DEF DatabaseInv, SchemaTyped, ServedIsMade, NoFile, Schema, Version, Holders
  <2>. QED
    BY <2>2, <2>6, <2>7 DEF DatabaseInv
<1>. QED
  BY <1>1, <1>2

\* A move of the holder of the lock: what it has made follows its statement.
LEMMA MoveKeeps ==
  ASSUME DatabaseInv, NEW p \in Processes, lock = p, NEW label \in Inside,
         NEW n \in 1..(Version + 1), NEW mine \in SUBSET Schema,
         pc' = [pc EXCEPT ![p] = label], step' = [step EXCEPT ![p] = n],
         own' = [own EXCEPT ![p] = mine], mine = 1..(n - 1) \ made,
         label \in {"look", "make"} => n \in Schema,
         label = "make" => n \notin made,
         label = "commit" => n = Version + 1,
         UNCHANGED <<contracts, legacy, committed, made, lock, lost>>
  PROVE  DatabaseInv'
<1>1. /\ pc' \in [Processes -> PgPlaces]
      /\ pc'[p] = label /\ \A q \in Processes \ {p} : pc'[q] = pc[q]
  BY DEF DatabaseInv, PgPlaces, PgStarting, Inside
<1>2. /\ step'[p] = n /\ \A q \in Processes \ {p} : step'[q] = step[q]
      /\ own'[p] = mine /\ \A q \in Processes \ {p} : own'[q] = own[q]
  BY DEF DatabaseInv, SchemaTyped
<1>3. SchemaTyped'
  BY DEF DatabaseInv, SchemaTyped, Schema, Version
<1>4. HolderMakes'
  <2>1. ASSUME NEW q \in Processes \ {p}
        PROVE  /\ (pc[q] \in Inside <=> lock = q)'
               /\ (own[q] = IF lock = q THEN 1..(step[q] - 1) \ made ELSE {})'
               /\ (pc[q] \in {"look", "make"} => step[q] \in Schema)'
               /\ (pc[q] = "make" => step[q] \notin made)'
               /\ (pc[q] = "commit" => step[q] = Version + 1)'
    <3>1. /\ pc[q] \in Inside <=> lock = q
          /\ own[q] = IF lock = q THEN 1..(step[q] - 1) \ made ELSE {}
          /\ pc[q] \in {"look", "make"} => step[q] \in Schema
          /\ pc[q] = "make" => step[q] \notin made
          /\ pc[q] = "commit" => step[q] = Version + 1
      BY DEF DatabaseInv, HolderMakes
    <3>. QED
      BY <1>1, <1>2, <3>1 DEF Schema, Version
  <2>2. /\ (pc[p] \in Inside <=> lock = p)'
        /\ (own[p] = IF lock = p THEN 1..(step[p] - 1) \ made ELSE {})'
        /\ (pc[p] \in {"look", "make"} => step[p] \in Schema)'
        /\ (pc[p] = "make" => step[p] \notin made)'
        /\ (pc[p] = "commit" => step[p] = Version + 1)'
    BY <1>1, <1>2 DEF Schema, Version
  <2>. QED
    BY <2>1, <2>2 DEF HolderMakes
<1>5. ServedIsMade' /\ NoFile'
  BY <1>1 DEF DatabaseInv, ServedIsMade, NoFile, Schema, Version, Inside
<1>. QED
  BY <1>1, <1>3, <1>4, <1>5 DEF DatabaseInv

\* The holder looks and makes what is missing; nothing it makes is there already.
LEMMA WorkKeeps ==
  ASSUME DatabaseInv, NEW p \in Processes, Look(p) \/ Make(p)
  PROVE  DatabaseInv'
<1>1. /\ pc[p] \in {"look", "make"} /\ lock = p /\ step[p] \in 1..Version
      /\ step[p] = Version \/ step[p] + 1 \in 1..Version
      /\ own[p] = 1..(step[p] - 1) \ made
      /\ step[p] + 1 \in 1..(Version + 1) /\ step[p] \in 1..(Version + 1)
  <2>1. pc[p] \in {"look", "make"}
    BY DEF Look, Make
  <2>2. lock = p /\ step[p] \in 1..Version /\ own[p] = 1..(step[p] - 1) \ made
    BY <2>1 DEF DatabaseInv, HolderMakes, Inside, Schema, Version
  <2>3. Version \in Nat
    BY StatementsAssumption DEF Version
  <2>. QED
    BY <2>1, <2>2, <2>3
<1>2. made \in {{}, Schema} /\ own \in [Processes -> SUBSET Schema] /\ step \in [Processes -> 1..(Version + 1)]
  BY DEF DatabaseInv, SchemaTyped
<1>3. Schema = 1..Version /\ Version \in Nat
  BY StatementsAssumption DEF Schema, Version
<1> DEFINE n == step[p]
           next == IF n = Version THEN "commit" ELSE "look"
<1>4. next \in Inside /\ next # "make" /\ (next \in {"look", "make"} => n + 1 \in Schema)
      /\ (next = "commit" => n + 1 = Version + 1)
  BY <1>1, <1>3 DEF Inside
<1>5. CASE Look(p) /\ n \in made
  <2>1. made = Schema /\ own[p] = {} /\ 1..((n + 1) - 1) \ made = {}
    BY <1>1, <1>2, <1>3, <1>5
  <2>2. /\ pc' = [pc EXCEPT ![p] = next] /\ step' = [step EXCEPT ![p] = n + 1]
        /\ own' = [own EXCEPT ![p] = {}]
        /\ UNCHANGED <<contracts, legacy, committed, made, lock, lost>>
    BY <1>2, <1>5, <2>1 DEF Look, PgGoto, Goto
  <2>. QED
    BY <1>1, <1>4, <2>1, <2>2, MoveKeeps
<1>6. CASE Look(p) /\ n \notin made
  <2>1. /\ pc' = [pc EXCEPT ![p] = "make"] /\ step' = [step EXCEPT ![p] = n]
        /\ own' = [own EXCEPT ![p] = own[p]]
        /\ UNCHANGED <<contracts, legacy, committed, made, lock, lost>>
    BY <1>2, <1>6 DEF Look, PgGoto, Goto
  <2>2. own[p] \in SUBSET Schema /\ n \in Schema /\ "make" \in Inside
    BY <1>1, <1>2, <1>3 DEF Inside
  <2>. QED
    BY <1>1, <1>6, <2>1, <2>2, MoveKeeps
<1>7. CASE Make(p)
  <2>1. n \notin made /\ made = {}
    BY <1>1, <1>2, <1>3, <1>7 DEF Make, DatabaseInv, HolderMakes
  <2> DEFINE mine == own[p] \cup ({n} \ made)
  <2>2. mine \in SUBSET Schema /\ mine = 1..((n + 1) - 1) \ made
    BY <1>1, <1>2, <1>3, <2>1
  <2>3. /\ pc' = [pc EXCEPT ![p] = next] /\ step' = [step EXCEPT ![p] = n + 1]
        /\ own' = [own EXCEPT ![p] = mine]
        /\ UNCHANGED <<contracts, legacy, committed, made, lock, lost>>
    BY <1>7, <2>1 DEF Make, PgGoto, Goto
  <2> HIDE DEF mine
  <2>. QED
    BY <1>1, <1>4, <2>2, <2>3, MoveKeeps
<1>. QED
  BY <1>5, <1>6, <1>7

\* What is committed is the whole schema, and the lock goes with it.
LEMMA CommitKeeps ==
  ASSUME DatabaseInv, NEW p \in Processes, Commit(p)
  PROVE  DatabaseInv'
<1>1. /\ pc[p] = "commit" /\ pc' = [pc EXCEPT ![p] = "serving"] /\ made' = made \cup own[p]
      /\ own' = [own EXCEPT ![p] = {}] /\ lock' = "nobody"
      /\ UNCHANGED <<contracts, legacy, committed, step, lost>>
  BY DEF Commit, PgGoto, Goto
<1>2. lock = p /\ step[p] = Version + 1 /\ own[p] = 1..(step[p] - 1) \ made
  BY <1>1 DEF DatabaseInv, HolderMakes, Inside
<1>3. made' = Schema
  <2>1. Version \in Nat /\ (Version + 1) - 1 = Version /\ Schema = 1..Version
    BY StatementsAssumption DEF Schema, Version
  <2>2. own[p] = Schema \ made /\ made \subseteq Schema
    BY <1>2, <2>1 DEF DatabaseInv, SchemaTyped
  <2>. QED
    BY <1>1, <2>2
<1>4. /\ pc' \in [Processes -> PgPlaces]
      /\ pc'[p] = "serving" /\ \A q \in Processes \ {p} : pc'[q] = pc[q]
      /\ own'[p] = {} /\ \A q \in Processes \ {p} : own'[q] = own[q]
  BY <1>1 DEF DatabaseInv, SchemaTyped, PgPlaces
<1>5. \A q \in Processes : pc'[q] \notin Inside /\ own'[q] = {} /\ lock' # q
  <2>1. \A q \in Processes \ {p} : pc[q] \notin Inside /\ own[q] = {}
    BY <1>2 DEF DatabaseInv, HolderMakes
  <2>. QED
    BY <1>1, <1>4, <2>1, ProcessesAssumption DEF Inside
<1>6. HolderMakes'
  BY <1>5 DEF HolderMakes, Inside
<1>7. SchemaTyped' /\ ServedIsMade' /\ NoFile'
  BY <1>1, <1>3 DEF DatabaseInv, SchemaTyped, ServedIsMade, NoFile, Holders, Schema, Version
<1>. QED
  BY <1>4, <1>6, <1>7 DEF DatabaseInv

\* Only a connection that breaks makes a start raise: the one that has the lock
\* makes what nobody else has made.
LEMMA OnlyLostFail ==
  ASSUME DatabaseInv, \A q \in Processes : pc[q] = "degraded" => q \in lost,
         [PgNext]_storevars
  PROVE  \A q \in Processes : pc'[q] = "degraded" => q \in lost'
<1>1. pc \in [Processes -> PgPlaces]
  BY DEF DatabaseInv
<1>2. ASSUME NEW p \in Processes, NEW label \in {"lock", "look", "make", "commit", "serving"},
             pc' = [pc EXCEPT ![p] = label], lost' = lost
      PROVE  \A q \in Processes : pc'[q] = "degraded" => q \in lost'
  BY <1>1, <1>2
<1>3. ASSUME NEW p \in Processes, Connect(p) \/ Lock(p) \/ Look(p) \/ Commit(p)
      PROVE  \A q \in Processes : pc'[q] = "degraded" => q \in lost'
  <2>1. lost' = lost
    BY <1>3 DEF Connect, Lock, Lock_Free, Look, Commit, pgvars
  <2>2. \E label \in {"lock", "look", "make", "commit", "serving"} :
          pc' = [pc EXCEPT ![p] = label]
    BY <1>3 DEF Connect, Lock, Lock_Free, Look, Commit, PgGoto, Goto
  <2>. QED
    BY <1>2, <2>1, <2>2
<1>4. ASSUME NEW p \in Processes, Make(p)
      PROVE  \A q \in Processes : pc'[q] = "degraded" => q \in lost'
  <2>1. step[p] \notin made
    BY <1>4 DEF Make, DatabaseInv, HolderMakes
  <2>2. lost' = lost /\ \E label \in {"look", "commit"} : pc' = [pc EXCEPT ![p] = label]
    BY <1>4, <2>1 DEF Make, PgGoto, Goto
  <2>. QED
    BY <1>2, <2>2
<1>5. ASSUME NEW p \in Processes, LoseConnection(p)
      PROVE  \A q \in Processes : pc'[q] = "degraded" => q \in lost'
  <2>1. pc' = [pc EXCEPT ![p] = "degraded"] /\ lost' = lost \cup {p}
    BY <1>5 DEF LoseConnection, Fail, Goto
  <2>. QED
    BY <1>1, <2>1
<1>6. ASSUME NEW p \in Processes, PgDie(p)
      PROVE  \A q \in Processes : pc'[q] = "degraded" => q \in lost'
  <2>1. pc' = [pc EXCEPT ![p] = "start"] /\ lost' = lost \ {p}
    BY <1>6 DEF PgDie, Die, Goto
  <2>. QED
    BY <1>1, <2>1
<1>7. CASE Reap \/ UNCHANGED storevars
  BY <1>7 DEF Reap, storevars, vars, pgvars
<1>. QED
  BY <1>3, <1>4, <1>5, <1>6, <1>7 DEF PgNext, PgStartUp

\* Every step of every process at the database keeps the invariant.
LEMMA NextDatabase == DatabaseInv /\ [PgNext]_storevars => DatabaseInv'
<1> SUFFICES ASSUME DatabaseInv, [PgNext]_storevars PROVE DatabaseInv'
  OBVIOUS
<1>1. CASE UNCHANGED storevars
  BY <1>1 DEF storevars, vars, pgvars, DatabaseInv, SchemaTyped, HolderMakes, ServedIsMade,
              NoFile, Schema, Version
<1>2. CASE Reap
  <2>1. /\ lock = "orphan" /\ lock' = "nobody"
        /\ UNCHANGED <<pc, contracts, legacy, committed, made, step, own, lost>>
    BY <1>2 DEF Reap, vars
  <2>2. \A q \in Processes : lock # q /\ lock' # q
    BY <2>1, ProcessesAssumption
  <2>3. HolderMakes'
    <3>1. \A q \in Processes : pc[q] \notin Inside /\ own[q] = {}
      BY <2>2 DEF DatabaseInv, HolderMakes
    <3>. QED
      BY <2>1, <2>2, <3>1 DEF HolderMakes, Inside
  <2>. QED
    BY <2>1, <2>3 DEF DatabaseInv, SchemaTyped, ServedIsMade, NoFile, Holders, Schema, Version
<1>3. ASSUME NEW p \in Processes, LoseConnection(p) PROVE DatabaseInv'
  <2>1. RollBack(p, "nobody") /\ Goto(p, "degraded") /\ lost' = lost \cup {p}
        /\ UNCHANGED <<contracts, legacy, committed>>
    BY <1>3 DEF LoseConnection, Fail
  <2>2. lost' \subseteq Processes
    BY <2>1 DEF DatabaseInv, SchemaTyped
  <2>. QED
    BY <2>1, <2>2, RollBackKeeps
<1>4. ASSUME NEW p \in Processes, PgDie(p) PROVE DatabaseInv'
  <2>1. RollBack(p, "orphan") /\ Goto(p, "start") /\ lost' = lost \ {p}
        /\ UNCHANGED <<contracts, legacy, committed>>
    BY <1>4 DEF PgDie, Die
  <2>2. lost' \subseteq Processes
    BY <2>1 DEF DatabaseInv, SchemaTyped
  <2>. QED
    BY <2>1, <2>2, RollBackKeeps
<1>. QED
  BY <1>1, <1>2, <1>3, <1>4, LockKeeps, WorkKeeps, CommitKeeps DEF PgNext, PgStartUp

(***************************************************************************)
(* Either backend.                                                         *)
(***************************************************************************)

\* The invariant of a store's start: the file's or the database's.
StartInv ==
  /\ SchemaTyped
  /\ backend \in {"sqlite", "postgresql"}
  /\ backend = "sqlite" => FileInv
  /\ backend = "postgresql" => DatabaseInv

\* Who goes on, at the file or at the database.
GoingOnInv ==
  /\ backend = "sqlite" => (Processes # {} => SomebodyGoesOn) /\ CopiesAtPeace
  /\ backend = "postgresql" => \A p \in Processes : pc[p] = "degraded" => p \in lost

\* A file of an earlier release, or a database with the whole schema or none.
LEMMA InitStart == StoreInit => StartInv
<1> SUFFICES ASSUME StoreInit PROVE StartInv
  OBVIOUS
<1>1. /\ step = [p \in Processes |-> 1] /\ own = [p \in Processes |-> {}]
      /\ lock = "nobody" /\ lost = {}
      /\ made \in {{}, Schema}
      /\ pc = [p \in Processes |-> "start"]
  BY DEF StoreInit, Init
<1>2. SchemaTyped
  <2>1. 1 \in 1..(Version + 1)
    BY StatementsAssumption DEF Version
  <2>. QED
    BY <1>1, <2>1 DEF SchemaTyped, Holders
<1>3. ASSUME backend = "postgresql" PROVE DatabaseInv
  <2>1. contracts = None /\ legacy = None /\ committed = {}
    BY <1>3 DEF StoreInit, Init, RowsOf, None
  <2>2. pc \in [Processes -> PgPlaces]
    BY <1>1 DEF PgPlaces, PgStarting
  <2>3. \A p \in Processes : lock # p
    BY <1>1, ProcessesAssumption
  <2>4. HolderMakes /\ ServedIsMade
    BY <1>1, <2>3 DEF HolderMakes, ServedIsMade, Inside
  <2>. QED
    BY <1>2, <2>1, <2>2, <2>4 DEF DatabaseInv, NoFile
<1>. QED
  BY <1>2, <1>3, InitFile DEF StoreInit, StartInv

\* A store stays with its backend, which keeps its own invariant.
LEMMA NextStart == StartInv /\ [StoreNext]_storevars => StartInv'
<1> SUFFICES ASSUME StartInv, [StoreNext]_storevars PROVE StartInv'
  OBVIOUS
<1>1. CASE UNCHANGED storevars
  <2>1. UNCHANGED vars /\ UNCHANGED <<backend, made, step, own, lock, lost>>
    BY <1>1 DEF storevars, pgvars
  <2>2. SchemaTyped'
    BY <2>1 DEF StartInv, SchemaTyped, Schema, Version
  <2>. QED
    BY <1>1, <2>1, <2>2, NextFile, NextDatabase DEF StartInv
<1>2. CASE backend = "sqlite" /\ Next /\ UNCHANGED pgvars /\ UNCHANGED backend
  <2>1. SchemaTyped'
    BY <1>2 DEF pgvars, StartInv, SchemaTyped, Schema, Version
  <2>. QED
    BY <1>2, <2>1, NextFile DEF StartInv
<1>3. CASE backend = "postgresql" /\ PgNext /\ UNCHANGED backend
  BY <1>3, NextDatabase DEF StartInv, DatabaseInv
<1>. QED
  BY <1>1, <1>2, <1>3 DEF StoreNext

\* Store.__init__ (store.py), through any deaths: the tables keep what the
\* theorems below rest on.
THEOREM StartInvariance == StoreSpec => []StartInv
<1>. QED
  BY InitStart, NextStart, PTL DEF StoreSpec

\* Starts do not end each other: at the file somebody goes on, and at the
\* database only who lost its connection does not.
LEMMA GoingOn == StoreSpec => []GoingOnInv
<1>1. StoreInit => GoingOnInv
  <2>1. ASSUME StoreInit PROVE \A p \in Processes : pc[p] # "degraded"
    BY <2>1 DEF StoreInit, Init
  <2>. QED
    BY <2>1, InitSomebody DEF StoreInit, GoingOnInv
<1>2. StartInv /\ GoingOnInv /\ [StoreNext]_storevars => GoingOnInv'
  <2> SUFFICES ASSUME StartInv, GoingOnInv, [StoreNext]_storevars PROVE GoingOnInv'
    OBVIOUS
  <2>1. backend' = backend
    BY DEF StoreNext, storevars
  <2>2. CASE backend = "sqlite"
    <3>1. [Next]_vars
      BY <2>2 DEF StoreNext, storevars
    <3>. QED
      BY <2>1, <2>2, <3>1, NextSomebody DEF StartInv, GoingOnInv
  <2>3. CASE backend = "postgresql"
    <3>1. [PgNext]_storevars
      BY <2>3 DEF StoreNext
    <3>. QED
      BY <2>1, <2>3, <3>1, OnlyLostFail DEF StartInv, GoingOnInv
  <2>. QED
    BY <2>2, <2>3 DEF StartInv
<1>. QED
  BY <1>1, <1>2, StartInvariance, PTL DEF StoreSpec

\* _init_sqlite, _migrate_contract_primary_key (store.py): processes that start
\* at one file never knock each other all out, wherever any of them dies.
THEOREM StartsLeaveSomebody == StoreSpec => []SomebodyIsLeft
<1>1. ASSUME GoingOnInv, backend = "sqlite", Processes # {}
      PROVE  \E p \in Processes : pc[p] # "degraded"
  <2>1. SomebodyGoesOn
    BY <1>1 DEF GoingOnInv
  <2>. QED
    BY <2>1 DEF SomebodyGoesOn, Fine, Hopeful
<1>2. GoingOnInv => SomebodyIsLeft
  BY <1>1 DEF SomebodyIsLeft
<1>. QED
  BY <1>2, GoingOn, PTL

\* _init_postgres (store.py): no start makes another one raise, and who has the
\* advisory lock waits for nobody.
THEOREM StartsDoNotCollide == StoreSpec => []NobodyIsPutOut
<1>1. ASSUME DatabaseInv, NEW p \in Processes, lock = p
      PROVE  pc[p] \in {"look", "make", "commit"} /\ \A q \in Processes \ {p} : own[q] = {}
  BY <1>1 DEF DatabaseInv, HolderMakes, Inside
<1>2. StartInv /\ GoingOnInv => NobodyIsPutOut
  BY <1>1 DEF StartInv, GoingOnInv, NobodyIsPutOut
<1>. QED
  BY <1>2, GoingOn, StartInvariance, PTL

\* _init_postgres: the schema is there as a whole or not at all, and whoever
\* serves has all of it; and every variable is of its type on either backend.
THEOREM SchemaNeverHalf == StoreSpec => []StoreInv
<1>1. ASSUME StartInv PROVE StoreTypeOK
  <2>1. ASSUME FileInv PROVE TypeOK
    <3>1. ASSUME NEW t \in contracts \cup legacy,
                 NEW x \in RowsOf(contracts) \cup RowsOf(legacy),
                 NEW y \in RowsOf(contracts) \cup RowsOf(legacy),
                 {x, y} \subseteq t.rows, x.id = y.id
          PROVE  x = y \/ (x.tenant # y.tenant /\ t.key # "id")
      BY <2>1, <3>1 DEF FileInv, Tidy, Keyed
    <3>. QED
      BY <2>1, <3>1 DEF FileInv, Tidy, TypeOK, Places
  <2>. QED
    BY <1>1, <2>1 DEF StartInv, StoreTypeOK, DatabaseInv, SchemaTyped, PgPlaces, Schema
<1>2. StartInv => SchemaIsWhole
  BY DEF StartInv, DatabaseInv, SchemaTyped, ServedIsMade, SchemaIsWhole
<1>. QED
  BY <1>1, <1>2, StartInvariance, StartsLeaveSomebody, StartsDoNotCollide, PTL DEF StoreInv

\* _migrate_contract_primary_key (store.py): no row that was ever committed is
\* destroyed, whoever dies and whichever processes start at once.
THEOREM MigrationDestroysNothing == StoreSpec => []NothingDestroyed
<1>1. StartInv => NothingDestroyed
  BY DEF StartInv, FileInv, DatabaseInv, NoFile, NothingDestroyed
<1>. QED
  BY <1>1, StartInvariance, PTL

\* The same: a migration that nobody cuts short leaves every row where the
\* store reads it.
THEOREM UncutMigrationKeepsAll == StoreSpec => []MigrationKeepsAll
<1>1. ASSUME FileInv, ~cut, \A p \in Processes : pc[p] \notin Migrating
      PROVE  committed \subseteq RowsOf(contracts)
  <2>1. RowsOf(legacy) = {}
    BY <1>1 DEF FileInv, OneMigrates, Exists, None, RowsOf
  <2>. QED
    BY <1>1, <2>1 DEF FileInv, NothingDestroyed
<1>2. StartInv => MigrationKeepsAll
  BY <1>1 DEF StartInv, DatabaseInv, NoFile, MigrationKeepsAll
<1>. QED
  BY <1>2, StartInvariance, PTL

\* The same: who serves finds no table whose ids are unique across workspaces.
THEOREM ServedTableIsScoped == StoreSpec => []ServedIsScoped
<1>1. ASSUME FileInv, \E p \in Processes : pc[p] = "serving", NEW t \in contracts
      PROVE  t.key = "tenant_id, id" /\ t.scoped
  <2>1. t.key # "id" /\ t.scoped
    BY <1>1 DEF FileInv, BareKeyIsPast, Tidy, Keyed
  <2>2. t \in Tables
    BY <1>1, SlotTable DEF FileInv, Tidy, None
  <2>. QED
    BY <2>1, <2>2 DEF Tables
<1>2. StartInv => ServedIsScoped
  BY <1>1 DEF StartInv, DatabaseInv, NoFile, None, ServedIsScoped
<1>. QED
  BY <1>2, StartInvariance, PTL
=============================================================================
