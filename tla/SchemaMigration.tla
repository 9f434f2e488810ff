--------------------------- MODULE SchemaMigration ---------------------------
(***************************************************************************)
(* Storage._initialize (backend/app/storage.py): at every start it creates *)
(* the tables that are missing, adds missing columns of contract_profiles, *)
(* and rebuilds the tables whose primary key is not yet chain and address. *)
(*                                                                         *)
(* All statements run in one `with` block, but that is no transaction:     *)
(* Python's sqlite3 begins one before an INSERT only.  A statement before  *)
(* the first INSERT is committed by itself, those from it on are committed *)
(* at the end of the block or rolled back.  The process may crash, or a    *)
(* statement fail, which ends the process too, after any of them.          *)
(***************************************************************************)
EXTENDS Integers

CONSTANTS
  Id,           \* what identifies a row on one chain
  Chain,        \* the chains, "ethereum" among them
  MaxStores,    \* bound: rows stored by the service
  MaxCrashes,   \* bound: crashes
  None

Table  == {"contracts", "scans", "protocol_contracts"}
Row    == [chain : Chain, id : Id]
Column == {"last_refresh_attempt_at", "last_refresh_error"}

\* The shapes of a table: without the column chain, with it but with a key
\* that leaves it out, and as it shall be.
Schema == {"legacy", "chained", "multichain"}

Content == [schema : Schema, rows : SUBSET Row]

\* A database: the tables, the copies (contracts_v2, ...) under construction,
\* and the later columns of contract_profiles; what is absent is None.
IsDb(db) ==
  /\ DOMAIN db = {"main", "copy", "columns"}
  /\ DOMAIN db.main = Table /\ \A t \in Table : db.main[t] = None \/ db.main[t] \in Content
  /\ DOMAIN db.copy = Table /\ \A t \in Table : db.copy[t] = None \/ db.copy[t] \in SUBSET Row
  /\ db.columns = None \/ db.columns \in SUBSET Column

ASSUME ChainAssumption  == "ethereum" \in Chain
ASSUME BoundsAssumption == MaxStores \in Nat /\ MaxCrashes \in Nat
ASSUME NoneAssumption   ==
  /\ \A content \in Content : content # None
  /\ \A rows \in SUBSET Row : rows # None
  /\ \A columns \in SUBSET Column : columns # None

VARIABLES
  disk,          \* the database, as committed
  conn,          \* the database, as the connection sees it
  inTransaction,
  pc,            \* the statement that comes next
  table,         \* the table it is about
  stored,        \* history: stored[t], the rows t was given
  stores, crashes

vars == <<disk, conn, inTransaction, pc, table, stored, stores, crashes>>

RowsOf(db, t) == IF db.main[t] = None THEN {} ELSE db.main[t].rows

\* An older version left tables without chains, on ethereum only, or none.
Init ==
  /\ \E main \in [Table -> {None} \cup [schema : {"legacy"},
                            rows : SUBSET {r \in Row : r.chain = "ethereum"}]],
        columns \in {None} \cup SUBSET Column :
       disk = [main |-> main, copy |-> [t \in Table |-> None], columns |-> columns]
  /\ conn = disk
  /\ inTransaction = FALSE
  /\ pc = "down"
  /\ table = "contracts"
  /\ stored = [t \in Table |-> RowsOf(disk, t)]
  /\ stores = 0
  /\ crashes = 0

------------------------------------------------------------------------------
\* Statements.

\* A statement that changes the schema joins an open transaction and else
\* commits by itself; one that cannot run raises.
Execute(possible, db) ==
  IF possible
    THEN conn' = db /\ disk' = IF inTransaction THEN disk ELSE db
    ELSE UNCHANGED <<conn, disk>>

\* Mutant: isolation_level=None, autocommit.
InsertAutocommits(db) == conn' = db /\ disk' = db /\ UNCHANGED inTransaction

\* INSERT begins a transaction.
Insert(db) == conn' = db /\ inTransaction' = TRUE /\ UNCHANGED disk

Continue(possible, where) == pc' = IF possible THEN where ELSE "raised"

\* The table whose statements come after those of t.
Following == [contracts |-> "scans", scans |-> "protocol_contracts"]

\* CREATE TABLE IF NOT EXISTS gives protocol_contracts the new key at once.
FreshSchema(t) == IF t = "protocol_contracts" THEN "multichain" ELSE "chained"

\* Mutants: any table with a column chain will do; none ever does.
LacksColumn(schema) == schema = "legacy"
AlwaysRebuild(schema) == schema \in Schema
\* The condition of the _ensure_multichain_ functions.
NeedsRebuild(schema) == schema # "multichain"

\* Mutant: CREATE TABLE, without IF NOT EXISTS.
CopyMustBeNew(t) == conn.copy[t] = None
\* CREATE TABLE IF NOT EXISTS of a copy always runs.
CopyMayBeCreated(t) == TRUE

\* Mutant: the added column is called otherwise.
MisspeltColumn(c) == "last_refresh"
\* The column added where c is missing.
AddedColumn(c) == c

------------------------------------------------------------------------------
\* sqlite3.connect.
Connect ==
  /\ pc = "down"
  /\ pc' = "create"
  /\ table' = "contracts"
  /\ conn' = disk
  /\ inTransaction' = FALSE
  /\ UNCHANGED <<disk, stored, stores, crashes>>

\* CREATE TABLE IF NOT EXISTS, table after table.
CreateTable ==
  /\ pc = "create"
  /\ Execute(TRUE,
       IF conn.main[table] # None THEN conn
       ELSE [conn EXCEPT !.main[table] = [schema |-> FreshSchema(table), rows |-> {}]])
  /\ IF table \in DOMAIN Following
       THEN table' = Following[table] /\ UNCHANGED pc
       ELSE table' = "contracts" /\ pc' = "profiles"
  /\ UNCHANGED <<inTransaction, stored, stores, crashes>>

\* The same for contract_profiles, which has its columns at once.
CreateProfiles ==
  /\ pc = "profiles"
  /\ Execute(TRUE, IF conn.columns # None THEN conn ELSE [conn EXCEPT !.columns = Column])
  /\ pc' = "columns"
  /\ UNCHANGED <<inTransaction, table, stored, stores, crashes>>

\* _ensure_profile_columns: ALTER TABLE ... ADD COLUMN for one that is missing.
AddColumn ==
  /\ pc = "columns"
  /\ \E c \in Column \ conn.columns :
       /\ "last_refresh_attempt_at" \in conn.columns \cup {c}
       /\ Execute(TRUE, [conn EXCEPT !.columns = @ \cup {AddedColumn(c)}])
  /\ UNCHANGED <<inTransaction, pc, table, stored, stores, crashes>>

ColumnsDone ==
  /\ pc = "columns"
  /\ Column \subseteq conn.columns
  /\ pc' = "check"
  /\ UNCHANGED <<disk, conn, inTransaction, table, stored, stores, crashes>>

\* A table is checked, and left or rebuilt.
AfterTable(t) ==
  IF t \in DOMAIN Following THEN table' = Following[t] /\ pc' = "check"
  ELSE table' = t /\ pc' = "commit"

CheckTable ==
  /\ pc = "check"
  /\ IF NeedsRebuild(conn.main[table].schema)
       THEN pc' = "createCopy" /\ UNCHANGED table
       ELSE AfterTable(table)
  /\ UNCHANGED <<disk, conn, inTransaction, stored, stores, crashes>>

\* CREATE TABLE IF NOT EXISTS contracts_v2 (and so on) ...
CreateCopy ==
  /\ pc = "createCopy"
  /\ Execute(CopyMayBeCreated(table),
             [conn EXCEPT !.copy[table] = IF @ = None THEN {} ELSE @])
  /\ Continue(CopyMayBeCreated(table), "insert")
  /\ UNCHANGED <<inTransaction, table, stored, stores, crashes>>

\* ... INSERT OR IGNORE INTO it SELECT 'ethereum', ... FROM contracts ...
FillCopy ==
  /\ pc = "insert"
  /\ Insert([conn EXCEPT !.copy[table] =
       @ \cup {[r EXCEPT !.chain = "ethereum"] : r \in conn.main[table].rows}])
  /\ pc' = "drop"
  /\ UNCHANGED <<table, stored, stores, crashes>>

\* ... DROP TABLE contracts ...
DropTable ==
  /\ pc = "drop"
  /\ LET possible == conn.main[table] # None IN
       /\ Execute(possible, [conn EXCEPT !.main[table] = None])
       /\ Continue(possible, "rename")
  /\ UNCHANGED <<inTransaction, table, stored, stores, crashes>>

\* ... ALTER TABLE contracts_v2 RENAME TO contracts.
RenameCopy ==
  /\ pc = "rename"
  /\ LET possible == conn.main[table] = None /\ conn.copy[table] # None IN
       /\ Execute(possible,
            [conn EXCEPT !.main[table] = [schema |-> "multichain", rows |-> conn.copy[table]],
                         !.copy[table] = None])
       /\ IF possible THEN AfterTable(table) ELSE pc' = "raised" /\ UNCHANGED table
  /\ UNCHANGED <<inTransaction, stored, stores, crashes>>

\* The end of the with block.
Commit ==
  /\ pc = "commit"
  /\ disk' = conn
  /\ inTransaction' = FALSE
  /\ pc' = "serving"
  /\ UNCHANGED <<conn, table, stored, stores, crashes>>

\* The service stores a row, in a transaction of its own.
Store(t, r) ==
  /\ pc = "serving"
  /\ stores < MaxStores
  /\ stores' = stores + 1
  /\ conn' = [conn EXCEPT !.main[t].rows = @ \cup {r}]
  /\ disk' = conn'
  /\ stored' = [stored EXCEPT ![t] = @ \cup {r}]
  /\ UNCHANGED <<inTransaction, pc, table, crashes>>

\* The process ends, at any point; what was not committed is rolled back.
Crash ==
  /\ pc # "down"
  /\ crashes < MaxCrashes
  /\ crashes' = crashes + 1
  /\ pc' = "down"
  /\ table' = "contracts"
  /\ conn' = disk
  /\ inTransaction' = FALSE
  /\ UNCHANGED <<disk, stored, stores>>

Next ==
  \/ Connect
  \/ CreateTable
  \/ CreateProfiles
  \/ AddColumn
  \/ ColumnsDone
  \/ CheckTable
  \/ CreateCopy
  \/ FillCopy
  \/ DropTable
  \/ RenameCopy
  \/ Commit
  \/ \E t \in Table, r \in Row : Store(t, r)
  \/ Crash

Spec == Init /\ [][Next]_vars

------------------------------------------------------------------------------
\* Properties.

Statement == {"create", "profiles", "columns", "check", "createCopy", "insert", "drop",
              "rename", "commit"}

\* Every variable keeps its type; contract_profiles has no other columns.
TypeOK ==
  /\ IsDb(disk)
  /\ IsDb(conn)
  /\ inTransaction \in BOOLEAN
  /\ pc \in Statement \cup {"down", "serving", "raised"}
  /\ table \in Table
  /\ stored \in [Table -> SUBSET Row]
  /\ stores \in Nat /\ crashes \in Nat

\* Every row a table was given is in it, on its chain, in the database a crash
\* at this point would leave (storage.py:93-187): not in a copy only, and also
\* after any number of half migrations.
RowsKept == \A t \in Table : RowsOf(disk, t) = stored[t]

\* A copy that a crash leaves behind is empty (storage.py:103-119): the next
\* start, whose INSERT ignores rows that are there, does not mix in old ones.
LeftoverEmpty == \A t \in Table : disk.copy[t] = None \/ disk.copy[t] = {}

Migrated(db) ==
  /\ \A t \in Table : db.main[t] # None /\ db.main[t].schema = "multichain"
  /\ db.columns = Column

\* The service runs on the new schema, all of it committed
\* (copilot-instructions.md:36): keys that include the chain, all columns, no
\* copies.
ServesNewSchema ==
  pc = "serving" =>
    Migrated(disk) /\ disk = conn /\ ~inTransaction /\ \A t \in Table : disk.copy[t] = None

\* No statement of a start fails on what an earlier, interrupted one has left.
StatementsSucceed == pc # "raised"

\* A start on a migrated database changes nothing: the migration runs once,
\* although it is called at every start.
MigratesOnce == [][Migrated(disk) /\ pc # "serving" => disk' = disk]_vars
==============================================================================
