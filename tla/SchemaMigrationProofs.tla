------------------------- MODULE SchemaMigrationProofs -------------------------
(***************************************************************************)
(* Proofs about SchemaMigration.  The inductive invariant follows the      *)
(* statements: where a table's rows are at each of them, in the connection *)
(* and on disk, and what of the work is done.                              *)
(***************************************************************************)
EXTENDS SchemaMigration, TLAPS

------------------------------------------------------------------------------
\* The invariant.

\* The tables that come before one.
Before == [contracts |-> {}, scans |-> {"contracts"},
           protocol_contracts |-> {"contracts", "scans"}]

Old(db, t) == db.main[t] # None /\ db.main[t].schema # "multichain"

OldRowsOnEthereum(db, t) == Old(db, t) => \A r \in db.main[t].rows : r.chain = "ethereum"

\* A table between rebuilds has its rows, and at most an empty copy, ...
AtRest(db, t) ==
  /\ RowsOf(db, t) = stored[t]
  /\ OldRowsOnEthereum(db, t)
  /\ db.copy[t] # None => db.copy[t] = {} /\ Old(db, t)
\* ... after INSERT it has them twice ...
Filled(db, t) ==
  /\ Old(db, t)
  /\ db.main[t].rows = stored[t]
  /\ db.copy[t] = stored[t]
\* ... and after DROP TABLE in the copy only.
Dropped(db, t) ==
  /\ db.main[t] = None
  /\ db.copy[t] = stored[t]

DiskAtRest == \A t \in Table : AtRest(disk, t)

ConnOk ==
  \A t \in Table :
    /\ t = table /\ pc = "drop" => Filled(conn, t)
    /\ t = table /\ pc = "rename" => Dropped(conn, t)
    /\ ~(t = table /\ pc \in {"drop", "rename"}) => AtRest(conn, t)

\* The tables exist, the columns have been added, and the keys are new, as far
\* as the start has come.
Created ==
  \A t \in Table :
    \/ pc = "create" /\ t \in Before[table]
    \/ pc \in {"profiles", "columns"}
    => conn.main[t] # None

Rebuilding == {"check", "createCopy", "insert", "drop", "rename"}

Columns ==
  /\ pc = "columns" => conn.columns # None
  /\ pc \in Rebuilding \cup {"commit"} => conn.columns = Column

Rebuilt ==
  /\ pc \in Rebuilding =>
       \A t \in Table :
         /\ t \in Before[table] => conn.main[t] # None /\ conn.main[t].schema = "multichain"
         /\ t # table \/ pc # "rename" => conn.main[t] # None
  /\ pc \in {"createCopy", "insert"} => Old(conn, table)
  /\ pc = "insert" => conn.copy[table] # None
  /\ pc = "commit" =>
       \A t \in Table : conn.main[t] # None /\ conn.main[t].schema = "multichain"

\* A transaction is begun for a database that is not migrated yet.
Transaction ==
  /\ ~inTransaction => conn = disk
  /\ inTransaction => pc \in Rebuilding \cup {"commit"} /\ ~Migrated(disk)
  /\ pc \in {"drop", "rename"} => inTransaction

\* The columns are added before the first table is looked at.
FirstTable == pc \in {"profiles", "columns"} => table = "contracts"

Served == pc = "serving" => Migrated(disk)

IInv ==
  /\ TypeOK /\ pc # "raised"
  /\ DiskAtRest /\ ConnOk
  /\ Created /\ Columns /\ Rebuilt /\ Transaction /\ FirstTable /\ Served

------------------------------------------------------------------------------
\* The initial states.

LEMMA InitIInv == ASSUME Init PROVE IInv
<1>1. PICK main \in [Table -> {None} \cup [schema : {"legacy"},
                              rows : SUBSET {r \in Row : r.chain = "ethereum"}]],
           columns \in {None} \cup SUBSET Column :
        disk = [main |-> main, copy |-> [t \in Table |-> None], columns |-> columns]
  BY DEF Init
<1>2. /\ conn = disk /\ inTransaction = FALSE /\ pc = "down" /\ table = "contracts"
      /\ stored = [t \in Table |-> RowsOf(disk, t)] /\ stores = 0 /\ crashes = 0
  BY DEF Init
<1>3. ASSUME NEW t \in Table
      PROVE  /\ disk.main[t] = None \/ /\ disk.main[t] \in Content
                                       /\ \A r \in disk.main[t].rows : r.chain = "ethereum"
             /\ disk.copy[t] = None
  <2>1. disk.main[t] = main[t] /\ disk.copy[t] = None
    BY <1>1
  <2>2. CASE main[t] = None
    BY <2>1, <2>2
  <2>3. CASE main[t] \in [schema : {"legacy"},
                          rows : SUBSET {r \in Row : r.chain = "ethereum"}]
    <3>1. main[t].schema \in Schema /\ main[t].rows \in SUBSET Row
      BY <2>3 DEF Schema
    <3>2. main[t] = [schema |-> main[t].schema, rows |-> main[t].rows]
      BY <2>3
    <3>. QED BY <2>1, <2>3, <3>1, <3>2 DEF Content
  <2>. QED BY <2>2, <2>3
<1>4. IsDb(disk)
  BY <1>1, <1>3 DEF IsDb
<1>5. \A t \in Table : RowsOf(disk, t) \in SUBSET Row /\ RowsOf(disk, t) = stored[t]
  BY <1>2, <1>3 DEF RowsOf, Content
<1>6. TypeOK
  BY <1>2, <1>4, <1>5 DEF TypeOK, Table
<1>7. DiskAtRest
  BY <1>3, <1>5 DEF DiskAtRest, AtRest, OldRowsOnEthereum, Old
<1>8. ConnOk
  BY <1>2, <1>7 DEF ConnOk, DiskAtRest
<1>. QED
  BY <1>2, <1>6, <1>7, <1>8
     DEF IInv, Created, Columns, Rebuilt, Transaction, FirstTable, Served, Rebuilding

------------------------------------------------------------------------------
\* The steps.

LEMMA StepConnect == ASSUME IInv, Connect PROVE IInv'
<1>. USE DEF IInv, Connect
<1>1. TypeOK' /\ pc' # "raised" /\ FirstTable'
  BY DEF TypeOK, Table, Statement, FirstTable
<1>2. DiskAtRest'
  BY DEF DiskAtRest, AtRest, RowsOf, OldRowsOnEthereum, Old
<1>3. ConnOk'
  BY <1>2 DEF ConnOk, DiskAtRest, AtRest, RowsOf, OldRowsOnEthereum, Old
<1>4. Created' /\ Columns' /\ Rebuilt' /\ Transaction' /\ Served'
  BY DEF Created, Columns, Rebuilt, Transaction, Served, Rebuilding, Before
<1>. QED BY <1>1, <1>2, <1>3, <1>4

LEMMA StepCreateTable == ASSUME IInv, CreateTable PROVE IInv'
<1>. DEFINE db == IF conn.main[table] # None THEN conn
                  ELSE [conn EXCEPT !.main[table] = [schema |-> FreshSchema(table), rows |-> {}]]
<1>1. /\ pc = "create" /\ ~inTransaction /\ conn = disk /\ table \in Table
      /\ IsDb(conn) /\ IsDb(disk)
  BY DEF IInv, CreateTable, Transaction, Rebuilding, TypeOK
<1>2. conn' = db /\ disk' = db
  BY <1>1 DEF CreateTable, Execute
<1>3. /\ IsDb(db) /\ db.copy = conn.copy /\ db.columns = conn.columns
      /\ \A s \in Table : s # table => db.main[s] = conn.main[s]
      /\ db.main[table] # None
      /\ conn.main[table] # None => db.main[table] = conn.main[table]
      /\ conn.main[table] = None => db.main[table].rows = {}
  <2>1. CASE conn.main[table] # None
    BY <1>1, <2>1
  <2>2. CASE conn.main[table] = None
    <3>1. [schema |-> FreshSchema(table), rows |-> {}] \in Content
      BY DEF Content, Schema, FreshSchema
    <3>. QED BY <1>1, <2>2, <3>1, NoneAssumption DEF IsDb
  <2>. QED BY <2>1, <2>2
<1>4. UNCHANGED <<inTransaction, stored, stores, crashes>>
  BY DEF CreateTable
<1>5. \/ table = "contracts" /\ table' = "scans" /\ pc' = "create"
      \/ table = "scans" /\ table' = "protocol_contracts" /\ pc' = "create"
      \/ table = "protocol_contracts" /\ table' = "contracts" /\ pc' = "profiles"
  BY <1>1 DEF CreateTable, Following, Table
<1>6. TypeOK' /\ pc' # "raised" /\ FirstTable'
  BY <1>2, <1>3, <1>4, <1>5 DEF IInv, TypeOK, Table, Statement, FirstTable
<1>7. \A t \in Table : AtRest(conn, t)
  BY <1>1 DEF IInv, ConnOk
<1>8. ASSUME NEW t \in Table
      PROVE  /\ RowsOf(db, t) = stored[t]
             /\ OldRowsOnEthereum(db, t)
             /\ db.copy[t] # None => db.copy[t] = {} /\ Old(db, t)
  <2>1. CASE conn.main[t] # None \/ t # table
    BY <1>3, <1>7, <2>1 DEF AtRest, RowsOf, OldRowsOnEthereum, Old
  <2>2. CASE conn.main[t] = None /\ t = table
    BY <1>3, <1>7, <2>2 DEF AtRest, RowsOf, OldRowsOnEthereum, Old
  <2>. QED BY <2>1, <2>2
<1>9. DiskAtRest' /\ ConnOk'
  BY <1>2, <1>4, <1>5, <1>8 DEF DiskAtRest, ConnOk, AtRest, RowsOf, OldRowsOnEthereum, Old
<1>10. Created'
  BY <1>1, <1>2, <1>3, <1>5 DEF IInv, Created, Before, Table
<1>11. Columns' /\ Rebuilt' /\ Transaction' /\ Served'
  BY <1>1, <1>2, <1>4, <1>5 DEF Columns, Rebuilt, Transaction, Served, Rebuilding
<1>. QED BY <1>6, <1>9, <1>10, <1>11 DEF IInv

LEMMA StepCreateProfiles == ASSUME IInv, CreateProfiles PROVE IInv'
<1>. DEFINE db == IF conn.columns # None THEN conn ELSE [conn EXCEPT !.columns = Column]
<1>1. /\ pc = "profiles" /\ ~inTransaction /\ conn = disk /\ IsDb(conn)
  BY DEF IInv, CreateProfiles, Transaction, Rebuilding, TypeOK
<1>2. conn' = db /\ disk' = db /\ pc' = "columns"
  BY <1>1 DEF CreateProfiles, Execute
<1>3. IsDb(db) /\ db.main = conn.main /\ db.copy = conn.copy /\ db.columns # None
  BY <1>1, NoneAssumption DEF IsDb
<1>4. UNCHANGED <<inTransaction, table, stored, stores, crashes>>
  BY DEF CreateProfiles
<1>5. TypeOK' /\ pc' # "raised" /\ FirstTable'
  BY <1>1, <1>2, <1>3, <1>4 DEF IInv, TypeOK, Statement, FirstTable
<1>6. \A t \in Table : AtRest(conn, t)
  BY <1>1 DEF IInv, ConnOk
<1>7. DiskAtRest' /\ ConnOk'
  BY <1>2, <1>3, <1>4, <1>6 DEF DiskAtRest, ConnOk, AtRest, RowsOf, OldRowsOnEthereum, Old
<1>8. Created' /\ Columns' /\ Rebuilt' /\ Transaction' /\ Served'
  BY <1>1, <1>2, <1>3, <1>4
     DEF IInv, Created, Columns, Rebuilt, Transaction, Served, Rebuilding
<1>. QED BY <1>5, <1>7, <1>8 DEF IInv

LEMMA StepAddColumn == ASSUME IInv, AddColumn PROVE IInv'
<1>1. /\ pc = "columns" /\ ~inTransaction /\ conn = disk /\ IsDb(conn)
      /\ conn.columns \in SUBSET Column
  BY DEF IInv, AddColumn, Transaction, Rebuilding, TypeOK, Columns, IsDb
<1>2. PICK c \in Column \ conn.columns :
        Execute(TRUE, [conn EXCEPT !.columns = @ \cup {AddedColumn(c)}])
  BY DEF AddColumn
<1>. DEFINE db == [conn EXCEPT !.columns = @ \cup {AddedColumn(c)}]
<1>3. conn' = db /\ disk' = db
  BY <1>1, <1>2 DEF Execute
<1>4. /\ IsDb(db) /\ db.main = conn.main /\ db.copy = conn.copy
      /\ db.columns = conn.columns \cup {c}
  BY <1>1 DEF IsDb, AddedColumn
<1>5. UNCHANGED <<inTransaction, pc, table, stored, stores, crashes>>
  BY DEF AddColumn
<1>6. TypeOK' /\ pc' # "raised" /\ FirstTable'
  BY <1>3, <1>4, <1>5 DEF IInv, TypeOK, FirstTable
<1>7. \A t \in Table : AtRest(conn, t)
  BY <1>1 DEF IInv, ConnOk
<1>8. DiskAtRest' /\ ConnOk'
  BY <1>1, <1>3, <1>4, <1>5, <1>7
     DEF DiskAtRest, ConnOk, AtRest, RowsOf, OldRowsOnEthereum, Old
<1>9. db.columns # None
  BY <1>1, <1>4, NoneAssumption
<1>10. Created' /\ Columns' /\ Rebuilt' /\ Transaction' /\ Served'
  BY <1>1, <1>3, <1>4, <1>5, <1>9
     DEF IInv, Created, Columns, Rebuilt, Transaction, Served, Rebuilding
<1>. QED BY <1>6, <1>8, <1>10 DEF IInv

LEMMA StepColumnsDone == ASSUME IInv, ColumnsDone PROVE IInv'
<1>1. /\ pc = "columns" /\ pc' = "check" /\ ~inTransaction /\ conn.columns \in SUBSET Column
      /\ conn.columns = Column
  BY DEF IInv, ColumnsDone, Transaction, Rebuilding, TypeOK, Columns, IsDb
<1>2. UNCHANGED <<disk, conn, inTransaction, table, stored, stores, crashes>>
  BY DEF ColumnsDone
<1>3. table = "contracts"
  BY <1>1 DEF IInv, FirstTable
<1>4. TypeOK' /\ pc' # "raised" /\ FirstTable'
  BY <1>1, <1>2 DEF IInv, TypeOK, Statement, FirstTable
<1>5. DiskAtRest' /\ ConnOk'
  BY <1>1, <1>2 DEF IInv, DiskAtRest, ConnOk, AtRest, RowsOf, OldRowsOnEthereum, Old
<1>6. Created' /\ Columns' /\ Rebuilt' /\ Transaction' /\ Served'
  BY <1>1, <1>2, <1>3
     DEF IInv, Created, Columns, Rebuilt, Transaction, Served, Rebuilding, Before
<1>. QED BY <1>4, <1>5, <1>6 DEF IInv

\* Going on to the next table once the keys of one are new.
LEMMA GoesOn ==
  ASSUME NEW t \in Table, AfterTable(t)
  PROVE  /\ table' \in Table /\ pc' \in {"check", "commit"}
         /\ pc' = "check" => Before[table'] = Before[t] \cup {t}
         /\ pc' = "commit" => Table = Before[t] \cup {t}
  BY DEF AfterTable, Following, Table, Before

LEMMA StepCheckTable == ASSUME IInv, CheckTable PROVE IInv'
<1>1. /\ pc = "check" /\ table \in Table
      /\ UNCHANGED <<disk, conn, inTransaction, stored, stores, crashes>>
  BY DEF IInv, CheckTable, TypeOK
<1>2. \A t \in Table : AtRest(conn, t) /\ conn.main[t] # None
  BY <1>1 DEF IInv, ConnOk, Rebuilt, Rebuilding
<1>3. CASE conn.main[table].schema # "multichain"
  <2>1. pc' = "createCopy" /\ UNCHANGED table
    BY <1>1, <1>3 DEF CheckTable, NeedsRebuild
  <2>2. TypeOK' /\ pc' # "raised" /\ FirstTable'
    BY <1>1, <2>1 DEF IInv, TypeOK, Statement, FirstTable
  <2>3. DiskAtRest' /\ ConnOk'
    BY <1>1, <1>2, <2>1 DEF IInv, DiskAtRest, ConnOk, AtRest, RowsOf, OldRowsOnEthereum, Old
  <2>4. Created' /\ Columns' /\ Rebuilt' /\ Transaction' /\ Served'
    BY <1>1, <1>2, <1>3, <2>1
       DEF IInv, Created, Columns, Rebuilt, Transaction, Served, Rebuilding, Old
  <2>. QED BY <2>2, <2>3, <2>4 DEF IInv
<1>4. CASE conn.main[table].schema = "multichain"
  <2>1. AfterTable(table)
    BY <1>1, <1>4 DEF CheckTable, NeedsRebuild
  <2>2. /\ table' \in Table /\ pc' \in {"check", "commit"}
        /\ pc' = "check" => Before[table'] = Before[table] \cup {table}
        /\ pc' = "commit" => Table = Before[table] \cup {table}
    BY <1>1, <2>1, GoesOn
  <2>3. TypeOK' /\ pc' # "raised" /\ FirstTable'
    BY <1>1, <2>2 DEF IInv, TypeOK, Statement, FirstTable
  <2>4. DiskAtRest' /\ ConnOk'
    BY <1>1, <1>2, <2>2 DEF IInv, DiskAtRest, ConnOk, AtRest, RowsOf, OldRowsOnEthereum, Old
  <2>5. Created' /\ Columns' /\ Transaction' /\ Served'
    BY <1>1, <2>2 DEF IInv, Created, Columns, Transaction, Served, Rebuilding
  <2>6. Rebuilt'
    BY <1>1, <1>2, <1>4, <2>2 DEF IInv, Rebuilt, Rebuilding
  <2>. QED BY <2>3, <2>4, <2>5, <2>6 DEF IInv
<1>. QED BY <1>3, <1>4

LEMMA StepCreateCopy == ASSUME IInv, CreateCopy PROVE IInv'
<1>. DEFINE copy == IF conn.copy[table] = None THEN {} ELSE conn.copy[table]
            db   == [conn EXCEPT !.copy[table] = copy]
<1>1. /\ pc = "createCopy" /\ table \in Table /\ IsDb(conn) /\ IsDb(disk)
      /\ pc' = "insert" /\ UNCHANGED <<inTransaction, table, stored, stores, crashes>>
  BY DEF IInv, CreateCopy, Continue, CopyMayBeCreated, TypeOK
<1>2. /\ Old(conn, table) /\ \A t \in Table : AtRest(conn, t) /\ conn.main[t] # None
  BY <1>1 DEF IInv, ConnOk, Rebuilt, Rebuilding
<1>3. conn' = db /\ disk' = IF inTransaction THEN disk ELSE db
  BY DEF CreateCopy, Execute, CopyMayBeCreated
<1>4. copy = {} /\ copy # None /\ copy \in SUBSET Row
  BY <1>1, <1>2, NoneAssumption DEF AtRest
<1>5. /\ IsDb(db) /\ db.main = conn.main /\ db.columns = conn.columns
      /\ db.copy[table] = copy
      /\ \A s \in Table : s # table => db.copy[s] = conn.copy[s]
  <2>. HIDE DEF copy
  <2>. QED BY <1>1, <1>4 DEF IsDb
<1>6. TypeOK' /\ pc' # "raised" /\ FirstTable'
  BY <1>1, <1>3, <1>5 DEF IInv, TypeOK, Statement, FirstTable
<1>7. ASSUME NEW t \in Table
      PROVE  /\ RowsOf(db, t) = stored[t]
             /\ OldRowsOnEthereum(db, t)
             /\ db.copy[t] # None => db.copy[t] = {} /\ Old(db, t)
  BY <1>2, <1>5 DEF AtRest, RowsOf, OldRowsOnEthereum, Old
<1>8. ConnOk'
  BY <1>1, <1>3, <1>7 DEF ConnOk, AtRest, RowsOf, OldRowsOnEthereum, Old
<1>9. DiskAtRest'
  BY <1>1, <1>3, <1>7 DEF IInv, DiskAtRest, AtRest, RowsOf, OldRowsOnEthereum, Old
<1>10. Created' /\ Columns' /\ Rebuilt' /\ Transaction' /\ Served'
  BY <1>1, <1>2, <1>3, <1>4, <1>5
     DEF IInv, Created, Columns, Rebuilt, Transaction, Served, Rebuilding, Old
<1>. QED BY <1>6, <1>8, <1>9, <1>10 DEF IInv

\* The rows INSERT selects are those of the table, as they are on ethereum.
LEMMA StepFillCopy == ASSUME IInv, FillCopy PROVE IInv'
<1>. DEFINE copy == conn.copy[table] \cup
                      {[r EXCEPT !.chain = "ethereum"] : r \in conn.main[table].rows}
            db   == [conn EXCEPT !.copy[table] = copy]
<1>1. /\ pc = "insert" /\ table \in Table /\ IsDb(conn) /\ IsDb(disk) /\ pc' = "drop"
      /\ UNCHANGED <<disk, table, stored, stores, crashes>>
      /\ inTransaction' = TRUE /\ conn' = db
  BY DEF IInv, FillCopy, Insert, TypeOK
<1>2. /\ Old(conn, table) /\ conn.copy[table] # None
      /\ \A t \in Table : AtRest(conn, t) /\ conn.main[t] # None
  BY <1>1 DEF IInv, ConnOk, Rebuilt, Rebuilding
<1>3. conn.copy[table] = {} /\ conn.main[table].rows \in SUBSET Row
  BY <1>1, <1>2 DEF AtRest, IsDb, Content
<1>4. \A r \in conn.main[table].rows : [r EXCEPT !.chain = "ethereum"] = r
  <2>1. TAKE r \in conn.main[table].rows
  <2>2. r \in Row /\ r.chain = "ethereum"
    BY <1>1, <1>2, <1>3 DEF AtRest, OldRowsOnEthereum
  <2>. QED BY <2>2 DEF Row
<1>5. copy = conn.main[table].rows /\ copy \in SUBSET Row
  BY <1>3, <1>4
<1>6. conn.main[table].rows = stored[table]
  BY <1>1, <1>2 DEF AtRest, RowsOf
<1>7. /\ IsDb(db) /\ db.main = conn.main /\ db.columns = conn.columns
      /\ db.copy[table] = stored[table]
      /\ \A s \in Table : s # table => db.copy[s] = conn.copy[s]
  <2>. HIDE DEF copy
  <2>. QED BY <1>1, <1>5, <1>6 DEF IsDb
<1>8. TypeOK' /\ pc' # "raised" /\ FirstTable'
  BY <1>1, <1>7 DEF IInv, TypeOK, Statement, FirstTable
<1>9. ConnOk'
  BY <1>1, <1>2, <1>6, <1>7 DEF ConnOk, Filled, AtRest, RowsOf, OldRowsOnEthereum, Old
<1>10. DiskAtRest'
  BY <1>1 DEF IInv, DiskAtRest, AtRest, RowsOf, OldRowsOnEthereum, Old
<1>11. ~Migrated(disk)
  BY <1>1, <1>2 DEF IInv, Transaction, Migrated, Old
<1>12. Created' /\ Columns' /\ Rebuilt' /\ Transaction' /\ Served'
  BY <1>1, <1>2, <1>7, <1>11
     DEF IInv, Created, Columns, Rebuilt, Transaction, Served, Rebuilding, Migrated
<1>. QED BY <1>8, <1>9, <1>10, <1>12 DEF IInv

LEMMA StepDropTable == ASSUME IInv, DropTable PROVE IInv'
<1>. DEFINE db == [conn EXCEPT !.main[table] = None]
<1>1. /\ pc = "drop" /\ table \in Table /\ IsDb(conn) /\ inTransaction /\ Filled(conn, table)
      /\ \A t \in Table : t # table => AtRest(conn, t) /\ conn.main[t] # None
  BY DEF IInv, DropTable, ConnOk, Transaction, TypeOK, Rebuilt, Rebuilding
<1>2. /\ conn' = db /\ pc' = "rename"
      /\ UNCHANGED <<disk, inTransaction, table, stored, stores, crashes>>
  BY <1>1 DEF DropTable, Execute, Continue, Filled, Old
<1>3. /\ IsDb(db) /\ db.copy = conn.copy /\ db.columns = conn.columns /\ db.main[table] = None
      /\ \A s \in Table : s # table => db.main[s] = conn.main[s]
  BY <1>1 DEF IsDb
<1>4. TypeOK' /\ pc' # "raised" /\ FirstTable'
  BY <1>1, <1>2, <1>3 DEF IInv, TypeOK, Statement, FirstTable
<1>5. ConnOk'
  BY <1>1, <1>2, <1>3
     DEF ConnOk, Filled, Dropped, AtRest, RowsOf, OldRowsOnEthereum, Old
<1>6. DiskAtRest'
  BY <1>2 DEF IInv, DiskAtRest, AtRest, RowsOf, OldRowsOnEthereum, Old
<1>7. table \notin Before[table]
  BY <1>1 DEF Table, Before
<1>8. Created' /\ Columns' /\ Rebuilt' /\ Transaction' /\ Served'
  BY <1>1, <1>2, <1>3, <1>7
     DEF IInv, Created, Columns, Rebuilt, Transaction, Served, Rebuilding, Migrated
<1>. QED BY <1>4, <1>5, <1>6, <1>8 DEF IInv

LEMMA StepRenameCopy == ASSUME IInv, RenameCopy PROVE IInv'
<1>. DEFINE new == [schema |-> "multichain", rows |-> conn.copy[table]]
            db  == [conn EXCEPT !.main[table] = new, !.copy[table] = None]
<1>1. /\ pc = "rename" /\ table \in Table /\ IsDb(conn) /\ inTransaction
      /\ Dropped(conn, table) /\ stored[table] \in SUBSET Row
      /\ \A t \in Table : t # table => AtRest(conn, t) /\ conn.main[t] # None
  BY DEF IInv, RenameCopy, ConnOk, Transaction, TypeOK, Rebuilt, Rebuilding
<1>2. conn.copy[table] # None
  BY <1>1, NoneAssumption DEF Dropped
<1>3. /\ conn' = db /\ AfterTable(table)
      /\ UNCHANGED <<disk, inTransaction, stored, stores, crashes>>
  BY <1>1, <1>2 DEF RenameCopy, Execute, Dropped
<1>4. new \in Content
  BY <1>1 DEF Dropped, Content, Schema
<1>5. /\ IsDb(db) /\ db.columns = conn.columns /\ db.main[table] = new /\ db.copy[table] = None
      /\ \A s \in Table : s # table => db.main[s] = conn.main[s] /\ db.copy[s] = conn.copy[s]
  <2>. HIDE DEF new
  <2>. QED BY <1>1, <1>4 DEF IsDb
<1>6. /\ table' \in Table /\ pc' \in {"check", "commit"}
      /\ pc' = "check" => Before[table'] = Before[table] \cup {table}
      /\ pc' = "commit" => Table = Before[table] \cup {table}
  BY <1>1, <1>3, GoesOn
<1>7. TypeOK' /\ pc' # "raised" /\ FirstTable'
  BY <1>1, <1>3, <1>5, <1>6 DEF IInv, TypeOK, Statement, FirstTable
<1>8. db.main[table] # None
  BY <1>4, <1>5, NoneAssumption
<1>9. ASSUME NEW t \in Table
      PROVE  /\ RowsOf(db, t) = stored[t]
             /\ OldRowsOnEthereum(db, t)
             /\ db.copy[t] # None => db.copy[t] = {} /\ Old(db, t)
  <2>1. CASE t = table
    BY <1>1, <1>5, <1>8, <2>1 DEF Dropped, RowsOf, OldRowsOnEthereum, Old
  <2>2. CASE t # table
    BY <1>1, <1>5, <2>2 DEF AtRest, RowsOf, OldRowsOnEthereum, Old
  <2>. QED BY <2>1, <2>2
<1>10. ConnOk'
  BY <1>3, <1>6, <1>9 DEF ConnOk, AtRest, RowsOf, OldRowsOnEthereum, Old
<1>11. DiskAtRest'
  BY <1>3 DEF IInv, DiskAtRest, AtRest, RowsOf, OldRowsOnEthereum, Old
<1>12. Created' /\ Columns' /\ Transaction' /\ Served'
  BY <1>1, <1>3, <1>5, <1>6
     DEF IInv, Created, Columns, Transaction, Served, Rebuilding, Migrated
<1>13. Rebuilt'
  BY <1>1, <1>3, <1>5, <1>6, <1>8 DEF IInv, Rebuilt, Rebuilding
<1>. QED BY <1>7, <1>10, <1>11, <1>12, <1>13 DEF IInv

LEMMA StepCommit == ASSUME IInv, Commit PROVE IInv'
<1>1. /\ pc = "commit" /\ disk' = conn /\ inTransaction' = FALSE /\ pc' = "serving"
      /\ UNCHANGED <<conn, table, stored, stores, crashes>>
  BY DEF Commit
<1>2. \A t \in Table : AtRest(conn, t)
  BY <1>1 DEF IInv, ConnOk
<1>3. TypeOK' /\ pc' # "raised" /\ FirstTable'
  BY <1>1 DEF IInv, TypeOK, FirstTable
<1>4. DiskAtRest' /\ ConnOk'
  BY <1>1, <1>2 DEF DiskAtRest, ConnOk, AtRest, RowsOf, OldRowsOnEthereum, Old
<1>5. Served'
  BY <1>1 DEF IInv, Served, Migrated, Rebuilt, Columns
<1>6. Created' /\ Columns' /\ Rebuilt' /\ Transaction'
  BY <1>1 DEF Created, Columns, Rebuilt, Transaction, Rebuilding
<1>. QED BY <1>3, <1>4, <1>5, <1>6 DEF IInv

LEMMA StepStore ==
  ASSUME IInv, NEW u \in Table, NEW row \in Row, Store(u, row)
  PROVE  IInv'
<1>. DEFINE db == [conn EXCEPT !.main[u].rows = @ \cup {row}]
<1>1. /\ pc = "serving" /\ conn' = db /\ disk' = db
      /\ stored' = [stored EXCEPT ![u] = @ \cup {row}]
      /\ stores \in Nat /\ stores' = stores + 1
      /\ UNCHANGED <<inTransaction, pc, table, crashes>>
  BY DEF Store, IInv, TypeOK
<1>2. ~inTransaction /\ conn = disk /\ Migrated(conn) /\ IsDb(conn)
  BY <1>1 DEF IInv, Transaction, Served, TypeOK, Rebuilding
<1>3. \A t \in Table : AtRest(conn, t)
  BY <1>1 DEF IInv, ConnOk
<1>4. conn.main[u] \in Content /\ conn.main[u].schema = "multichain"
  BY <1>2 DEF IsDb, Migrated
<1>5. /\ db.main[u] = [schema |-> "multichain", rows |-> conn.main[u].rows \cup {row}]
      /\ \A t \in Table : t # u => db.main[t] = conn.main[t]
      /\ db.copy = conn.copy /\ db.columns = conn.columns
      /\ DOMAIN db = DOMAIN conn /\ DOMAIN db.main = DOMAIN conn.main
  BY <1>2, <1>4 DEF IsDb, Content
<1>6. db.main[u] \in Content
  BY <1>4, <1>5 DEF Content, Schema
<1>7. IsDb(db)
  BY <1>2, <1>5, <1>6 DEF IsDb
<1>8. stored' \in [Table -> SUBSET Row]
  BY <1>1 DEF IInv, TypeOK
<1>9. TypeOK' /\ pc' # "raised" /\ FirstTable'
  BY <1>1, <1>7, <1>8 DEF IInv, TypeOK, FirstTable
<1>10. \A t \in Table : db.main[t] # None /\ db.main[t].schema = "multichain"
  BY <1>2, <1>5, <1>6, NoneAssumption DEF Migrated
<1>11. ASSUME NEW t \in Table PROVE RowsOf(db, t) = stored'[t] /\ db.copy[t] = None
  <2>1. conn.copy[t] = None /\ conn.main[t] # None /\ conn.main[t].rows = stored[t]
    BY <1>2, <1>3 DEF AtRest, Old, Migrated, RowsOf
  <2>2. CASE t = u
    BY <1>1, <1>5, <1>8, <1>10, <2>1, <2>2 DEF RowsOf, IInv, TypeOK
  <2>3. CASE t # u
    BY <1>1, <1>5, <1>8, <1>10, <2>1, <2>3 DEF RowsOf, IInv, TypeOK
  <2>. QED BY <2>2, <2>3
<1>12. DiskAtRest' /\ ConnOk'
  BY <1>1, <1>10, <1>11 DEF DiskAtRest, ConnOk, AtRest, RowsOf, OldRowsOnEthereum, Old
<1>13. Created' /\ Columns' /\ Rebuilt' /\ Transaction' /\ Served'
  BY <1>1, <1>2, <1>5, <1>10
     DEF Created, Columns, Rebuilt, Transaction, Served, Rebuilding, Migrated
<1>. QED BY <1>9, <1>12, <1>13 DEF IInv

LEMMA StepCrash == ASSUME IInv, Crash PROVE IInv'
<1>1. /\ pc' = "down" /\ table' = "contracts" /\ conn' = disk /\ inTransaction' = FALSE
      /\ crashes' = crashes + 1 /\ UNCHANGED <<disk, stored, stores>>
  BY DEF Crash
<1>2. TypeOK' /\ pc' # "raised" /\ FirstTable'
  <2>1. IsDb(disk)' /\ IsDb(conn)'
    BY <1>1 DEF IInv, TypeOK
  <2>2. crashes' \in Nat /\ stores' \in Nat /\ stored' \in [Table -> SUBSET Row]
    BY <1>1 DEF IInv, TypeOK
  <2>. QED BY <1>1, <2>1, <2>2 DEF TypeOK, Table, FirstTable
<1>3. DiskAtRest' /\ ConnOk'
  BY <1>1 DEF IInv, DiskAtRest, ConnOk, AtRest, RowsOf, OldRowsOnEthereum, Old
<1>4. Created' /\ Columns' /\ Rebuilt' /\ Transaction' /\ Served'
  BY <1>1 DEF Created, Columns, Rebuilt, Transaction, Served, Rebuilding
<1>. QED BY <1>2, <1>3, <1>4 DEF IInv

LEMMA StepStutter == ASSUME IInv, UNCHANGED vars PROVE IInv'
<1>1. TypeOK' /\ pc' # "raised" /\ FirstTable'
  BY DEF IInv, TypeOK, FirstTable, vars
<1>2. DiskAtRest' /\ ConnOk'
  BY DEF IInv, DiskAtRest, ConnOk, Filled, Dropped, AtRest, RowsOf, OldRowsOnEthereum, Old, vars
<1>3. Created' /\ Columns' /\ Rebuilt' /\ Transaction' /\ Served'
  BY DEF IInv, Created, Columns, Rebuilt, Transaction, Served, Rebuilding, Migrated, Old, vars
<1>. QED BY <1>1, <1>2, <1>3 DEF IInv

LEMMA StepIInv == ASSUME IInv, [Next]_vars PROVE IInv'
  BY StepConnect, StepCreateTable, StepCreateProfiles, StepAddColumn, StepColumnsDone,
     StepCheckTable, StepCreateCopy, StepFillCopy, StepDropTable, StepRenameCopy, StepCommit,
     StepStore, StepCrash, StepStutter
  DEF Next

------------------------------------------------------------------------------
\* The theorems.

\* Types, the place of every row and the progress of a start hold together at
\* every statement, for any rows, chains and numbers of crashes.
THEOREM Invariance == Spec => []IInv
<1>1. Init => IInv
  BY InitIInv
<1>2. IInv /\ [Next]_vars => IInv'
  BY StepIInv
<1>. QED BY <1>1, <1>2, PTL DEF Spec

\* Every variable keeps its type, and contract_profiles gets no other columns.
THEOREM TypeCorrect == Spec => []TypeOK
<1>1. IInv => TypeOK
  BY DEF IInv
<1>. QED BY <1>1, Invariance, PTL

\* No start, however often interrupted, takes a row from the database on disk.
THEOREM NoRowLost == Spec => []RowsKept
<1>1. IInv => RowsKept
  BY DEF IInv, DiskAtRest, AtRest, RowsKept
<1>. QED BY <1>1, Invariance, PTL

\* A copy left behind on disk is empty.
THEOREM CopiesEmpty == Spec => []LeftoverEmpty
<1>1. IInv => LeftoverEmpty
  BY DEF IInv, DiskAtRest, AtRest, LeftoverEmpty
<1>. QED BY <1>1, Invariance, PTL

\* The service runs on a database all of which is new and committed.
THEOREM ServesMigrated == Spec => []ServesNewSchema
<1>1. ASSUME IInv PROVE ServesNewSchema
  <2>1. SUFFICES ASSUME pc = "serving"
                 PROVE  /\ Migrated(disk) /\ disk = conn /\ ~inTransaction
                        /\ \A t \in Table : disk.copy[t] = None
    BY DEF ServesNewSchema
  <2>2. Migrated(disk) /\ ~inTransaction /\ disk = conn
    BY <1>1, <2>1 DEF IInv, Served, Transaction, Rebuilding
  <2>3. \A t \in Table : disk.copy[t] = None
    BY <1>1, <2>2 DEF IInv, DiskAtRest, AtRest, Old, Migrated
  <2>. QED BY <2>2, <2>3
<1>. QED BY <1>1, Invariance, PTL

\* No statement fails on what an earlier start has left.
THEOREM NeverRaises == Spec => []StatementsSucceed
<1>1. IInv => StatementsSucceed
  BY DEF IInv, StatementsSucceed
<1>. QED BY <1>1, Invariance, PTL

\* A migrated database is changed by the service only, never by a start.
THEOREM MigrationIdempotent == Spec => MigratesOnce
<1>1. ASSUME IInv, [Next]_vars, Migrated(disk), pc # "serving"
      PROVE  disk' = disk
  <2>1. ~inTransaction /\ conn = disk
    BY <1>1 DEF IInv, Transaction
  <2>2. CASE CreateTable
    <3>1. conn.main[table] # None
      BY <1>1, <2>1 DEF IInv, TypeOK, Migrated
    <3>. QED BY <2>1, <2>2, <3>1 DEF CreateTable, Execute
  <2>3. CASE CreateProfiles
    <3>1. conn.columns # None
      BY <1>1, <2>1, NoneAssumption DEF Migrated
    <3>. QED BY <2>1, <2>3, <3>1 DEF CreateProfiles, Execute
  <2>4. CASE AddColumn
    BY <1>1, <2>1, <2>4 DEF AddColumn, Migrated
  <2>5. CASE CreateCopy
    BY <1>1, <2>1, <2>5 DEF CreateCopy, IInv, TypeOK, Rebuilt, Old, Migrated
  <2>6. CASE DropTable \/ RenameCopy
    BY <1>1, <2>1, <2>6 DEF DropTable, RenameCopy, IInv, Transaction
  <2>7. CASE Commit
    BY <2>1, <2>7 DEF Commit
  <2>8. CASE \E t \in Table, r \in Row : Store(t, r)
    BY <1>1, <2>8 DEF Store
  <2>9. CASE Connect \/ ColumnsDone \/ CheckTable \/ FillCopy \/ Crash
    BY <2>9 DEF Connect, ColumnsDone, CheckTable, FillCopy, Insert, Crash
  <2>10. CASE UNCHANGED vars
    BY <2>10 DEF vars
  <2>. QED BY <1>1, <2>2, <2>3, <2>4, <2>5, <2>6, <2>7, <2>8, <2>9, <2>10 DEF Next
<1>. QED BY <1>1, Invariance, PTL DEF Spec, MigratesOnce

==============================================================================
