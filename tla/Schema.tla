------------------------------- MODULE Schema -------------------------------
(***************************************************************************)
(* The bootstrap of the heartbeat database (persistence/schema.py,         *)
(* initialize_schema): validate what is there, then create what is missing *)
(* and stamp the version in one transaction. Between the validation and    *)
(* the first write nothing is locked, so another process may bootstrap the *)
(* same file; any statement may raise; and a process that dies leaves the  *)
(* committed database as it was.                                           *)
(*                                                                         *)
(* This module has the state and the operations; Startup composes them     *)
(* with the life of the process.                                           *)
(***************************************************************************)
EXTENDS Integers

CONSTANT IndexNames     \* what the name of the index may stand for at first

\* none: free; canonical, columns: an index of the heartbeat table, with the
\* canonical columns or others; taken: a table or view; elsewhere: an index
\* of some other table.
ASSUME SchemaAssumption ==
    IndexNames \subseteq {"none", "canonical", "columns", "taken", "elsewhere"}

VARIABLES db,      \* the committed database
          draft,   \* what the open transaction has made of it
          seen,    \* the database as initialize_schema validated it
          step     \* the statement of initialize_schema to be run next

schema == <<db, draft, seen, step>>

SCHEMA_VERSION == 1

\* The columns of the table are the canonical ones or not; its name may
\* also belong to a view.
Database ==
    [version : -1..2, table : {"none", "canonical", "other", "view"},
     index : IndexNames \cup {"canonical"}]

NoDraft == [version |-> "none"]

heartbeat_table_exists(d) == d.table \in {"canonical", "other"}

index_on_table(d) ==
    heartbeat_table_exists(d) /\ d.index \in {"canonical", "columns"}

\* A database in the field: an index of the table comes with the table.
Plausible(d) ==
    d.index \in {"canonical", "columns"} => heartbeat_table_exists(d)

\* The checks before any write. A version below SCHEMA_VERSION - a negative
\* one too - is an unversioned database.
validate(d) ==
    LET wrongColumns == heartbeat_table_exists(d) /\ d.table # "canonical"
        wrongIndex == index_on_table(d) /\ d.index # "canonical"
        complete == heartbeat_table_exists(d) /\ index_on_table(d)
    IN  CASE d.version > SCHEMA_VERSION \/ wrongColumns \/ wrongIndex ->
                "refused"
          [] d.version = SCHEMA_VERSION /\ ~wrongColumns /\ ~wrongIndex ->
                IF complete THEN "accepted" ELSE "refused"
          [] d.version < SCHEMA_VERSION /\ ~wrongColumns /\ ~wrongIndex ->
                "write"

SchemaInit ==
    /\ db \in {d \in Database : Plausible(d)}
    /\ draft = NoDraft
    /\ seen = db
    /\ step = "idle"

-----------------------------------------------------------------------------
(* SQLite, as far as the three statements go.                              *)

\* CREATE TABLE IF NOT EXISTS: a table or a view of that name is left alone.
TableCreated(d) == [d EXCEPT !.table = IF @ = "none" THEN "canonical" ELSE @]

\* CREATE INDEX raises on a view, and on a name that is a table's.
IndexRaises(d) == d.table = "view" \/ d.index = "taken"

\* CREATE INDEX IF NOT EXISTS: any index of that name is left alone.
IndexCreated(d) == [d EXCEPT !.index = IF @ = "none" THEN "canonical" ELSE @]

Stamped(d) == [d EXCEPT !.version = SCHEMA_VERSION]

\* The database the next statement works on.
Working == IF draft = NoDraft THEN db ELSE draft

-----------------------------------------------------------------------------
(* initialize_schema.                                                      *)

BeginBootstrap ==
    /\ step = "idle"
    /\ step' = "validate"
    /\ UNCHANGED <<db, draft, seen>>

Accept ==
    /\ step = "validate"
    /\ validate(db) = "accepted"
    /\ step' = "idle"
    /\ UNCHANGED <<db, draft, seen>>

Refuse ==
    /\ step = "validate"
    /\ validate(db) = "refused"
    /\ step' = "idle"
    /\ UNCHANGED <<db, draft, seen>>

\* BEGIN; what was seen decides which statements follow.
BeginTransaction ==
    /\ step = "validate"
    /\ validate(db) = "write"
    /\ seen' = db
    /\ step' = "table"
    /\ UNCHANGED <<db, draft>>

\* Mutant: no transaction, every statement commits itself.
CreateTableAutocommit ==
    /\ step = "table"
    /\ db' = TableCreated(db)
    /\ draft' = db'
    /\ step' = "index"
    /\ UNCHANGED seen

CreateTable ==
    /\ step = "table"
    /\ draft' = IF heartbeat_table_exists(seen)
                THEN draft
                ELSE TableCreated(Working)
    /\ step' = "index"
    /\ UNCHANGED <<db, seen>>

CreateIndex ==
    /\ step = "index"
    /\ ~index_on_table(seen) => ~IndexRaises(Working)
    /\ draft' = IF index_on_table(seen) THEN draft ELSE IndexCreated(Working)
    /\ step' = "stamp"
    /\ UNCHANGED <<db, seen>>

\* PRAGMA user_version
Stamp ==
    /\ step = "stamp"
    /\ draft' = Stamped(Working)
    /\ step' = "commit"
    /\ UNCHANGED <<db, seen>>

Commit ==
    /\ step = "commit"
    /\ db' = draft
    /\ draft' = NoDraft
    /\ step' = "idle"
    /\ UNCHANGED seen

\* A statement raises (rollback), the commit does, or the process dies: the
\* transaction is gone.
Abandon ==
    /\ draft' = NoDraft
    /\ step' = "idle"
    /\ UNCHANGED <<db, seen>>

StatementRaises ==
    /\ step \in {"validate", "table", "index", "stamp", "commit"}
    /\ Abandon

\* Another process bootstraps the file, which a transaction that has
\* written keeps it from.
OtherBootstraps ==
    /\ draft = NoDraft
    /\ validate(db) = "write"
    /\ ~index_on_table(db) => ~IndexRaises(TableCreated(db))
    /\ db' = Stamped(IndexCreated(TableCreated(db)))
    /\ UNCHANGED <<draft, seen, step>>
=============================================================================
