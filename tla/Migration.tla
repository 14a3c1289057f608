----------------------------- MODULE Migration -----------------------------
(***************************************************************************)
(* openStore (store.go): every command begins by creating what tables are  *)
(* missing and then, column by column, what columns an older version of    *)
(* the program had not known.  There is no transaction around it and no    *)
(* version table; several processes may be at it at once, on a new file or *)
(* on an old one, and any of them may stop half way.                       *)
(*                                                                         *)
(* One action is one SQL statement and what follows it up to the next.     *)
(* Columns that every version had, and the indexes, are left out.          *)
(***************************************************************************)
EXTENDS Integers, Sequences

CONSTANTS
    Process,       \* slots in which one command runs at a time
    TableOrder,    \* the tables, in the order of migrate's CREATE statements
    EvolvedTable   \* the tables of addEvolvedColumns' list, in its order

Table == {TableOrder[i] : i \in DOMAIN TableOrder}

(* An evolved column is its place in the list; it belongs to one table.    *)
Column == DOMAIN EvolvedTable

ColumnsOf(t) == {c \in Column : EvolvedTable[c] = t}

ASSUME MigrationAssumption ==
    /\ TableOrder \in Seq(Table) /\ TableOrder # <<>>
    /\ EvolvedTable \in Seq(Table) /\ EvolvedTable # <<>>

VARIABLES
    tables,     \* tables that exist
    columns,    \* evolved columns that exist
    pc,         \* next statement of the command in each slot
    pos,        \* its place in TableOrder or EvolvedTable
    altered,    \* history: columns added by an ALTER TABLE
    admitted,   \* history: some openStore has succeeded
    refused,    \* history: some openStore failed on a duplicate column
    stopped     \* history: some process died or gave up

schema == <<tables, columns, altered>>
migrationVars == <<schema, pc, pos, admitted, refused, stopped>>

Opening == {"create", "check", "alter"}

(* A file that does not exist yet, or one that some earlier version, or a  *)
(* migration cut short, has left: any tables, with any of their columns.   *)
MigrationInit ==
    /\ tables \in SUBSET Table
    /\ columns \in SUBSET UNION {ColumnsOf(t) : t \in tables}
    /\ altered = {}
    /\ pc = [p \in Process |-> "idle"]
    /\ pos = [p \in Process |-> 1]
    /\ admitted = FALSE
    /\ refused = FALSE
    /\ stopped = FALSE

Goto(p, label, place) ==
    /\ pc' = [pc EXCEPT ![p] = label]
    /\ pos' = [pos EXCEPT ![p] = place]

OpenStore(p) ==
    /\ pc[p] = "idle"
    /\ Goto(p, "create", 1)
    /\ UNCHANGED <<schema, admitted, refused, stopped>>

(* CREATE TABLE IF NOT EXISTS: the present shape, or nothing at all. *)
CreateTable(p) ==
    LET t == TableOrder[pos[p]] IN
    /\ pc[p] = "create"
    /\ tables' = tables \cup {t}
    /\ columns' = IF t \in tables THEN columns ELSE columns \cup ColumnsOf(t)
    /\ IF pos[p] < Len(TableOrder) THEN Goto(p, "create", pos[p] + 1)
                                   ELSE Goto(p, "check", 1)
    /\ UNCHANGED <<altered, admitted, refused, stopped>>

(* "database is locked" in the middle of the block: exec runs it again     *)
(* from its first statement.  The limit of fifty tries is a Stop.          *)
RetryBlock(p) ==
    /\ pc[p] = "create"
    /\ pos[p] > 1
    /\ Goto(p, "create", 1)
    /\ UNCHANGED <<schema, admitted, refused, stopped>>

(* Mutant: the loop runs one past its list. *)
NextColumnLate(p) ==
    IF pos[p] <= Len(EvolvedTable)
    THEN Goto(p, "check", pos[p] + 1) /\ UNCHANGED admitted
    ELSE Goto(p, "opened", 1) /\ admitted' = TRUE

(* addEvolvedColumns' loop goes on, or migrate returns nil. *)
NextColumn(p) ==
    IF pos[p] < Len(EvolvedTable)
    THEN Goto(p, "check", pos[p] + 1) /\ UNCHANGED admitted
    ELSE Goto(p, "opened", 1) /\ admitted' = TRUE

(* Mutant: a column that is there is taken for a migration that is done. *)
CheckColumnOnce(p) ==
    /\ pc[p] = "check"
    /\ \/ pos[p] \in columns /\ Goto(p, "opened", 1) /\ admitted' = TRUE
       \/ pos[p] \notin columns /\ Goto(p, "alter", pos[p]) /\ UNCHANGED admitted
    /\ UNCHANGED <<schema, refused, stopped>>

(* Mutant: the column is looked for by the wrong sign of the answer. *)
CheckColumnInverted(p) ==
    /\ pc[p] = "check"
    /\ \/ pos[p] \notin columns /\ NextColumn(p)
       \/ pos[p] \in columns /\ Goto(p, "alter", pos[p]) /\ UNCHANGED admitted
    /\ UNCHANGED <<schema, refused, stopped>>

(* addColumnIfMissing: the SELECT on pragma_table_info ... *)
CheckColumn(p) ==
    /\ pc[p] = "check"
    /\ \/ pos[p] \in columns /\ NextColumn(p)
       \/ pos[p] \notin columns /\ Goto(p, "alter", pos[p]) /\ UNCHANGED admitted
    /\ UNCHANGED <<schema, refused, stopped>>

(* ... then ALTER TABLE.  Somebody else's column of that name is an error  *)
(* that exec does not retry, and openStore returns it.                     *)
AddColumn(p) ==
    /\ pc[p] = "alter"
    /\ \/ /\ pos[p] \notin columns
          /\ columns' = columns \cup {pos[p]}
          /\ altered' = altered \cup {pos[p]}
          /\ NextColumn(p)
          /\ UNCHANGED refused
       \/ /\ pos[p] \in columns
          /\ Goto(p, "idle", 1)
          /\ refused' = TRUE
          /\ UNCHANGED <<columns, altered, admitted>>
    /\ UNCHANGED <<tables, stopped>>

(* A kill, or a statement that stays busy for all of exec's tries. *)
Stop(p) ==
    /\ pc[p] # "idle"
    /\ Goto(p, "idle", 1)
    /\ stopped' = TRUE
    /\ UNCHANGED <<schema, admitted, refused>>

(* What openStore does after its call; the command itself is Admission's.  *)
MigrationStep(p) ==
    OpenStore(p) \/ CreateTable(p) \/ RetryBlock(p) \/ CheckColumn(p) \/ AddColumn(p)

-----------------------------------------------------------------------------
(* Properties *)

MigrationTypeOK ==
    /\ tables \in SUBSET Table
    /\ columns \in SUBSET Column
    /\ altered \in SUBSET Column
    /\ admitted \in BOOLEAN
    /\ refused \in BOOLEAN
    /\ stopped \in BOOLEAN

(* A command whose openStore succeeded works on the whole schema: no query *)
(* of it fails with "no such column", whoever else was migrating and       *)
(* wherever earlier migrations stopped (store.go:169-183).                 *)
AdmittedSeesSchema ==
    \A p \in Process :
        pc[p] \notin Opening \cup {"idle"} => tables = Table /\ columns = Column

(* Two processes that open an old file at once can fail each other: the    *)
(* later ALTER TABLE of one column is an error.  But they never all fail.  *)
(* If nobody was killed, then for every such failure some process is still *)
(* opening the file or has got in.                                         *)
SomebodyGetsIn ==
    refused /\ ~stopped => admitted \/ \E p \in Process : pc[p] \in Opening
=============================================================================
