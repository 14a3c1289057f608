--------------------------- MODULE AdmissionProofs ---------------------------
(***************************************************************************)
(* Proofs about Admission, for any number of processes, tables, evolved    *)
(* columns and identities.                                                 *)
(*                                                                         *)
(* Tables and columns only ever come into being, so what a process has     *)
(* seen of the schema stays true; that is Seat.  The race of two ALTERs    *)
(* has a winner because columns are added in order: whoever added the      *)
(* latest one is ahead of all the others and can be refused by nobody.     *)
(***************************************************************************)
EXTENDS Admission, TLAPS

Running == {"opened", "print", "act"}

Types ==
    /\ MigrationTypeOK
    /\ pc \in [Process -> Opening \cup {"idle"} \cup Running]
    /\ pos \in [Process -> Nat \ {0}]

(* What a process has made sure of, or knows to have been taken from it.   *)
Seat(p) ==
    /\ pc[p] = "create" =>
          /\ pos[p] \in DOMAIN TableOrder
          /\ \A j \in 1..(pos[p] - 1) : TableOrder[j] \in tables
    /\ pc[p] \in {"check", "alter"} =>
          /\ pos[p] \in Column
          /\ tables = Table
          /\ 1..(pos[p] - 1) \subseteq columns
    /\ pc[p] = "alter" /\ pos[p] \in columns => pos[p] \in altered
    /\ pc[p] \in Running => tables = Table /\ columns = Column

(* Columns are added in the order of the list. *)
InOrder == \A c \in altered : 1..c \subseteq columns

Ahead(p) ==
    /\ pc[p] \in {"check", "alter"}
    /\ \A c \in altered : c < pos[p]

Winner ==
    /\ refused => altered # {}
    /\ altered # {} /\ ~stopped => admitted \/ \E p \in Process : Ahead(p)

SchemaInv == Types /\ InOrder /\ Winner /\ \A p \in Process : Seat(p)

-----------------------------------------------------------------------------
(* The schema grows *)

Grows ==
    /\ tables \subseteq tables' /\ tables' \subseteq Table
    /\ columns \subseteq columns' /\ columns' \subseteq Column
    /\ altered \subseteq altered'
    /\ tables = Table => columns' \ columns \subseteq altered'

LEMMA SeatStays ==
    ASSUME Types, Grows, NEW q \in Process, Seat(q), pc'[q] = pc[q], pos'[q] = pos[q]
    PROVE  Seat(q)'
  BY DEF Types, Grows, Seat, MigrationTypeOK, Running, Opening

LEMMA Lists ==
    /\ Column = 1..Len(EvolvedTable) /\ Len(EvolvedTable) \in Nat \ {0}
    /\ DOMAIN TableOrder = 1..Len(TableOrder) /\ Len(TableOrder) \in Nat \ {0}
    /\ \A i \in DOMAIN TableOrder : TableOrder[i] \in Table
    /\ \A t \in Table : ColumnsOf(t) \subseteq Column
  BY MigrationAssumption DEF Column, Table, ColumnsOf

LEMMA GotoMoves ==
    ASSUME Types, NEW p \in Process, NEW l, NEW n, Goto(p, l, n)
    PROVE  /\ pc'[p] = l /\ pos'[p] = n
           /\ \A q \in Process : q # p => pc'[q] = pc[q] /\ pos'[q] = pos[q]
           /\ l \in Opening \cup {"idle"} \cup Running /\ n \in Nat \ {0} =>
                 /\ pc' \in [Process -> Opening \cup {"idle"} \cup Running]
                 /\ pos' \in [Process -> Nat \ {0}]
  BY DEF Types, Goto

(* A step of p that leaves the schema alone and leads p to a seat of its   *)
(* own keeps all the rest, unless p was the one ahead.                     *)
LEMMA QuietStep ==
    ASSUME SchemaInv, NEW p \in Process, NEW l \in Opening \cup {"idle"} \cup Running,
           NEW n \in Nat \ {0}, Goto(p, l, n), UNCHANGED <<schema, refused>>,
           admitted' \in BOOLEAN, stopped' \in BOOLEAN,
           admitted => admitted', stopped => stopped',
           Seat(p)', Ahead(p) => Ahead(p)' \/ admitted' \/ stopped'
    PROVE  SchemaInv'
  <1>1. Types' /\ Grows /\ InOrder'
    BY GotoMoves DEF SchemaInv, Types, schema, MigrationTypeOK, Grows, InOrder
  <1>2. ASSUME NEW q \in Process PROVE Seat(q)'
    BY <1>1, GotoMoves, SeatStays DEF SchemaInv
  <1>3. ASSUME NEW q \in Process, q # p, Ahead(q) PROVE Ahead(q)'
    BY <1>3, GotoMoves DEF SchemaInv, Ahead, schema
  <1>4. Winner'
    BY <1>3 DEF SchemaInv, Winner, schema
  <1> QED BY <1>1, <1>2, <1>4 DEF SchemaInv

-----------------------------------------------------------------------------
(* One lemma per statement *)

LEMMA CreateTableKeeps ==
    ASSUME SchemaInv, NEW p \in Process, CreateTable(p) PROVE SchemaInv'
  <1> DEFINE t == TableOrder[pos[p]]
  <1>1. pos[p] \in DOMAIN TableOrder /\ t \in Table /\ pc[p] = "create"
    BY Lists DEF SchemaInv, Seat, CreateTable
  <1>2. /\ tables' = tables \cup {t}
        /\ columns' = IF t \in tables THEN columns ELSE columns \cup ColumnsOf(t)
        /\ altered' = altered /\ admitted' = admitted
        /\ refused' = refused /\ stopped' = stopped
    BY DEF CreateTable
  <1>3. Grows
    BY <1>1, <1>2, Lists DEF Grows, SchemaInv, Types, MigrationTypeOK
  <1>4. PICK l \in {"create", "check"}, n \in Nat \ {0} :
            /\ Goto(p, l, n)
            /\ l = "create" => pos[p] < Len(TableOrder) /\ n = pos[p] + 1
            /\ l = "check" => ~(pos[p] < Len(TableOrder)) /\ n = 1
    BY <1>1 DEF CreateTable, SchemaInv, Types
  <1>5. Types'
    BY <1>2, <1>3, <1>4, GotoMoves DEF SchemaInv, Types, MigrationTypeOK, Grows, Opening
  <1>6. \A j \in 1..pos[p] : TableOrder[j] \in tables'
    BY <1>1, <1>2, Lists DEF SchemaInv, Seat
  <1>7. Seat(p)'
    <2>1. CASE l = "create"
      BY <1>1, <1>4, <1>6, <2>1, GotoMoves, Lists DEF SchemaInv, Seat, Running
    <2>2. CASE l = "check"
      <3>1. pos[p] = Len(TableOrder)
        BY <1>1, <1>4, <2>2, Lists
      <3>2. tables' = Table
        BY <1>3, <1>6, <3>1, Lists DEF Table, Grows
      <3> QED BY <1>4, <2>2, <3>2, GotoMoves, Lists DEF SchemaInv, Seat, Running
    <2> QED BY <1>4, <2>1, <2>2
  <1>8. ASSUME NEW q \in Process PROVE Seat(q)'
    BY <1>3, <1>4, <1>7, GotoMoves, SeatStays DEF SchemaInv
  <1>9. ASSUME NEW q \in Process, Ahead(q) PROVE Ahead(q)'
    BY <1>1, <1>2, <1>4, <1>9, GotoMoves DEF SchemaInv, Ahead
  <1>10. Winner' /\ InOrder'
    BY <1>2, <1>3, <1>9 DEF SchemaInv, Winner, InOrder, Grows
  <1> QED BY <1>5, <1>8, <1>10 DEF SchemaInv

LEMMA NextColumnMoves ==
    ASSUME SchemaInv, NEW p \in Process, pos[p] \in Column, NextColumn(p)
    PROVE  /\ admitted => admitted' /\ admitted' \in BOOLEAN
           /\ \/ /\ Goto(p, "check", pos[p] + 1)
                 /\ pos[p] + 1 \in Column /\ admitted' = admitted
              \/ /\ Goto(p, "opened", 1)
                 /\ Column = 1..pos[p] /\ admitted' = TRUE
  <1>1. admitted \in BOOLEAN
    BY DEF SchemaInv, Types, MigrationTypeOK
  <1>2. CASE pos[p] < Len(EvolvedTable)
    <2>1. Goto(p, "check", pos[p] + 1) /\ admitted' = admitted
      BY <1>2 DEF NextColumn
    <2>2. pos[p] + 1 \in Column
      BY <1>2, Lists
    <2> QED BY <1>1, <2>1, <2>2
  <1>3. CASE ~(pos[p] < Len(EvolvedTable))
    <2>1. Goto(p, "opened", 1) /\ admitted' = TRUE
      BY <1>3 DEF NextColumn
    <2>2. Column = 1..pos[p]
      BY <1>3, Lists
    <2> QED BY <2>1, <2>2
  <1> QED BY <1>2, <1>3

LEMMA CheckColumnKeeps ==
    ASSUME SchemaInv, NEW p \in Process, CheckColumn(p) PROVE SchemaInv'
  <1>1. /\ pc[p] = "check" /\ pos[p] \in Column /\ pos[p] \in Nat \ {0}
        /\ tables = Table /\ 1..(pos[p] - 1) \subseteq columns
    BY Lists DEF SchemaInv, Seat, CheckColumn
  <1>2. UNCHANGED <<schema, refused>> /\ stopped' = stopped /\ stopped \in BOOLEAN
    BY DEF CheckColumn, SchemaInv, Types, MigrationTypeOK
  <1>3. CASE pos[p] \in columns
    <2>1. NextColumn(p) /\ 1..pos[p] \subseteq columns
      BY <1>1, <1>3 DEF CheckColumn
    <2>2. CASE Goto(p, "check", pos[p] + 1) /\ pos[p] + 1 \in Column /\ admitted' = admitted
      <3>1. Seat(p)'
        BY <1>1, <1>2, <2>1, <2>2, GotoMoves DEF SchemaInv, Seat, schema, Running
      <3>2. Ahead(p) => Ahead(p)'
        BY <1>1, <1>2, <2>2, GotoMoves, Lists DEF SchemaInv, Types, MigrationTypeOK, Ahead, schema
      <3> QED BY <1>1, <1>2, <2>2, <3>1, <3>2, QuietStep
              DEF Opening, SchemaInv, Types, MigrationTypeOK
    <2>3. CASE Goto(p, "opened", 1) /\ Column = 1..pos[p] /\ admitted' = TRUE
      <3>1. columns = Column
        BY <2>1, <2>3 DEF SchemaInv, Types, MigrationTypeOK
      <3>2. pc'[p] = "opened" /\ tables' = Table /\ columns' = Column
        BY <1>1, <1>2, <2>3, <3>1, GotoMoves DEF SchemaInv, schema
      <3>3. Seat(p)'
        BY <3>2 DEF Seat, Running
      <3>4. admitted' \in BOOLEAN
        BY <2>3
      <3> QED BY <1>2, <2>3, <3>3, <3>4, QuietStep DEF Running
    <2> QED BY <1>1, <2>1, <2>2, <2>3, NextColumnMoves
  <1>4. CASE pos[p] \notin columns
    <2>1. Goto(p, "alter", pos[p]) /\ admitted' = admitted
      BY <1>4 DEF CheckColumn
    <2>2. Seat(p)' /\ (Ahead(p) => Ahead(p)')
      BY <1>1, <1>2, <1>4, <2>1, GotoMoves DEF SchemaInv, Seat, Ahead, schema, Running
    <2> QED BY <1>1, <1>2, <2>1, <2>2, QuietStep DEF Opening, SchemaInv, Types, MigrationTypeOK
  <1> QED BY <1>3, <1>4

(* The process that adds a column is ahead of everybody. *)
LEMMA AddColumnKeeps ==
    ASSUME SchemaInv, NEW p \in Process, AddColumn(p), pos[p] \notin columns
    PROVE  SchemaInv'
  <1> DEFINE c == pos[p]
  <1>1. /\ pc[p] = "alter" /\ c \in Column /\ c \in Nat \ {0}
        /\ tables = Table /\ 1..(c - 1) \subseteq columns
    BY Lists DEF SchemaInv, Seat, AddColumn
  <1>2. /\ columns' = columns \cup {c} /\ altered' = altered \cup {c}
        /\ tables' = tables /\ refused' = refused /\ stopped' = stopped /\ NextColumn(p)
    BY DEF AddColumn
  <1>3. Grows /\ 1..c \subseteq columns'
    BY <1>1, <1>2 DEF Grows, SchemaInv, Types, MigrationTypeOK
  <1>4. ASSUME NEW a \in altered PROVE a < c
    <2>1. a \in Nat \ {0} /\ 1..a \subseteq columns
      BY Lists DEF SchemaInv, InOrder, Types, MigrationTypeOK
    <2> QED BY <1>1, <2>1
  <1>5. InOrder'
    BY <1>2, <1>3 DEF SchemaInv, InOrder
  <1>6. /\ Types' /\ Seat(p)' /\ (admitted' \/ Ahead(p)')
        /\ \A q \in Process : q # p => pc'[q] = pc[q] /\ pos'[q] = pos[q]
    <2>0. MigrationTypeOK'
      BY <1>1, <1>2, NextColumnMoves DEF SchemaInv, Types, MigrationTypeOK
    <2>1. CASE Goto(p, "check", c + 1) /\ c + 1 \in Column
      <3>1. pc'[p] = "check" /\ pos'[p] = c + 1
        BY <2>1, GotoMoves DEF SchemaInv
      <3>2. \A a \in altered' : a < c + 1
        BY <1>1, <1>2, <1>4, Lists DEF SchemaInv, Types, MigrationTypeOK
      <3>3. Ahead(p)' /\ Seat(p)'
        BY <1>1, <1>2, <1>3, <2>1, <3>1, <3>2 DEF Ahead, Seat, Running
      <3> QED BY <1>1, <2>0, <2>1, <3>3, GotoMoves DEF SchemaInv, Types, Opening
    <2>2. CASE Goto(p, "opened", 1) /\ Column = 1..c /\ admitted' = TRUE
      <3>1. Seat(p)'
        BY <1>1, <1>2, <1>3, <2>2, GotoMoves DEF SchemaInv, Types, Grows, Seat, Running
      <3> QED BY <2>0, <2>2, <3>1, GotoMoves DEF SchemaInv, Types, Running
    <2> QED BY <1>1, <1>2, <2>1, <2>2, NextColumnMoves
  <1>7. ASSUME NEW q \in Process PROVE Seat(q)'
    BY <1>3, <1>6, SeatStays DEF SchemaInv
  <1>8. Winner'
    BY <1>2, <1>6 DEF Winner
  <1> QED BY <1>5, <1>6, <1>7, <1>8 DEF SchemaInv

(* Who is refused was not ahead. *)
LEMMA RefusalKeeps ==
    ASSUME SchemaInv, NEW p \in Process, AddColumn(p), pos[p] \in columns
    PROVE  SchemaInv'
  <1>1. pc[p] = "alter" /\ pos[p] \in altered /\ pos[p] \in Nat
    BY DEF SchemaInv, Types, Seat, AddColumn
  <1>2. /\ Goto(p, "idle", 1) /\ refused'
        /\ UNCHANGED <<tables, columns, altered, admitted, stopped>>
    BY DEF AddColumn
  <1>3. Types' /\ Grows /\ InOrder'
    <2>1. refused' \in BOOLEAN
      BY DEF AddColumn
    <2> QED BY <1>2, <2>1, GotoMoves DEF SchemaInv, Types, MigrationTypeOK, Grows, InOrder
  <1>4. Seat(p)'
    BY <1>2, GotoMoves DEF SchemaInv, Seat, Running
  <1>5. ASSUME NEW q \in Process PROVE Seat(q)'
    BY <1>2, <1>3, <1>4, GotoMoves, SeatStays DEF SchemaInv
  <1>6. ASSUME NEW q \in Process, Ahead(q) PROVE Ahead(q)'
    <2>1. q # p
      BY <1>1, <1>6 DEF Ahead
    <2> QED BY <1>2, <1>6, <2>1, GotoMoves DEF SchemaInv, Ahead
  <1>7. Winner'
    BY <1>1, <1>2, <1>6 DEF SchemaInv, Winner
  <1> QED BY <1>3, <1>5, <1>7 DEF SchemaInv

LEMMA LeavingKeeps ==
    ASSUME SchemaInv, NEW p \in Process, NEW l \in {"idle", "print", "act"},
           pc[p] \in Running, Goto(p, l, 1), UNCHANGED <<schema, admitted, refused, stopped>>
    PROVE  SchemaInv'
  <1>1. Seat(p)' /\ ~Ahead(p)
    BY GotoMoves DEF SchemaInv, Seat, Ahead, schema, Running
  <1> QED BY <1>1, QuietStep DEF SchemaInv, Types, MigrationTypeOK, Running

LEMMA StopKeeps ==
    ASSUME SchemaInv, NEW p \in Process, Stop(p) PROVE SchemaInv'
  <1>1. Goto(p, "idle", 1) /\ UNCHANGED <<schema, refused, admitted>>
    BY DEF Stop
  <1>2. stopped' \in BOOLEAN /\ stopped'
    BY DEF Stop
  <1>3. Seat(p)'
    BY <1>1, GotoMoves DEF SchemaInv, Seat, schema, Running
  <1> QED BY <1>1, <1>2, <1>3, QuietStep DEF SchemaInv, Types, MigrationTypeOK

LEMMA OpeningKeeps ==
    ASSUME SchemaInv, NEW p \in Process, OpenStore(p) \/ RetryBlock(p) PROVE SchemaInv'
  <1>1. /\ Goto(p, "create", 1) /\ UNCHANGED <<schema, refused, admitted, stopped>>
        /\ pc[p] \in {"idle", "create"}
    BY DEF OpenStore, RetryBlock
  <1>2. Seat(p)' /\ ~Ahead(p)
    BY <1>1, GotoMoves, Lists DEF SchemaInv, Seat, Ahead, schema, Running
  <1> QED BY <1>1, <1>2, QuietStep DEF SchemaInv, Types, MigrationTypeOK, Opening

LEMMA SchemaInit == AdmissionInit => SchemaInv
  <1> SUFFICES ASSUME AdmissionInit PROVE SchemaInv
    OBVIOUS
  <1> USE DEF AdmissionInit, MigrationInit
  <1>1. columns \subseteq Column
    BY DEF ColumnsOf
  <1>2. Types
    <2>1. pc \in [Process -> Opening \cup {"idle"} \cup Running]
      BY DEF Running, Opening
    <2>2. pos \in [Process -> Nat \ {0}]
      OBVIOUS
    <2>3. MigrationTypeOK
      BY <1>1 DEF MigrationTypeOK
    <2> QED BY <2>1, <2>2, <2>3 DEF Types
  <1>3. InOrder /\ Winner /\ \A p \in Process : Seat(p)
    BY DEF InOrder, Winner, Seat, Running
  <1> QED BY <1>2, <1>3 DEF SchemaInv

LEMMA SchemaStep ==
    ASSUME SchemaInv, [AdmissionNext]_admissionVars PROVE SchemaInv'
  <1>1. CASE UNCHANGED admissionVars
    BY <1>1 DEF admissionVars, migrationVars, schema, SchemaInv, Types, MigrationTypeOK,
                InOrder, Winner, Ahead, Seat
  <1>2. ASSUME NEW p \in Process, MigrationStep(p) PROVE SchemaInv'
    BY <1>2, OpeningKeeps, CreateTableKeeps, CheckColumnKeeps, AddColumnKeeps, RefusalKeeps
       DEF MigrationStep
  <1>3. ASSUME NEW p \in Process, StopCommand(p) PROVE SchemaInv'
    BY <1>3, StopKeeps DEF StopCommand
  <1>4. ASSUME NEW p \in Process, NEW l \in {"idle", "print", "act"}, NEW d,
               pc[p] \in Running, Continue(p, l, d)
        PROVE  SchemaInv'
    BY <1>4, LeavingKeeps DEF Continue
  <1>5. ASSUME NEW p \in Process, NEW i,
               \/ CreateIdentity(p, i) \/ CreateProtectedIdentity(p, i) \/ PrintToken(p)
               \/ Act(p) \/ JustRead(p)
        PROVE  SchemaInv'
    BY <1>4, <1>5 DEF CreateIdentity, CreateProtectedIdentity, PrintToken, Act, JustRead, Running
  <1>6. ASSUME NEW p \in Process, NEW i, NEW f, NEW e, VerifyIdentityToken(p, i, f, e)
        PROVE  SchemaInv'
    BY <1>4, <1>6 DEF VerifyIdentityToken, Running
  <1> QED BY <1>1, <1>2, <1>3, <1>5, <1>6 DEF AdmissionNext

LEMMA SchemaAlways == AdmissionSpec => []SchemaInv
  BY SchemaInit, SchemaStep, PTL DEF AdmissionSpec

(* Whatever shape of file it finds, a command that openStore has let in    *)
(* works on every table and every evolved column (store.go:169-215).       *)
THEOREM AdmittedWorkOnWholeSchema == AdmissionSpec => []AdmittedSeesSchema
  <1>1. SchemaInv => AdmittedSeesSchema
    BY DEF SchemaInv, Types, Seat, AdmittedSeesSchema
  <1> QED BY <1>1, SchemaAlways, PTL

(* As long as nobody dies, the processes that race to add a column are     *)
(* never all refused: the one that is ahead of the rest gets in, or is     *)
(* still at it (store.go:200-215).                                         *)
THEOREM RacingOpensHaveAWinner == AdmissionSpec => []SomebodyGetsIn
  <1>1. SchemaInv => SomebodyGetsIn
    BY DEF SchemaInv, Winner, Ahead, SomebodyGetsIn, Opening
  <1> QED BY <1>1, SchemaAlways, PTL

-----------------------------------------------------------------------------
(* Identities and tokens *)

(* The only token of an identity is its own. *)
IdentityTypes ==
    /\ identities \in [Identity -> Identity \cup {NoRow, Unprotected}]
    /\ \A i \in Identity : identities[i] \in {i, NoRow, Unprotected}
    /\ cmd \in [Process -> [identity : Subject \cup {NoRow}, flag : Token, env : Token]]
    /\ printed \in SUBSET Identity
    /\ lostTokens \in SUBSET Identity

(* What a command knows of the identity it is about to print or act for:   *)
(* rows are never deleted, and never become protected later.               *)
Knows(p) ==
    /\ pc[p] = "print" => cmd[p].identity \in Identity
    /\ pc[p] = "act" /\ cmd[p].identity \in Identity =>
          /\ identities[cmd[p].identity] # NoRow
          /\ Protected(cmd[p].identity) => GivenToken(cmd[p])

IdentityInv ==
    /\ SchemaInv /\ IdentityTypes /\ TokensAreKnown
    /\ \A p \in Process : Knows(p)

LEMMA Distinct ==
    /\ NoRow \notin Identity /\ Unprotected \notin Identity /\ NoRow # Unprotected
    /\ NoToken \notin Identity /\ NoCommand \in [identity : Subject \cup {NoRow}, flag : Token, env : Token]
  BY AdmissionAssumption DEF NoCommand, Token

(* A command moves on to a label and leaves the table of identities, and   *)
(* the command of every other process, alone.                              *)
LEMMA MovingOn ==
    ASSUME IdentityInv, SchemaInv', NEW p \in Process, NEW l, NEW n, NEW d, Goto(p, l, n),
           cmd' = [cmd EXCEPT ![p] = d], identities' = identities,
           d \in [identity : Subject \cup {NoRow}, flag : Token, env : Token],
           printed' \in SUBSET Identity, lostTokens' \in SUBSET Identity, l # "print",
           printed' \cup lostTokens' =
              printed \cup lostTokens \cup (IF pc[p] = "print" THEN {cmd[p].identity} ELSE {}),
           l = "act" /\ d.identity \in Identity =>
              /\ identities[d.identity] # NoRow
              /\ Protected(d.identity) => GivenToken(d)
    PROVE  IdentityInv'
  <1>1. /\ pc'[p] = l /\ cmd'[p] = d
        /\ \A q \in Process : q # p => pc'[q] = pc[q] /\ cmd'[q] = cmd[q]
    BY GotoMoves DEF IdentityInv, SchemaInv, IdentityTypes
  <1>2. IdentityTypes'
    BY DEF IdentityInv, IdentityTypes
  <1>3. ASSUME NEW q \in Process PROVE Knows(q)'
    BY <1>1 DEF IdentityInv, Knows, Protected, GivenToken
  <1>4. printed' \cup Printing' \cup lostTokens' = printed \cup Printing \cup lostTokens
    BY <1>1 DEF Printing
  <1>5. TokensAreKnown'
    BY <1>4 DEF IdentityInv, TokensAreKnown, Protected
  <1> QED BY <1>2, <1>3, <1>5 DEF IdentityInv

(* A new row of i, protected or not. *)
LEMMA NewIdentity ==
    ASSUME IdentityInv, SchemaInv', NEW p \in Process, NEW i \in Identity,
           CreateIdentity(p, i) \/ CreateProtectedIdentity(p, i)
    PROVE  IdentityInv'
  <1> DEFINE protected == CreateProtectedIdentity(p, i)
             d == IF protected THEN [NoCommand EXCEPT !.identity = i] ELSE NoCommand
             hash == IF protected THEN i ELSE Unprotected
             l == IF protected THEN "print" ELSE "idle"
  <1>1. /\ pc[p] = "opened" /\ identities[i] = NoRow
        /\ printed' = printed /\ lostTokens' = lostTokens
    BY DEF CreateIdentity, CreateProtectedIdentity, Continue
  <1>2. /\ identities' = [identities EXCEPT ![i] = hash]
        /\ Goto(p, l, 1) /\ cmd' = [cmd EXCEPT ![p] = d]
    BY DEF CreateIdentity, CreateProtectedIdentity, Continue
  <1>3. /\ d \in [identity : Subject \cup {NoRow}, flag : Token, env : Token]
        /\ protected => d.identity = i
    BY Distinct DEF NoCommand, Subject
  <1> HIDE DEF d
  <1>4. /\ pc'[p] = l /\ cmd'[p] = d
        /\ \A q \in Process : q # p => pc'[q] = pc[q] /\ cmd'[q] = cmd[q]
    BY <1>2, GotoMoves DEF IdentityInv, SchemaInv, IdentityTypes
  <1>5. /\ identities'[i] = hash
        /\ \A x \in Identity : x # i => identities'[x] = identities[x]
    BY <1>2 DEF IdentityInv, IdentityTypes
  <1>6. IdentityTypes'
    BY <1>1, <1>2, <1>3 DEF IdentityInv, IdentityTypes
  <1>7. ASSUME NEW q \in Process PROVE Knows(q)'
    <2>1. CASE q = p
      BY <1>3, <1>4, <2>1 DEF Knows
    <2>2. CASE q # p
      <3>1. pc'[q] = pc[q] /\ cmd'[q] = cmd[q] /\ Knows(q)
        BY <1>4, <2>2 DEF IdentityInv
      <3>2. pc[q] = "act" => cmd[q].identity # i
        BY <1>1, <3>1 DEF Knows
      <3> QED BY <1>5, <3>1, <3>2 DEF Knows, Protected, GivenToken
    <2> QED BY <2>1, <2>2
  <1>8. Printing' = Printing \cup (IF protected THEN {i} ELSE {})
    BY <1>1, <1>3, <1>4 DEF Printing
  <1>9. ASSUME NEW x \in Identity
        PROVE  Protected(x)' <=> x \in printed' \cup Printing' \cup lostTokens'
    <2>1. ~Protected(i)
      BY <1>1, Distinct DEF Protected
    <2>2. Protected(x) <=> x \in printed \cup Printing \cup lostTokens
      BY DEF IdentityInv, TokensAreKnown
    <2>3. Protected(x)' <=> IF x = i THEN protected ELSE Protected(x)
      BY <1>5, Distinct DEF Protected
    <2> QED BY <1>1, <1>8, <2>1, <2>2, <2>3
  <1> QED BY <1>6, <1>7, <1>9 DEF IdentityInv, TokensAreKnown

LEMMA IdentityInit == AdmissionInit => IdentityInv
  <1> SUFFICES ASSUME AdmissionInit PROVE IdentityInv
    OBVIOUS
  <1> USE DEF AdmissionInit, MigrationInit
  <1>1. IdentityTypes
    BY Distinct DEF IdentityTypes
  <1>2. \A p \in Process : Knows(p)
    BY DEF Knows
  <1>3. TokensAreKnown
    BY Distinct DEF TokensAreKnown, Protected, Printing
  <1> QED BY <1>1, <1>2, <1>3, SchemaInit DEF IdentityInv

LEMMA IdentityStep ==
    ASSUME IdentityInv, [AdmissionNext]_admissionVars PROVE IdentityInv'
  <1> DEFINE Commands == [identity : Subject \cup {NoRow}, flag : Token, env : Token]
  <1>1. SchemaInv'
    BY SchemaStep DEF IdentityInv
  <1>2. CASE UNCHANGED admissionVars
    BY <1>1, <1>2 DEF admissionVars, migrationVars, identityVars, IdentityInv, IdentityTypes,
                      Knows, TokensAreKnown, Protected, Printing, GivenToken
  <1>3. ASSUME NEW p \in Process, MigrationStep(p), UNCHANGED identityVars PROVE IdentityInv'
    <2>1. PICK l \in Opening \cup {"idle", "opened"} : \E n : Goto(p, l, n)
      BY <1>3 DEF MigrationStep, OpenStore, CreateTable, RetryBlock, CheckColumn, AddColumn,
                  NextColumn, Opening
    <2>2. pc[p] \in Opening \cup {"idle"}
      BY <1>3 DEF MigrationStep, OpenStore, CreateTable, RetryBlock, CheckColumn, AddColumn,
                  Opening
    <2>3. cmd' = [cmd EXCEPT ![p] = cmd[p]] /\ cmd[p] \in Commands
      BY <1>3 DEF identityVars, IdentityInv, IdentityTypes
    <2> QED BY <1>1, <1>3, <2>1, <2>2, <2>3, MovingOn
            DEF identityVars, Opening, IdentityInv, IdentityTypes
  <1>4. ASSUME NEW p \in Process, StopCommand(p) PROVE IdentityInv'
    <2>1. /\ Goto(p, "idle", 1) /\ cmd' = [cmd EXCEPT ![p] = NoCommand]
          /\ identities' = identities /\ printed' = printed
          /\ lostTokens' = IF pc[p] = "print" THEN lostTokens \cup {cmd[p].identity}
                                              ELSE lostTokens
      BY <1>4 DEF StopCommand, Stop
    <2>2. pc[p] = "print" => cmd[p].identity \in Identity
      BY DEF IdentityInv, Knows
    <2> QED BY <1>1, <2>1, <2>2, Distinct, MovingOn DEF IdentityInv, IdentityTypes
  <1>5. ASSUME NEW p \in Process, PrintToken(p) PROVE IdentityInv'
    <2>1. /\ Goto(p, "idle", 1) /\ cmd' = [cmd EXCEPT ![p] = NoCommand]
          /\ identities' = identities /\ printed' = printed \cup {cmd[p].identity}
          /\ lostTokens' = lostTokens /\ pc[p] = "print"
      BY <1>5 DEF PrintToken, Continue
    <2>2. cmd[p].identity \in Identity
      BY <2>1 DEF IdentityInv, Knows
    <2> QED BY <1>1, <2>1, <2>2, Distinct, MovingOn DEF IdentityInv, IdentityTypes
  <1>6. ASSUME NEW p \in Process, Act(p) \/ JustRead(p) PROVE IdentityInv'
    <2>1. /\ Goto(p, "idle", 1) /\ cmd' = [cmd EXCEPT ![p] = NoCommand]
          /\ identities' = identities /\ printed' = printed
          /\ lostTokens' = lostTokens /\ pc[p] # "print"
      BY <1>6 DEF Act, JustRead, Continue
    <2> QED BY <1>1, <2>1, Distinct, MovingOn DEF IdentityInv, IdentityTypes
  <1>7. ASSUME NEW p \in Process, NEW i \in InUse, NEW flag \in Token, NEW env \in Token,
               VerifyIdentityToken(p, i, flag, env)
        PROVE  IdentityInv'
    <2> DEFINE d == [identity |-> i, flag |-> flag, env |-> env]
    <2>1. /\ pc[p] # "print" /\ identities' = identities /\ printed' = printed
          /\ lostTokens' = lostTokens
      BY <1>7 DEF VerifyIdentityToken, Continue
    <2>2. CASE Accepts(HashOf(i), ResolveToken(flag, env)) /\ Continue(p, "act", d)
      <3>1. Goto(p, "act", 1) /\ cmd' = [cmd EXCEPT ![p] = d] /\ d \in Commands
        BY <2>2 DEF Continue, InUse, Subject
      <3>2. i \in Identity => identities[i] # NoRow
        BY AdmissionAssumption DEF InUse
      <3>3. i \in Identity /\ Protected(i) => GivenToken(d)
        BY <2>2, AdmissionAssumption, Distinct
           DEF IdentityInv, IdentityTypes, Accepts, HashOf, ResolveToken, Protected, GivenToken
      <3> QED BY <1>1, <2>1, <3>1, <3>2, <3>3, MovingOn DEF IdentityInv, IdentityTypes
    <2>3. CASE Continue(p, "idle", NoCommand)
      <3>1. Goto(p, "idle", 1) /\ cmd' = [cmd EXCEPT ![p] = NoCommand]
        BY <2>3 DEF Continue
      <3> QED BY <1>1, <2>1, <3>1, Distinct, MovingOn DEF IdentityInv, IdentityTypes
    <2> QED BY <1>7, <2>2, <2>3 DEF VerifyIdentityToken
  <1> QED BY <1>1, <1>2, <1>3, <1>4, <1>5, <1>6, <1>7, NewIdentity
          DEF AdmissionNext, IdentityInv

LEMMA IdentityAlways == AdmissionSpec => []IdentityInv
  BY IdentityInit, IdentityStep, PTL DEF AdmissionSpec

(* Every variable of the schema and of the identities keeps its type. *)
THEOREM AdmissionTypeCorrect == AdmissionSpec => []AdmissionTypeOK
  <1>1. IdentityInv => AdmissionTypeOK
    BY DEF IdentityInv, SchemaInv, Types, IdentityTypes, AdmissionTypeOK, Running
  <1> QED BY <1>1, IdentityAlways, PTL

(* No command acts for a protected identity unless it was given that       *)
(* identity's token, in whatever order identities are created, protected   *)
(* and used (identity.go:154-193).                                         *)
THEOREM ProtectionHolds == AdmissionSpec => []ActsAreAuthorised
  <1>1. IdentityInv => ActsAreAuthorised
    BY DEF IdentityInv, Knows, ActsAreAuthorised
  <1> QED BY <1>1, IdentityAlways, PTL

(* The identities that need a token are those whose token was printed, is  *)
(* being printed or was lost with its process (identity.go:76-86, 251-262). *)
THEOREM NoTokenIsUnaccountedFor == AdmissionSpec => []TokensAreKnown
  <1>1. IdentityInv => TokensAreKnown
    BY DEF IdentityInv
  <1> QED BY <1>1, IdentityAlways, PTL
==============================================================================
