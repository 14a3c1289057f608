------------------------- MODULE LockProtocolProofs -------------------------
(***************************************************************************)
(* Theorems about LockProtocol, for every set of processes, resources,     *)
(* identities, strategies and leases, any number of attempts and any       *)
(* bounds.                                                                 *)
(*                                                                         *)
(* TypeOK alone is not inductive: the event a command logs is built from   *)
(* the row it read, so one must know that the command has read one.  The   *)
(* action properties need two more facts that hold between statements: no  *)
(* time stamp is ahead of the clock, and as long as nobody else has        *)
(* written its row an acquire knows what the row is.                       *)
(***************************************************************************)
EXTENDS LockProtocol, TLAPS

(* Once a command acts on a row it read, it has read one. *)
LocalsInv ==
    \A p \in Process :
        /\ pc[p] \in {"reacquire", "reclaim", "renewCheck", "renewWrite", "delete"}
              => cmd[p].seen \in Row
        /\ pc[p] \in {"record", "propagate"}
              => /\ cmd[p].event # "none"
                 /\ cmd[p].event # "acquired" => cmd[p].seen \in Row

(* No time stamp is ahead of the clock. *)
ClockInv ==
    /\ \A r \in Resource : Held(r) => locks[r].renewedAt <= now
    /\ \A p \in Process : cmd[p] # NoCommand => cmd[p].at <= now

(* What an acquire knows of its row unless it has been overtaken. *)
Fresh(p) ==
    ~overtaken[p] =>
        /\ pc[p] = "readHolder" => Held(cmd[p].resource)
        /\ pc[p] = "reclaim" => /\ locks[cmd[p].resource] = cmd[p].seen
                                /\ Expired(cmd[p].seen, cmd[p].at)

FreshInv == \A p \in Process : Fresh(p)

(* A running command has reported nothing yet. *)
BusyInv == \A p \in Process : pc[p] # "idle" => result[p] = "none"

IInv == TypeOK /\ LocalsInv /\ ClockInv /\ FreshInv /\ BusyInv

-----------------------------------------------------------------------------
(* Rows and events *)

LEMMA NewRowType ==
    ASSUME NEW i \in Identity, NEW s \in StrategyLink,
           NEW l \in 0..MaxLease, NEW t \in Nat
    PROVE  /\ NewRow(i, s, l, t) \in Row
           /\ NewRow(i, s, l, t).renewedAt <= t
           /\ NewRow(i, s, l, t).holder = i
  BY LockTableAssumption DEF NewRow, LeaseColumns, Row

LEMMA OwnRowType ==
    ASSUME NEW c \in Command
    PROVE  /\ OwnRow(c) \in Row
           /\ OwnRow(c).renewedAt <= c.at
           /\ OwnRow(c).holder = c.identity
  BY NewRowType DEF OwnRow, Command

LEMMA RestatedType ==
    ASSUME NEW c \in Command, NEW row \in Row
    PROVE  /\ Restated(row, c) \in Row
           /\ Restated(row, c).renewedAt <= c.at
           /\ Restated(row, c).holder = row.holder
  BY OwnRowType DEF Restated, Row

LEMMA EventType ==
    ASSUME NEW c \in Command, c.event # "none",
           c.event # "acquired" => c.seen \in Row
    PROVE  EventOf(c) \in LockEvent
  BY DEF EventOf, LockEvent, Command, Row, EventKind

-----------------------------------------------------------------------------
(* Type correctness *)

(* The control state of the commands ... *)
ControlOK ==
    /\ now \in Nat
    /\ pc \in [Process -> Label]
    /\ cmd \in [Process -> Command \cup {NoCommand}]
    /\ result \in [Process -> Outcome]
    /\ started \in Nat
    /\ \A p \in Process : pc[p] = "idle" <=> cmd[p] = NoCommand

(* ... and the tables with the two history variables. *)
TablesOK ==
    /\ locks \in [Resource -> Row \cup {NoRow}]
    /\ lockEvents \in Seq(LockEvent)
    /\ overtaken \in [Process -> BOOLEAN]
    /\ unlogged \in [Resource -> Int]

LEMMA TypeParts ==
    /\ TypeOK <=> ControlOK /\ TablesOK
    /\ TypeOK' <=> ControlOK' /\ TablesOK'
  BY DEF TypeOK, ControlOK, TablesOK

LEMMA RunningCommand ==
    ASSUME ControlOK, NEW p \in Process, pc[p] # "idle"
    PROVE  cmd[p] \in Command
  BY DEF ControlOK

LEMMA GotoType ==
    ASSUME ControlOK, NEW p \in Process, NEW l \in Label \ {"idle"},
           NEW c \in Command, Goto(p, l, c)
    PROVE  ControlOK'
  BY NoCommandAssumption DEF ControlOK, Goto

LEMMA FinishType ==
    ASSUME ControlOK, NEW p \in Process, NEW o \in Outcome, Finish(p, o)
    PROVE  ControlOK'
  BY NoCommandAssumption DEF ControlOK, Finish, Label

LEMMA BeginType ==
    ASSUME ControlOK, TablesOK, NEW p \in Process, NEW l \in Label \ {"idle"},
           NEW c \in Command, Begin(p, l, c)
    PROVE  ControlOK' /\ TablesOK'
  <1>1. ControlOK'
    BY NoCommandAssumption DEF ControlOK, Begin, Outcome
  <1>2. TablesOK'
    BY DEF TablesOK, Begin, tables
  <1> QED BY <1>1, <1>2

LEMMA WriteRowType ==
    ASSUME TablesOK, NEW p \in Process, NEW r \in Resource,
           NEW row \in Row \cup {NoRow}, WriteRow(p, r, row)
    PROVE  TablesOK'
  <1>1. locks' \in [Resource -> Row \cup {NoRow}]
    BY DEF TablesOK, WriteRow
  <1>2. overtaken' \in [Process -> BOOLEAN]
    <2>1. overtaken' = [q \in Process |->
              overtaken[q] \/ (q # p /\ cmd[q] # NoCommand /\ cmd[q].resource = r)]
      BY DEF WriteRow
    <2>2. \A q \in Process : overtaken[q] \in BOOLEAN
      BY DEF TablesOK
    <2> QED BY <2>1, <2>2
  <1> QED BY <1>1, <1>2 DEF TablesOK, WriteRow

LEMMA UntouchedTables == TablesOK /\ TouchNothing => TablesOK'
  BY DEF TablesOK, TouchNothing, tables

LEMMA RetryType ==
    ASSUME ControlOK, NEW p \in Process, pc[p] # "idle", Retry(p)
    PROVE  /\ ControlOK'
           /\ \/ /\ pc' = [pc EXCEPT ![p] = "insert"]
                 /\ cmd' = [cmd EXCEPT ![p] = [cmd[p] EXCEPT !.attempt = @ + 1, !.seen = NoRow]]
              \/ /\ pc' = [pc EXCEPT ![p] = "idle"]
                 /\ cmd' = [cmd EXCEPT ![p] = NoCommand]
           /\ now' = now
  <1>1. cmd[p] \in Command
    BY RunningCommand
  <1>2. CASE cmd[p].attempt + 1 < MaxAttempts
    <2> DEFINE attempt == cmd[p].attempt + 1
    <2>a. attempt \in 0..(MaxAttempts - 1)
      BY <1>1, <1>2, LockProtocolAssumption DEF Command
    <2>1. [cmd[p] EXCEPT !.attempt = @ + 1, !.seen = NoRow] \in Command
      <3> HIDE DEF attempt
      <3>1. [cmd[p] EXCEPT !.attempt = attempt, !.seen = NoRow] \in Command
        BY <1>1, <2>a DEF Command
      <3> QED BY <3>1 DEF attempt
    <2>2. Goto(p, "insert", [cmd[p] EXCEPT !.attempt = @ + 1, !.seen = NoRow])
      BY <1>2 DEF Retry
    <2> QED BY <2>1, <2>2, GotoType DEF Label, Goto
  <1>3. CASE ~(cmd[p].attempt + 1 < MaxAttempts)
    <2>1. Finish(p, "contention")
      BY <1>3 DEF Retry
    <2> QED BY <2>1, FinishType DEF Outcome, Finish
  <1> QED BY <1>2, <1>3

(* Every action of a command, one lemma each: it keeps the types and what  *)
(* the locals are known to hold.                                           *)
LEMMA LocalsMove ==
    ASSUME ControlOK, LocalsInv, NEW p \in Process, NEW l \in Label, NEW c,
           pc' = [pc EXCEPT ![p] = l],
           cmd' = [cmd EXCEPT ![p] = c],
           l \in {"reacquire", "reclaim", "renewCheck", "renewWrite", "delete"}
              => c.seen \in Row,
           l \in {"record", "propagate"}
              => c.event # "none" /\ (c.event # "acquired" => c.seen \in Row)
    PROVE  LocalsInv'
  <1> SUFFICES ASSUME NEW q \in Process
               PROVE  /\ pc'[q] \in {"reacquire", "reclaim", "renewCheck", "renewWrite", "delete"}
                            => cmd'[q].seen \in Row
                      /\ pc'[q] \in {"record", "propagate"}
                            => /\ cmd'[q].event # "none"
                               /\ cmd'[q].event # "acquired" => cmd'[q].seen \in Row
    BY DEF LocalsInv
  <1>1. CASE q = p
    <2>1. pc'[q] = l /\ cmd'[q] = c
      BY <1>1 DEF ControlOK
    <2> QED BY <2>1
  <1>2. CASE q # p
    <2>1. pc'[q] = pc[q] /\ cmd'[q] = cmd[q]
      BY <1>2 DEF ControlOK
    <2> QED BY <2>1 DEF LocalsInv
  <1> QED BY <1>1, <1>2

LEMMA FinishInv ==
    ASSUME ControlOK, LocalsInv, NEW p \in Process, NEW o \in Outcome, Finish(p, o)
    PROVE  ControlOK' /\ LocalsInv'
  <1>1. ControlOK'
    BY FinishType
  <1>2. LocalsInv'
    BY LocalsMove DEF Finish, Label
  <1> QED BY <1>1, <1>2

LEMMA RetryInv ==
    ASSUME ControlOK, LocalsInv, NEW p \in Process, pc[p] # "idle", Retry(p)
    PROVE  ControlOK' /\ LocalsInv'
  <1>1. ControlOK'
    BY RetryType
  <1>2. LocalsInv'
    BY RetryType, LocalsMove DEF Label
  <1> QED BY <1>1, <1>2

LEMMA StartInv ==
    ASSUME TypeOK, LocalsInv, NEW p \in Process, Start(p)
    PROVE  TypeOK' /\ LocalsInv'
  <1> USE TypeParts
  <1>1. ASSUME NEW r \in Resource, NEW i \in Identity
        PROVE  Locals(r, i) \in Command
    BY LockTableAssumption, LockProtocolAssumption DEF Locals, Command, StrategyLink
  <1>2. ASSUME NEW l \in Label \ {"idle", "reacquire", "reclaim", "renewCheck",
                                  "renewWrite", "delete", "record", "propagate"},
               NEW c \in Command, Begin(p, l, c)
        PROVE  TypeOK' /\ LocalsInv'
    <2>1. TypeOK'
      BY <1>2, BeginType
    <2>2. LocalsInv'
      BY <1>2, LocalsMove DEF Begin
    <2> QED BY <2>1, <2>2
  <1>3. ASSUME NEW r \in Resource, NEW i \in Identity,
               NEW s \in StrategyArg, NEW l \in LeaseArg,
               StartAcquire(p, r, i, s, l)
        PROVE  TypeOK' /\ LocalsInv'
    <2> DEFINE c == [Locals(r, i) EXCEPT !.strategy = s, !.lease = l, !.at = now]
    <2>1. l \in 0..MaxLease /\ s \in StrategyLink /\ now \in Nat
      BY <1>3, LockProtocolAssumption, LockTableAssumption DEF StartAcquire, ControlOK
    <2>2. c \in Command
      <3>1. ASSUME NEW d \in Command
            PROVE  [d EXCEPT !.strategy = s, !.lease = l, !.at = now] \in Command
        BY <2>1 DEF Command
      <3> QED BY <1>1, <3>1
    <2>3. Begin(p, "insert", c)
      BY <1>3 DEF StartAcquire
    <2> QED BY <1>2, <2>2, <2>3 DEF Label
  <1>4. ASSUME NEW s \in StrategyArg, NEW l \in LeaseArg, RejectAcquire(p, s, l)
        PROVE  TypeOK' /\ LocalsInv'
    <2>1. ControlOK'
      BY <1>4 DEF RejectAcquire, ControlOK, Outcome
    <2>2. TablesOK'
      BY <1>4 DEF RejectAcquire, TablesOK, tables
    <2>3. LocalsInv'
      BY <1>4 DEF RejectAcquire, LocalsInv
    <2> QED BY <2>1, <2>2, <2>3
  <1>5. ASSUME NEW r \in Resource, NEW i \in Identity, StartRenew(p, r, i)
        PROVE  TypeOK' /\ LocalsInv'
    BY <1>1, <1>2, <1>5 DEF StartRenew, Label
  <1>6. ASSUME NEW r \in Resource, NEW i \in Identity, NEW f \in BOOLEAN,
               StartRelease(p, r, i, f)
        PROVE  TypeOK' /\ LocalsInv'
    <2> DEFINE c == [Locals(r, i) EXCEPT !.force = f]
    <2>1. c \in Command
      <3>1. ASSUME NEW d \in Command PROVE [d EXCEPT !.force = f] \in Command
        BY DEF Command
      <3> QED BY <1>1, <3>1
    <2>2. Begin(p, "releaseRead", c)
      BY <1>6 DEF StartRelease
    <2> QED BY <1>2, <2>1, <2>2 DEF Label
  <1> QED BY <1>3, <1>4, <1>5, <1>6 DEF Start

(* A command that changes only its own locals. *)
LEMMA GotoInv ==
    ASSUME TypeOK, LocalsInv, NEW p \in Process, NEW l \in Label \ {"idle"},
           NEW c \in Command, Goto(p, l, c),
           l \in {"reacquire", "reclaim", "renewCheck", "renewWrite", "delete"}
              => c.seen \in Row,
           l \in {"record", "propagate"}
              => c.event # "none" /\ (c.event # "acquired" => c.seen \in Row)
    PROVE  ControlOK' /\ LocalsInv'
  <1>1. ControlOK'
    BY GotoType, TypeParts
  <1>2. LocalsInv'
    BY LocalsMove, TypeParts DEF Goto
  <1> QED BY <1>1, <1>2

LEMMA CommandUpdates ==
    ASSUME NEW c \in Command, NEW row \in Row, NEW t \in Nat, NEW e \in EventKind
    PROVE  /\ [c EXCEPT !.seen = row] \in Command
           /\ [c EXCEPT !.at = t] \in Command
           /\ [c EXCEPT !.event = e] \in Command
  BY DEF Command

LEMMA RowOf ==
    ASSUME TypeOK, NEW c \in Command, locks[c.resource] # NoRow
    PROVE  locks[c.resource] \in Row
  BY DEF TypeOK, Command

LEMMA AcquireInv ==
    ASSUME TypeOK, LocalsInv, NEW p \in Process,
           Insert(p) \/ ReadHolder(p) \/ Reacquire(p) \/ Reclaim(p)
    PROVE  TypeOK' /\ LocalsInv'
  <1> DEFINE c == cmd[p]
             row == locks[c.resource]
  <1>1. ControlOK /\ TablesOK
    BY TypeParts
  <1>2. pc[p] # "idle"
    BY DEF Insert, ReadHolder, Reacquire, Reclaim
  <1>3. c \in Command /\ c.resource \in Resource
    BY <1>1, <1>2, RunningCommand DEF Command
  <1>4. OwnRow(c) \in Row
    BY <1>3, OwnRowType
  <1>5. CASE Insert(p)
    <2>1. CASE row = NoRow
      <3>1. WriteRow(p, c.resource, OwnRow(c)) /\ Goto(p, "record", [c EXCEPT !.event = "acquired"])
        BY <1>5, <2>1 DEF Insert
      <3>2. TablesOK'
        BY <1>1, <1>3, <1>4, <3>1, WriteRowType
      <3>3. [c EXCEPT !.event = "acquired"] \in Command
        BY <1>3, CommandUpdates DEF Command, EventKind
      <3>4. [c EXCEPT !.event = "acquired"].event = "acquired"
        BY <1>3 DEF Command
      <3>5. ControlOK' /\ LocalsInv'
        BY <3>1, <3>3, <3>4, GotoInv DEF Label
      <3> QED BY <3>2, <3>5, TypeParts
    <2>2. CASE row # NoRow
      <3>1. Goto(p, "readHolder", c) /\ overtaken' = [overtaken EXCEPT ![p] = FALSE]
            /\ UNCHANGED <<tables, unlogged>>
        BY <1>5, <2>2 DEF Insert
      <3>2. TablesOK'
        BY <1>1, <3>1 DEF TablesOK, tables
      <3>3. ControlOK' /\ LocalsInv'
        BY <1>3, <3>1, GotoInv DEF Label
      <3> QED BY <3>2, <3>3, TypeParts
    <2> QED BY <2>1, <2>2
  <1>6. CASE ReadHolder(p)
    <2>1. TablesOK'
      BY <1>1, <1>6, UntouchedTables DEF ReadHolder
    <2>2. CASE row = NoRow
      <3>1. Retry(p)
        BY <1>6, <2>2 DEF ReadHolder
      <3> QED BY <1>1, <1>2, <2>1, <3>1, RetryInv, TypeParts
    <2>3. CASE row # NoRow
      <3> DEFINE read == [c EXCEPT !.seen = row]
                 denied == [read EXCEPT !.event = "denied"]
      <3>1. row \in Row
        BY <1>3, <2>3, RowOf
      <3>2. read \in Command /\ read.seen = row
        BY <1>3, <3>1, CommandUpdates DEF Command
      <3>3. denied \in Command /\ denied.seen = row /\ denied.event = "denied"
        <4>1. ASSUME NEW d \in Command
              PROVE  LET e == [d EXCEPT !.event = "denied"]
                     IN  e \in Command /\ e.seen = d.seen /\ e.event = "denied"
          BY DEF Command, EventKind
        <4> HIDE DEF read
        <4> QED BY <3>2, <4>1
      <3>4. Goto(p, "reacquire", read) \/ Goto(p, "reclaim", read) \/ Goto(p, "record", denied)
        BY <1>6, <2>3 DEF ReadHolder
      <3>5. ControlOK' /\ LocalsInv'
        <4> HIDE DEF read, denied
        <4> QED BY <3>1, <3>2, <3>3, <3>4, GotoInv DEF Label
      <3> QED BY <2>1, <3>5, TypeParts
    <2> QED BY <2>2, <2>3
  <1>7. CASE Reacquire(p)
    <2>1. ControlOK' /\ LocalsInv'
      BY <1>1, <1>7, FinishInv DEF Reacquire, Outcome
    <2>2. CASE row = NoRow
      BY <1>1, <1>7, <2>1, <2>2, UntouchedTables, TypeParts DEF Reacquire
    <2>3. CASE row # NoRow
      <3>1. Restated(row, c) \in Row
        BY <1>3, <2>3, RowOf, RestatedType
      <3>2. WriteRow(p, c.resource, Restated(row, c))
        BY <1>7, <2>3 DEF Reacquire
      <3>3. TablesOK'
        BY <1>1, <1>3, <3>1, <3>2, WriteRowType
      <3> QED BY <2>1, <3>3, TypeParts
    <2> QED BY <2>2, <2>3
  <1>8. CASE Reclaim(p)
    <2>1. CASE StillReclaimable(row, c)
      <3>1. WriteRow(p, c.resource, OwnRow(c)) /\ Goto(p, "record", [c EXCEPT !.event = "reclaimed"])
        BY <1>8, <2>1 DEF Reclaim
      <3>2. TablesOK'
        BY <1>1, <1>3, <1>4, <3>1, WriteRowType
      <3>3. c.seen \in Row
        BY <1>8 DEF Reclaim, LocalsInv
      <3>4. [c EXCEPT !.event = "reclaimed"] \in Command
        BY <1>3, <3>3, CommandUpdates DEF EventKind
      <3>5. /\ [c EXCEPT !.event = "reclaimed"].event = "reclaimed"
            /\ [c EXCEPT !.event = "reclaimed"].seen = c.seen
        BY <1>3 DEF Command
      <3>6. ControlOK' /\ LocalsInv'
        BY <3>1, <3>3, <3>4, <3>5, GotoInv DEF Label
      <3> QED BY <3>2, <3>6, TypeParts
    <2>2. CASE ~StillReclaimable(row, c)
      <3>1. Retry(p) /\ TouchNothing
        BY <1>8, <2>2 DEF Reclaim
      <3> QED BY <1>1, <1>2, <3>1, RetryInv, UntouchedTables, TypeParts
    <2> QED BY <2>1, <2>2
  <1> QED BY <1>5, <1>6, <1>7, <1>8

LEMMA RenewInv ==
    ASSUME TypeOK, LocalsInv, NEW p \in Process,
           RenewRead(p) \/ RenewCheck(p) \/ RenewWrite(p)
    PROVE  TypeOK' /\ LocalsInv'
  <1> DEFINE c == cmd[p]
             row == locks[c.resource]
  <1>1. ControlOK /\ TablesOK
    BY TypeParts
  <1>2. pc[p] # "idle"
    BY DEF RenewRead, RenewCheck, RenewWrite
  <1>3. c \in Command /\ c.resource \in Resource
    BY <1>1, <1>2, RunningCommand DEF Command
  <1>4. CASE RenewRead(p)
    <2>1. TablesOK'
      BY <1>1, <1>4, UntouchedTables DEF RenewRead
    <2>2. CASE Finish(p, "refused")
      BY <1>1, <2>1, <2>2, FinishInv, TypeParts DEF Outcome
    <2>3. CASE row # NoRow /\ Goto(p, "renewCheck", [c EXCEPT !.seen = row])
      <3>1. row \in Row
        BY <1>3, <2>3, RowOf
      <3>2. [c EXCEPT !.seen = row] \in Command /\ [c EXCEPT !.seen = row].seen = row
        BY <1>3, <3>1, CommandUpdates DEF Command
      <3>3. ControlOK' /\ LocalsInv'
        BY <2>3, <3>1, <3>2, GotoInv DEF Label
      <3> QED BY <2>1, <3>3, TypeParts
    <2> QED BY <1>4, <2>2, <2>3 DEF RenewRead
  <1>5. CASE RenewCheck(p)
    <2>1. TablesOK'
      BY <1>1, <1>5, UntouchedTables DEF RenewCheck
    <2>2. CASE Finish(p, "refused")
      BY <1>1, <2>1, <2>2, FinishInv, TypeParts DEF Outcome
    <2>3. CASE Goto(p, "renewWrite", [c EXCEPT !.at = now])
      <3>1. c.seen \in Row
        BY <1>5 DEF RenewCheck, LocalsInv
      <3>2. [c EXCEPT !.at = now] \in Command /\ [c EXCEPT !.at = now].seen = c.seen
        BY <1>1, <1>3, <3>1, CommandUpdates DEF Command, ControlOK
      <3>3. ControlOK' /\ LocalsInv'
        BY <2>3, <3>1, <3>2, GotoInv DEF Label
      <3> QED BY <2>1, <3>3, TypeParts
    <2> QED BY <1>5, <2>2, <2>3 DEF RenewCheck
  <1>6. CASE RenewWrite(p)
    <2>1. ControlOK' /\ LocalsInv'
      BY <1>1, <1>6, FinishInv DEF RenewWrite, Outcome
    <2>2. CASE ~StillRenewable(row, c)
      BY <1>1, <1>6, <2>1, <2>2, UntouchedTables, TypeParts DEF RenewWrite
    <2>3. CASE StillRenewable(row, c)
      <3>1. row \in Row
        BY <1>3, <2>3, RowOf DEF StillRenewable
      <3>2. [row EXCEPT !.renewedAt = c.at] \in Row
        BY <1>3, <3>1 DEF Row, Command
      <3>3. WriteRow(p, c.resource, [row EXCEPT !.renewedAt = c.at])
        BY <1>6, <2>3 DEF RenewWrite
      <3>4. TablesOK'
        BY <1>1, <1>3, <3>2, <3>3, WriteRowType
      <3> QED BY <2>1, <3>4, TypeParts
    <2> QED BY <2>2, <2>3
  <1> QED BY <1>4, <1>5, <1>6

LEMMA ReleaseInv ==
    ASSUME TypeOK, LocalsInv, NEW p \in Process, ReleaseRead(p) \/ Delete(p)
    PROVE  TypeOK' /\ LocalsInv'
  <1> DEFINE c == cmd[p]
             row == locks[c.resource]
  <1>1. ControlOK /\ TablesOK
    BY TypeParts
  <1>2. pc[p] # "idle"
    BY DEF ReleaseRead, Delete
  <1>3. c \in Command /\ c.resource \in Resource
    BY <1>1, <1>2, RunningCommand DEF Command
  <1>4. CASE ReleaseRead(p)
    <2>1. TablesOK'
      BY <1>1, <1>4, UntouchedTables DEF ReleaseRead
    <2>2. CASE Finish(p, "refused")
      BY <1>1, <2>1, <2>2, FinishInv, TypeParts DEF Outcome
    <2>3. CASE row # NoRow /\ Goto(p, "delete", [c EXCEPT !.seen = row])
      <3>1. row \in Row
        BY <1>3, <2>3, RowOf
      <3>2. [c EXCEPT !.seen = row] \in Command /\ [c EXCEPT !.seen = row].seen = row
        BY <1>3, <3>1, CommandUpdates DEF Command
      <3>3. ControlOK' /\ LocalsInv'
        BY <2>3, <3>1, <3>2, GotoInv DEF Label
      <3> QED BY <2>1, <3>3, TypeParts
    <2> QED BY <1>4, <2>2, <2>3 DEF ReleaseRead
  <1>5. CASE Delete(p)
    <2>1. CASE ~Deletable(row, c)
      <3>1. TouchNothing /\ Finish(p, IF c.force THEN "released" ELSE "refused")
        BY <1>5, <2>1 DEF Delete
      <3> QED BY <1>1, <3>1, FinishInv, UntouchedTables, TypeParts DEF Outcome
    <2>2. CASE Deletable(row, c)
      <3>1. WriteRow(p, c.resource, NoRow) /\ Goto(p, "record", [c EXCEPT !.event = "released"])
        BY <1>5, <2>2 DEF Delete
      <3>2. TablesOK'
        BY <1>1, <1>3, <3>1, WriteRowType
      <3>3. c.seen \in Row
        BY <1>5 DEF Delete, LocalsInv
      <3>4. [c EXCEPT !.event = "released"] \in Command
        BY <1>3, <3>3, CommandUpdates DEF EventKind
      <3>5. /\ [c EXCEPT !.event = "released"].event = "released"
            /\ [c EXCEPT !.event = "released"].seen = c.seen
        BY <1>3 DEF Command
      <3>6. ControlOK' /\ LocalsInv'
        BY <3>1, <3>3, <3>4, <3>5, GotoInv DEF Label
      <3> QED BY <3>2, <3>6, TypeParts
    <2> QED BY <2>1, <2>2
  <1> QED BY <1>4, <1>5

LEMMA OutcomeType == \A e : OutcomeOf(e) \in Outcome
  BY DEF OutcomeOf, Outcome

LEMMA EndInv ==
    ASSUME TypeOK, LocalsInv, NEW p \in Process,
           RecordEvent(p) \/ Propagate(p) \/ Abort(p)
    PROVE  TypeOK' /\ LocalsInv'
  <1> DEFINE c == cmd[p]
  <1>1. ControlOK /\ TablesOK
    BY TypeParts
  <1>2. pc[p] # "idle"
    BY DEF RecordEvent, Propagate, Abort
  <1>3. c \in Command /\ c.resource \in Resource
    BY <1>1, <1>2, RunningCommand DEF Command
  <1>4. CASE RecordEvent(p)
    <2>1. c.event # "none" /\ (c.event # "acquired" => c.seen \in Row)
      BY <1>4 DEF RecordEvent, LocalsInv
    <2>2. TablesOK'
      <3>1. EventOf(c) \in LockEvent
        BY <1>3, <2>1, EventType
      <3> QED BY <1>1, <1>4, <3>1 DEF RecordEvent, TablesOK
    <2>3. CASE Goto(p, "propagate", c)
      BY <1>3, <2>1, <2>2, <2>3, GotoInv, TypeParts DEF Label
    <2>4. CASE Finish(p, OutcomeOf(c.event))
      BY <1>1, <2>2, <2>4, FinishInv, OutcomeType, TypeParts
    <2> QED BY <1>4, <2>3, <2>4 DEF RecordEvent
  <1>5. CASE Propagate(p)
    BY <1>1, <1>5, FinishInv, OutcomeType, UntouchedTables, TypeParts DEF Propagate
  <1>6. CASE Abort(p)
    <2>1. ControlOK' /\ LocalsInv'
      BY <1>1, <1>6, FinishInv DEF Abort, Outcome
    <2>2. TablesOK'
      <3>1. NetClaim(c.event) \in Int
        BY DEF NetClaim
      <3>2. unlogged' \in [Resource -> Int]
        BY <1>1, <1>3, <1>6, <3>1 DEF Abort, TablesOK
      <3> QED BY <1>1, <1>6, <3>2 DEF Abort, TablesOK, tables
    <2> QED BY <2>1, <2>2, TypeParts
  <1> QED BY <1>4, <1>5, <1>6

LEMMA TickInv == TypeOK /\ LocalsInv /\ Tick => TypeOK' /\ LocalsInv'
  BY DEF TypeOK, LocalsInv, Tick, tables

LEMMA InitInv == Init => TypeOK /\ LocalsInv
  <1> SUFFICES ASSUME Init PROVE TypeOK /\ LocalsInv
    OBVIOUS
  <1>1. lockEvents \in Seq(LockEvent)
    BY DEF Init
  <1>2. TypeOK
    BY <1>1 DEF Init, TypeOK, Label, Outcome
  <1>3. LocalsInv
    BY DEF Init, LocalsInv
  <1> QED BY <1>2, <1>3

LEMMA NextInv ==
    ASSUME TypeOK, LocalsInv, [Next]_vars
    PROVE  TypeOK' /\ LocalsInv'
  <1>1. CASE Tick
    BY <1>1, TickInv
  <1>2. ASSUME NEW p \in Process, Start(p) PROVE TypeOK' /\ LocalsInv'
    BY <1>2, StartInv
  <1>3. ASSUME NEW p \in Process, Step(p) PROVE TypeOK' /\ LocalsInv'
    BY <1>3, AcquireInv, RenewInv, ReleaseInv, EndInv DEF Step, RowStep
  <1>4. ASSUME NEW p \in Process, Abort(p) PROVE TypeOK' /\ LocalsInv'
    BY <1>4, EndInv
  <1>5. CASE UNCHANGED vars
    BY <1>5 DEF vars, tables, TypeOK, LocalsInv
  <1> QED BY <1>1, <1>2, <1>3, <1>4, <1>5 DEF Next

(* Every variable keeps its type, and a command that is about to log what  *)
(* happened to a holder has read who that was (lock.go:306, 431, 485).     *)
THEOREM TypeCorrect == Spec => [](TypeOK /\ LocalsInv)
  BY InitInv, NextInv, PTL DEF Spec

-----------------------------------------------------------------------------
(* Rows and the clock *)

(* What a step may do to the table: write one row that is no newer than    *)
(* the clock, into a free or lapsed place or without changing the holder,  *)
(* or delete one on behalf of its holder or by force.                      *)
Rewrites(r, row) ==
    /\ row \in Row
    /\ row.renewedAt <= now
    /\ Held(r) => row.holder = locks[r].holder \/ RunOut(locks[r])

Deletes(r, row) == row = NoRow /\ Held(r) /\ MayBeFreed(r)

OneRowChanges ==
    /\ now' = now
    /\ \E r \in Resource, row \in Row \cup {NoRow} :
          /\ locks' = [locks EXCEPT ![r] = row]
          /\ Rewrites(r, row) \/ Deletes(r, row)

NoRowChanges == locks' = locks /\ now' \in {now, now + 1}

LEMMA LapsedHasRunOut ==
    ASSUME NEW row \in Row, NEW t \in Nat, t <= now, now \in Nat, LapsedInSQL(row, t)
    PROVE  RunOut(row)
  BY LockTableAssumption DEF Row, LapsedInSQL, RunOut

LEMMA RowSteps ==
    ASSUME TypeOK, LocalsInv, ClockInv, [Next]_vars
    PROVE  OneRowChanges \/ NoRowChanges
  <1> USE DEF OneRowChanges, NoRowChanges
  <1>1. CASE Tick \/ UNCHANGED vars
    BY <1>1 DEF Tick, tables, vars
  <1>2. ASSUME NEW p \in Process, Start(p) PROVE NoRowChanges
    BY <1>2 DEF Start, StartAcquire, RejectAcquire, StartRenew, StartRelease, Begin, tables
  <1>3. ASSUME NEW p \in Process,
               RenewRead(p) \/ RenewCheck(p) \/ ReleaseRead(p) \/ Propagate(p)
                 \/ ReadHolder(p) \/ RecordEvent(p) \/ Abort(p)
        PROVE  NoRowChanges
    BY <1>3 DEF RenewRead, RenewCheck, ReleaseRead, Propagate, ReadHolder, RecordEvent,
                Abort, Retry, Goto, Finish, TouchNothing, tables
  <1>4. ASSUME NEW p \in Process,
               Insert(p) \/ Reacquire(p) \/ Reclaim(p) \/ RenewWrite(p) \/ Delete(p)
        PROVE  OneRowChanges \/ NoRowChanges
    <2> DEFINE c == cmd[p]
               r == c.resource
               old == locks[r]
    <2>1. c \in Command /\ r \in Resource
      <3>1. pc[p] # "idle"
        BY <1>4 DEF Insert, Reacquire, Reclaim, RenewWrite, Delete
      <3> QED BY <3>1, TypeParts, RunningCommand DEF Command
    <2>2. c.at \in Nat /\ c.at <= now /\ now \in Nat
      BY <2>1, NoCommandAssumption DEF ClockInv, Command, TypeOK
    <2>3. Held(r) <=> old # NoRow
      BY DEF Held
    <2>4. Held(r) => old \in Row
      BY <2>1, <2>3, RowOf
    <2>5. OwnRow(c) \in Row /\ OwnRow(c).renewedAt <= now
      BY <2>1, <2>2, OwnRowType DEF Row
    <2>6. CASE UNCHANGED <<locks, now>>
      BY <2>6
    <2>7. ASSUME NEW row \in Row \cup {NoRow}, WriteRow(p, r, row), now' = now,
                 Rewrites(r, row) \/ Deletes(r, row)
          PROVE  OneRowChanges
      BY <2>1, <2>7 DEF WriteRow
    <2>8. CASE Insert(p)
      <3>1. CASE old = NoRow
        <4>1. WriteRow(p, r, OwnRow(c)) /\ now' = now
          BY <1>4, <2>8, <3>1 DEF Insert, Goto
        <4>2. Rewrites(r, OwnRow(c))
          BY <2>3, <2>5, <3>1 DEF Rewrites
        <4> QED BY <2>5, <2>7, <4>1, <4>2
      <3>2. CASE old # NoRow
        BY <2>6, <2>8, <3>2 DEF Insert, Goto, tables
      <3> QED BY <3>1, <3>2
    <2>9. CASE Reacquire(p)
      <3>1. CASE old # NoRow
        <4>1. WriteRow(p, r, Restated(old, c)) /\ now' = now
          BY <2>9, <3>1 DEF Reacquire, Finish
        <4>2. Restated(old, c) \in Row /\ Rewrites(r, Restated(old, c))
          BY <2>1, <2>2, <2>3, <2>4, <3>1, RestatedType DEF Rewrites, Row
        <4> QED BY <2>7, <4>1, <4>2
      <3>2. CASE old = NoRow
        BY <2>6, <2>9, <3>2 DEF Reacquire, Finish, TouchNothing, tables
      <3> QED BY <3>1, <3>2
    <2>10. CASE Reclaim(p)
      <3>1. CASE StillReclaimable(old, c)
        <4>1. WriteRow(p, r, OwnRow(c)) /\ now' = now
          BY <2>10, <3>1 DEF Reclaim, Goto
        <4>2. RunOut(old)
          BY <2>2, <2>3, <2>4, <3>1, LapsedHasRunOut DEF StillReclaimable
        <4>3. Rewrites(r, OwnRow(c))
          BY <2>5, <4>2 DEF Rewrites
        <4> QED BY <2>5, <2>7, <4>1, <4>3
      <3>2. CASE ~StillReclaimable(old, c)
        BY <2>6, <2>10, <3>2 DEF Reclaim, Retry, Goto, Finish, TouchNothing, tables
      <3> QED BY <3>1, <3>2
    <2>11. CASE RenewWrite(p)
      <3>1. CASE StillRenewable(old, c)
        <4> DEFINE row == [old EXCEPT !.renewedAt = c.at]
        <4>1. WriteRow(p, r, row) /\ now' = now
          BY <2>11, <3>1 DEF RenewWrite, Finish
        <4>2. old \in Row
          BY <2>3, <2>4, <3>1 DEF StillRenewable
        <4>3. row \in Row /\ row.renewedAt <= now /\ row.holder = old.holder
          BY <2>2, <4>2 DEF Row
        <4>4. Rewrites(r, row)
          BY <4>3 DEF Rewrites
        <4> QED BY <2>7, <4>1, <4>3, <4>4
      <3>2. CASE ~StillRenewable(old, c)
        BY <2>6, <2>11, <3>2 DEF RenewWrite, Finish, TouchNothing, tables
      <3> QED BY <3>1, <3>2
    <2>12. CASE Delete(p)
      <3>1. CASE Deletable(old, c)
        <4>1. WriteRow(p, r, NoRow) /\ now' = now
          BY <2>12, <3>1 DEF Delete, Goto
        <4>2. Deletes(r, NoRow)
          BY <2>3, <2>12, <3>1 DEF Deletes, Deletable, MayBeFreed, Delete
        <4> QED BY <2>7, <4>1, <4>2
      <3>2. CASE ~Deletable(old, c)
        BY <2>6, <2>12, <3>2 DEF Delete, Finish, TouchNothing, tables
      <3> QED BY <3>1, <3>2
    <2> QED BY <1>4, <2>8, <2>9, <2>10, <2>11, <2>12
  <1> QED BY <1>1, <1>2, <1>3, <1>4 DEF Next, Step, RowStep

(* Every time stamp a command carries was read from the clock. *)
LEMMA StampSteps ==
    ASSUME TypeOK, LocalsInv, ClockInv, [Next]_vars
    PROVE  \A q \in Process : cmd'[q] # NoCommand => cmd'[q].at <= now
  <1>1. CASE cmd' = cmd
    BY <1>1 DEF ClockInv
  <1>2. ASSUME NEW p \in Process, NEW c, cmd' = [cmd EXCEPT ![p] = c],
               c = NoCommand \/ c.at <= now
        PROVE  \A q \in Process : cmd'[q] # NoCommand => cmd'[q].at <= now
    BY <1>2 DEF ClockInv, TypeOK
  <1>3. CASE Tick \/ UNCHANGED vars
    BY <1>1, <1>3 DEF Tick, vars
  <1>4. ASSUME NEW p \in Process, Start(p)
        PROVE  \A q \in Process : cmd'[q] # NoCommand => cmd'[q].at <= now
    <2>1. \A r, i : Locals(r, i).at <= now
      BY DEF Locals, TypeOK
    <2>2. ASSUME NEW r \in Resource, NEW i \in Identity, NEW s \in StrategyArg,
                 NEW l \in LeaseArg, StartAcquire(p, r, i, s, l)
          PROVE  \A q \in Process : cmd'[q] # NoCommand => cmd'[q].at <= now
      <3> DEFINE c == [Locals(r, i) EXCEPT !.strategy = s, !.lease = l, !.at = now]
      <3>1. c.at <= now
        BY DEF Locals, TypeOK
      <3>2. cmd' = [cmd EXCEPT ![p] = c]
        BY <2>2 DEF StartAcquire, Begin
      <3> QED BY <1>2, <3>1, <3>2
    <2>3. ASSUME NEW s, NEW l, RejectAcquire(p, s, l)
          PROVE  cmd' = cmd
      BY <2>3 DEF RejectAcquire
    <2>4. ASSUME NEW r \in Resource, NEW i \in Identity, StartRenew(p, r, i)
          PROVE  \A q \in Process : cmd'[q] # NoCommand => cmd'[q].at <= now
      BY <1>2, <2>1, <2>4 DEF StartRenew, Begin
    <2>5. ASSUME NEW r \in Resource, NEW i \in Identity, NEW f, StartRelease(p, r, i, f)
          PROVE  \A q \in Process : cmd'[q] # NoCommand => cmd'[q].at <= now
      <3> DEFINE c == [Locals(r, i) EXCEPT !.force = f]
      <3>1. c.at <= now
        BY DEF Locals, TypeOK
      <3>2. cmd' = [cmd EXCEPT ![p] = c]
        BY <2>5 DEF StartRelease, Begin
      <3> QED BY <1>2, <3>1, <3>2
    <2> QED BY <1>1, <1>4, <2>2, <2>3, <2>4, <2>5 DEF Start
  <1>5. ASSUME NEW p \in Process, Step(p) \/ Abort(p)
        PROVE  \A q \in Process : cmd'[q] # NoCommand => cmd'[q].at <= now
    <2>1. pc[p] # "idle"
      BY <1>5 DEF Step, RowStep, Insert, ReadHolder, Reacquire, Reclaim, RenewRead, RenewCheck,
                  RenewWrite, ReleaseRead, Delete, RecordEvent, Propagate, Abort
    <2>2. cmd[p] \in Command
      BY <2>1, TypeParts, RunningCommand
    <2>3. cmd[p].at <= now /\ now <= now
      BY <2>2, NoCommandAssumption DEF ClockInv, TypeOK
    <2> DEFINE Stamped == \A q \in Process : cmd'[q] # NoCommand => cmd'[q].at <= now
    <2>4. ASSUME NEW l, NEW c, Goto(p, l, c), c.at <= now PROVE Stamped
      BY <1>2, <2>4 DEF Goto
    <2>5. ASSUME NEW o, Finish(p, o) PROVE Stamped
      BY <1>2, <2>5 DEF Finish
    <2>6. ASSUME NEW row PROVE [cmd[p] EXCEPT !.seen = row].at <= now
      BY <2>2, <2>3 DEF Command
    <2>7. ASSUME NEW e PROVE [cmd[p] EXCEPT !.event = e].at <= now
      BY <2>2, <2>3 DEF Command
    <2>8. ASSUME NEW row, NEW e
          PROVE  [[cmd[p] EXCEPT !.seen = row] EXCEPT !.event = e].at <= now
      BY <2>2, <2>3 DEF Command
    <2>9. [cmd[p] EXCEPT !.at = now].at <= now
      BY <2>2, <2>3 DEF Command
    <2>10. ASSUME Retry(p) PROVE Stamped
      <3>1. [cmd[p] EXCEPT !.attempt = @ + 1, !.seen = NoRow].at <= now
        BY <2>2, <2>3 DEF Command
      <3> QED BY <2>4, <2>5, <2>10, <3>1 DEF Retry
    <2> HIDE DEF Stamped
    <2>11. ASSUME Insert(p) PROVE Stamped
      BY <2>3, <2>4, <2>7, <2>11 DEF Insert
    <2>12. ASSUME ReadHolder(p) PROVE Stamped
      BY <2>4, <2>6, <2>8, <2>10, <2>12 DEF ReadHolder
    <2>13. ASSUME Reacquire(p) PROVE Stamped
      BY <2>5, <2>13 DEF Reacquire
    <2>14. ASSUME Reclaim(p) PROVE Stamped
      BY <2>4, <2>7, <2>10, <2>14 DEF Reclaim
    <2>15. ASSUME Delete(p) PROVE Stamped
      BY <2>4, <2>5, <2>7, <2>15 DEF Delete
    <2>16. ASSUME RenewRead(p) PROVE Stamped
      BY <2>4, <2>5, <2>6, <2>16 DEF RenewRead
    <2>17. ASSUME RenewCheck(p) PROVE Stamped
      BY <2>4, <2>5, <2>9, <2>17 DEF RenewCheck
    <2>18. ASSUME RenewWrite(p) PROVE Stamped
      BY <2>5, <2>18 DEF RenewWrite
    <2>19. ASSUME ReleaseRead(p) PROVE Stamped
      BY <2>4, <2>5, <2>6, <2>19 DEF ReleaseRead
    <2>20. ASSUME RecordEvent(p) \/ Propagate(p) \/ Abort(p) PROVE Stamped
      BY <2>3, <2>4, <2>5, <2>20 DEF RecordEvent, Propagate, Abort
    <2>21. Stamped
      BY <1>5, <2>11, <2>12, <2>13, <2>14, <2>15, <2>16, <2>17, <2>18, <2>19, <2>20
         DEF Step, RowStep
    <2> QED BY <2>21 DEF Stamped
  <1> QED BY <1>3, <1>4, <1>5 DEF Next

LEMMA ClockStep ==
    ASSUME TypeOK, LocalsInv, ClockInv, [Next]_vars
    PROVE  ClockInv'
  <1>1. TypeOK' /\ (OneRowChanges \/ NoRowChanges)
    BY NextInv, RowSteps
  <1>2. now \in Nat /\ now' \in Nat /\ now <= now'
    BY <1>1 DEF TypeOK, OneRowChanges, NoRowChanges
  <1>3. ASSUME NEW r \in Resource, Held(r)' PROVE locks'[r].renewedAt <= now'
    <2>1. CASE NoRowChanges
      <3>1. Held(r) /\ locks'[r] = locks[r]
        BY <1>3, <2>1 DEF NoRowChanges, Held
      <3>2. locks[r].renewedAt \in Nat /\ locks[r].renewedAt <= now
        BY <3>1 DEF ClockInv, Held, TypeOK, Row
      <3> QED BY <1>2, <3>1, <3>2
    <2>2. CASE OneRowChanges
      <3>1. PICK x \in Resource, row \in Row \cup {NoRow} :
                /\ locks' = [locks EXCEPT ![x] = row]
                /\ Rewrites(x, row) \/ Deletes(x, row)
        BY <2>2 DEF OneRowChanges
      <3>2. now' = now
        BY <2>2 DEF OneRowChanges
      <3>3. CASE x = r
        BY <1>3, <3>1, <3>2, <3>3 DEF Rewrites, Deletes, Held, TypeOK
      <3>4. CASE x # r
        BY <1>3, <3>1, <3>2, <3>4 DEF ClockInv, Held, TypeOK
      <3> QED BY <3>3, <3>4
    <2> QED BY <1>1, <2>1, <2>2
  <1>4. ASSUME NEW p \in Process, cmd'[p] # NoCommand PROVE cmd'[p].at <= now'
    <2>1. cmd'[p].at <= now /\ cmd'[p].at \in Nat
      BY <1>1, <1>4, StampSteps DEF TypeOK, Command
    <2> QED BY <1>2, <2>1
  <1> QED BY <1>3, <1>4 DEF ClockInv

LEMMA ClockInit == Init => ClockInv
  BY DEF Init, ClockInv, Held

LEMMA ClockAlways == Spec => [](TypeOK /\ LocalsInv /\ ClockInv)
  BY InitInv, NextInv, ClockInit, ClockStep, PTL DEF Spec

(* No acquire ever takes a resource from a holder whose lease, as the row  *)
(* stands at the UPDATE, has not run out, and no row disappears but by a   *)
(* release of its holder or a forced one (lock.go:390-411, 511-525), in    *)
(* whatever order the statements of the commands come.                     *)
THEOREM NobodyIsEvictedSilently == Spec => NoSilentEviction
  <1>1. TypeOK /\ LocalsInv /\ ClockInv /\ [Next]_vars => EvictsNobody
    <2> SUFFICES ASSUME TypeOK, LocalsInv, ClockInv, [Next]_vars, NEW r \in Resource
                 PROVE  /\ TakenOver(r) => RunOut(locks[r])
                        /\ Freed(r) => MayBeFreed(r)
      BY DEF EvictsNobody
    <2>1. CASE NoRowChanges
      BY <2>1 DEF NoRowChanges, TakenOver, Freed, Held
    <2>2. CASE OneRowChanges
      <3>1. PICK x \in Resource, row \in Row \cup {NoRow} :
                /\ locks' = [locks EXCEPT ![x] = row]
                /\ Rewrites(x, row) \/ Deletes(x, row)
        BY <2>2 DEF OneRowChanges
      <3>2. CASE x = r
        <4>1. locks'[r] = row
          BY <3>1, <3>2 DEF TypeOK
        <4>2. row \in Row => row # NoRow
          BY NoRowAssumption
        <4> QED BY <3>1, <3>2, <4>1, <4>2 DEF Rewrites, Deletes, TakenOver, Freed, Held
      <3>3. CASE x # r
        BY <3>1, <3>3 DEF TypeOK, TakenOver, Freed, Held
      <3> QED BY <3>2, <3>3
    <2> QED BY <2>1, <2>2, RowSteps
  <1> QED BY <1>1, ClockAlways, PTL DEF Spec, NoSilentEviction

-----------------------------------------------------------------------------
(* Retries *)

(* What a step of another slot leaves of q's knowledge. *)
KeepsSlot(q) ==
    /\ pc'[q] = pc[q]
    /\ cmd'[q] = cmd[q]
    /\ result'[q] = result[q]
    /\ ~overtaken'[q] =>
          /\ ~overtaken[q]
          /\ cmd[q] # NoCommand =>
                locks'[cmd[q].resource] = locks[cmd[q].resource]

LEMMA OtherSlots ==
    ASSUME TypeOK, NEW p \in Process, NEW q \in Process, q # p,
           Start(p) \/ Step(p) \/ Abort(p)
    PROVE  KeepsSlot(q)
  <1> DEFINE Slot == pc'[q] = pc[q] /\ cmd'[q] = cmd[q] /\ result'[q] = result[q]
             Rows == ~overtaken'[q] =>
                        /\ ~overtaken[q]
                        /\ cmd[q] # NoCommand =>
                              locks'[cmd[q].resource] = locks[cmd[q].resource]
  <1>1. ASSUME NEW l, NEW c, Goto(p, l, c) PROVE Slot
    BY <1>1 DEF Goto, TypeOK
  <1>2. ASSUME NEW o, Finish(p, o) PROVE Slot
    BY <1>2 DEF Finish, TypeOK
  <1>3. ASSUME Retry(p) PROVE Slot
    BY <1>1, <1>2, <1>3 DEF Retry
  <1>4. ASSUME NEW r, NEW row, WriteRow(p, r, row) PROVE Rows
    <2>1. overtaken'[q] = (overtaken[q] \/ (q # p /\ cmd[q] # NoCommand /\ cmd[q].resource = r))
      BY <1>4 DEF WriteRow
    <2>2. ASSUME cmd[q] # NoCommand, cmd[q].resource # r
          PROVE  locks'[cmd[q].resource] = locks[cmd[q].resource]
      BY <1>4, <2>2 DEF WriteRow, TypeOK, Command
    <2> QED BY <2>1, <2>2
  <1>5. ASSUME locks' = locks, overtaken'[q] = overtaken[q] PROVE Rows
    BY <1>5
  <1>6. ASSUME TouchNothing PROVE Rows
    BY <1>5, <1>6 DEF TouchNothing, tables
  <1>7. ASSUME NEW l, NEW c, Begin(p, l, c) PROVE Slot /\ Rows
    BY <1>5, <1>7 DEF Begin, TypeOK, tables
  <1> HIDE DEF Slot, Rows
  <1>8. ASSUME Start(p) PROVE Slot /\ Rows
    <2>1. ASSUME NEW st, NEW l, RejectAcquire(p, st, l) PROVE Slot /\ Rows
      BY <1>5, <2>1 DEF RejectAcquire, tables, TypeOK, Slot
    <2> QED BY <1>7, <1>8, <2>1 DEF Start, StartAcquire, StartRenew, StartRelease
  <1>9. ASSUME Insert(p) PROVE Slot /\ Rows
    <2>1. Slot
      BY <1>1, <1>9 DEF Insert
    <2>2. Rows
      <3>1. CASE locks[cmd[p].resource] = NoRow
        BY <1>4, <1>9, <3>1 DEF Insert
      <3>2. CASE locks[cmd[p].resource] # NoRow
        BY <1>5, <1>9, <3>2 DEF Insert, tables, TypeOK
      <3> QED BY <3>1, <3>2
    <2> QED BY <2>1, <2>2
  <1>10. ASSUME ReadHolder(p) PROVE Slot /\ Rows
    BY <1>1, <1>3, <1>6, <1>10 DEF ReadHolder
  <1>11. ASSUME Reacquire(p) PROVE Slot /\ Rows
    BY <1>2, <1>4, <1>6, <1>11 DEF Reacquire
  <1>12. ASSUME Reclaim(p) PROVE Slot /\ Rows
    BY <1>1, <1>3, <1>4, <1>6, <1>12 DEF Reclaim
  <1>13. ASSUME RenewRead(p) \/ ReleaseRead(p) \/ Propagate(p) PROVE Slot /\ Rows
    BY <1>1, <1>2, <1>6, <1>13 DEF RenewRead, ReleaseRead, Propagate
  <1>14. ASSUME RenewCheck(p) PROVE Slot /\ Rows
    BY <1>1, <1>2, <1>6, <1>14 DEF RenewCheck
  <1>15. ASSUME RenewWrite(p) PROVE Slot /\ Rows
    BY <1>2, <1>4, <1>6, <1>15 DEF RenewWrite
  <1>16. ASSUME Delete(p) PROVE Slot /\ Rows
    BY <1>1, <1>2, <1>4, <1>6, <1>16 DEF Delete
  <1>17. ASSUME RecordEvent(p) PROVE Slot /\ Rows
    BY <1>1, <1>2, <1>5, <1>17 DEF RecordEvent
  <1>18. ASSUME Abort(p) PROVE Slot /\ Rows
    BY <1>2, <1>5, <1>18 DEF Abort, tables
  <1>19. Slot /\ Rows
    BY <1>8, <1>9, <1>10, <1>11, <1>12, <1>13, <1>14, <1>15, <1>16, <1>17, <1>18
       DEF Step, RowStep
  <1> QED BY <1>19 DEF KeepsSlot, Slot, Rows

(* What a command knows after a step of its own, and why it goes back.     *)
OwnStep(p) ==
    /\ Fresh(p)'
    /\ pc'[p] # "idle" => result'[p] = "none"
    /\ GoesBack(p) => overtaken[p] \/ Overlong(p)

LEMMA OwnSlot ==
    ASSUME IInv, NEW p \in Process, Start(p) \/ Step(p) \/ Abort(p)
    PROVE  OwnStep(p)
  <1> USE DEF OwnStep
  <1> DEFINE c == cmd[p]
             Back == pc[p] \in {"readHolder", "reclaim"}
  <1>0. TypeOK /\ (pc[p] # "idle" => result[p] = "none" /\ c \in Command)
    BY TypeParts, RunningCommand DEF IInv, BusyInv
  <1>1. ASSUME NEW l, NEW d, Goto(p, l, d)
        PROVE  pc'[p] = l /\ cmd'[p] = d /\ result'[p] = result[p]
    BY <1>0, <1>1 DEF Goto, TypeOK
  <1>2. ASSUME NEW o, Finish(p, o) PROVE pc'[p] = "idle" /\ result'[p] = o
    BY <1>0, <1>2 DEF Finish, TypeOK
  <1>3. ASSUME NEW l \in Label \ {"readHolder", "reclaim", "idle"}, NEW d, ~Back,
               Goto(p, l, d), pc[p] # "idle"
        PROVE  OwnStep(p)
    BY <1>0, <1>1, <1>3 DEF Fresh, GoesBack
  <1>4. ASSUME NEW o, Finish(p, o), ~Back PROVE OwnStep(p)
    BY <1>2, <1>4 DEF Fresh, GoesBack
  <1>5. ASSUME Retry(p), overtaken[p] \/ Overlong(p), pc[p] # "idle" PROVE OwnStep(p)
    BY <1>0, <1>1, <1>2, <1>5 DEF Retry, Fresh, GoesBack
  <1>6. ASSUME Start(p) PROVE OwnStep(p)
    <2>1. ASSUME NEW l \in {"insert", "renewRead", "releaseRead"}, NEW d, Begin(p, l, d)
          PROVE  OwnStep(p)
      BY <1>0, <2>1 DEF Begin, TypeOK, Fresh, GoesBack
    <2>2. ASSUME NEW st, NEW l, RejectAcquire(p, st, l) PROVE OwnStep(p)
      BY <2>2 DEF RejectAcquire, Fresh, GoesBack
    <2> QED BY <1>6, <2>1, <2>2 DEF Start, StartAcquire, StartRenew, StartRelease
  <1>7. ASSUME Insert(p) PROVE OwnStep(p)
    <2>1. CASE locks[c.resource] = NoRow
      BY <1>3, <1>7, <2>1 DEF Insert, Label
    <2>2. CASE locks[c.resource] # NoRow
      <3>1. Goto(p, "readHolder", c) /\ locks' = locks /\ pc[p] = "insert"
        BY <1>7, <2>2 DEF Insert, tables
      <3> QED BY <1>0, <1>1, <2>2, <3>1 DEF Fresh, GoesBack, Held
    <2> QED BY <2>1, <2>2
  <1>8. ASSUME ReadHolder(p) PROVE OwnStep(p)
    <2> DEFINE existing == locks[c.resource]
               read == [c EXCEPT !.seen = existing]
    <2>0. pc[p] = "readHolder" /\ locks' = locks /\ overtaken' = overtaken
      BY <1>8 DEF ReadHolder, TouchNothing, tables
    <2>1. CASE existing = NoRow
      <3>1. overtaken[p]
        BY <1>0, <2>0, <2>1 DEF IInv, FreshInv, Fresh, Held, TypeOK
      <3>2. Retry(p)
        BY <1>8, <2>1 DEF ReadHolder
      <3> QED BY <1>5, <2>0, <3>1, <3>2
    <2>2. ASSUME NEW l \in {"reacquire", "record"}, NEW d, Goto(p, l, d) PROVE OwnStep(p)
      BY <1>0, <1>1, <2>0, <2>2 DEF Fresh, GoesBack
    <2>3. CASE Goto(p, "reclaim", read) /\ Expired(existing, c.at)
      <3>1. pc'[p] = "reclaim" /\ cmd'[p] = read /\ result'[p] = result[p]
        BY <1>1, <2>3
      <3>2. read.resource = c.resource /\ read.seen = existing /\ read.at = c.at
        BY <1>0, <2>0 DEF Command
      <3> QED BY <1>0, <2>0, <2>3, <3>1, <3>2 DEF Fresh, GoesBack, Expired, Wrap
    <2> QED BY <1>8, <2>1, <2>2, <2>3 DEF ReadHolder
  <1>9. ASSUME Reclaim(p) PROVE OwnStep(p)
    <2>0. pc[p] = "reclaim"
      BY <1>9 DEF Reclaim
    <2>1. CASE StillReclaimable(locks[c.resource], c)
      <3>1. Goto(p, "record", [c EXCEPT !.event = "reclaimed"])
        BY <1>9, <2>1 DEF Reclaim
      <3>2. pc'[p] = "record" /\ result'[p] = result[p]
        BY <1>1, <3>1
      <3> QED BY <1>0, <2>0, <3>2 DEF Fresh, GoesBack
    <2>2. CASE ~StillReclaimable(locks[c.resource], c)
      <3>1. Retry(p)
        BY <1>9, <2>2 DEF Reclaim
      <3>2. ASSUME ~overtaken[p], ~Overlong(p) PROVE FALSE
        <4>1. /\ locks[c.resource] = c.seen /\ Expired(c.seen, c.at)
              /\ c.seen \in Row /\ ~(c.seen.lease >= IntHalf)
          BY <2>0, <3>2 DEF IInv, FreshInv, Fresh, LocalsInv, Overlong
        <4>2. StillReclaimable(locks[c.resource], c)
          BY <4>1, NoRowAssumption, LockTableAssumption, GoIntAssumption
             DEF StillReclaimable, LapsedInSQL, Expired, Wrap, Row
        <4> QED BY <2>2, <4>2
      <3> QED BY <1>5, <2>0, <3>1, <3>2
    <2> QED BY <2>1, <2>2
  <1>10. ASSUME Reacquire(p) PROVE OwnStep(p)
    BY <1>4, <1>10 DEF Reacquire
  <1>11. ASSUME RenewRead(p) PROVE OwnStep(p)
    BY <1>3, <1>4, <1>11 DEF RenewRead, Label
  <1>12. ASSUME RenewCheck(p) PROVE OwnStep(p)
    BY <1>3, <1>4, <1>12 DEF RenewCheck, Label
  <1>13. ASSUME RenewWrite(p) PROVE OwnStep(p)
    BY <1>4, <1>13 DEF RenewWrite
  <1>14. ASSUME ReleaseRead(p) PROVE OwnStep(p)
    BY <1>3, <1>4, <1>14 DEF ReleaseRead, Label
  <1>15. ASSUME Delete(p) PROVE OwnStep(p)
    BY <1>3, <1>4, <1>15 DEF Delete, Label
  <1>16. ASSUME RecordEvent(p) PROVE OwnStep(p)
    BY <1>3, <1>4, <1>16 DEF RecordEvent, Label
  <1>17. ASSUME Propagate(p) PROVE OwnStep(p)
    BY <1>4, <1>17 DEF Propagate
  <1>18. ASSUME Abort(p) PROVE OwnStep(p)
    BY <1>2, <1>18 DEF Abort, Fresh, GoesBack
  <1> QED BY <1>6, <1>7, <1>8, <1>9, <1>10, <1>11, <1>12, <1>13, <1>14, <1>15,
             <1>16, <1>17, <1>18 DEF Step, RowStep

LEMMA InitIInv == Init => IInv
  BY InitInv, ClockInit DEF Init, IInv, FreshInv, Fresh, BusyInv

LEMMA IInvStep ==
    ASSUME IInv, [Next]_vars
    PROVE  IInv' /\ RetriesHaveCause
  <1>1. TypeOK' /\ LocalsInv' /\ ClockInv'
    BY NextInv, ClockStep DEF IInv
  <1>2. ASSUME NEW p \in Process, Start(p) \/ Step(p) \/ Abort(p), NEW q \in Process
        PROVE  /\ Fresh(q)'
               /\ pc'[q] # "idle" => result'[q] = "none"
               /\ GoesBack(q) => overtaken[q] \/ Overlong(q)
    <2>1. CASE q = p
      BY <1>2, <2>1, OwnSlot DEF OwnStep
    <2>2. CASE q # p
      <3>1. KeepsSlot(q)
        BY <1>2, <2>2, OtherSlots DEF IInv
      <3>2. pc[q] # "idle" => cmd[q] # NoCommand /\ result[q] = "none"
        BY DEF IInv, TypeOK, BusyInv
      <3>3. Fresh(q)
        BY DEF IInv, FreshInv
      <3> QED BY <3>1, <3>2, <3>3 DEF KeepsSlot, Fresh, GoesBack, Held
    <2> QED BY <2>1, <2>2
  <1>3. CASE Tick \/ UNCHANGED vars
    <2>1. /\ pc' = pc /\ cmd' = cmd /\ result' = result
          /\ overtaken' = overtaken /\ locks' = locks
      BY <1>3 DEF Tick, vars, tables
    <2> QED BY <1>1, <2>1 DEF IInv, FreshInv, Fresh, BusyInv, Held, Expired, Wrap,
                             RetriesHaveCause, GoesBack
  <1> QED BY <1>1, <1>2, <1>3 DEF Next, IInv, FreshInv, BusyInv, RetriesHaveCause

(* The inductive invariant, on which everything said of a step rests: the  *)
(* locals of every command, its time stamp and what it knows of its row    *)
(* agree with the tables at every statement of lock.go.                    *)
THEOREM IInvAlways == Spec => []IInv
  BY InitIInv, IInvStep, PTL DEF Spec

(* A round of AcquireLock's loop is spent, and an acquire gives up, only   *)
(* after another process has written the row (lock.go:284-289): Go's test  *)
(* for expiry and reclaimExpiredLock's never disagree about one row, for   *)
(* every lease that Go's integers can hold.                                *)
THEOREM RetriesAreJustified == Spec => RetryOnlyWhenOvertaken
  BY IInvAlways, IInvStep, PTL DEF Spec, RetryOnlyWhenOvertaken

-----------------------------------------------------------------------------
(* Renewals *)

LEMMA RenewalStep ==
    ASSUME IInv, [Next]_vars, NEW q \in Process PROVE RenewsOwn(q)
  <1> SUFFICES ASSUME pc[q] = "renewWrite", result'[q] = "renewed"
               PROVE  /\ Held(cmd[q].resource)
                      /\ locks[cmd[q].resource].holder = cmd[q].identity
                      /\ DeadlineOf(locks[cmd[q].resource]) > cmd[q].at
    BY DEF RenewsOwn, Held
  <1>1. TypeOK /\ result[q] = "none" /\ cmd[q] \in Command
    BY TypeParts, RunningCommand DEF IInv, BusyInv
  <1>2. PICK p \in Process : Start(p) \/ Step(p) \/ Abort(p)
    <2>1. CASE Tick \/ UNCHANGED vars
      BY <1>1, <2>1 DEF Tick, vars
    <2> QED BY <2>1 DEF Next
  <1>3. p = q
    BY <1>1, <1>2, OtherSlots DEF KeepsSlot
  <1>4. \A o : Finish(p, o) => o = "renewed"
    BY <1>1, <1>3 DEF Finish, TypeOK
  <1>5. RenewWrite(p) /\ StillRenewable(locks[cmd[q].resource], cmd[q])
    <2>1. ~Abort(p)
      BY <1>4 DEF Abort
    <2>2. ~Start(p)
      BY <1>3 DEF Start, StartAcquire, StartRenew, StartRelease, RejectAcquire, Begin
    <2>3. RenewWrite(p)
      BY <1>2, <1>3, <2>1, <2>2
         DEF Step, RowStep, Insert, ReadHolder, Reacquire, Reclaim, RenewRead, RenewCheck,
             ReleaseRead, Delete, RecordEvent, Propagate
    <2> QED BY <1>3, <1>4, <2>3 DEF RenewWrite
  <1>6. Held(cmd[q].resource) /\ locks[cmd[q].resource] \in Row /\ cmd[q].at \in Nat
    BY <1>1, <1>5 DEF StillRenewable, Held, TypeOK, Command
  <1> QED BY <1>5, <1>6, LockTableAssumption
          DEF StillRenewable, LiveInSQL, DeadlineOf, Row

(* A renewal that succeeds extends the caller's own hold, which had not    *)
(* run out when the command looked at the clock, whoever has written the   *)
(* row since it was read (lock.go:414-419, 449-464).                       *)
THEOREM RenewalsTouchOwnHold == Spec => RenewalsAreOwn
  <1>1. IInv /\ [Next]_vars => \A p \in Process : RenewsOwn(p)
    BY RenewalStep
  <1> QED BY <1>1, IInvAlways, PTL DEF Spec, RenewalsAreOwn

-----------------------------------------------------------------------------
(* Refinement *)

LEMMA DeadlineType ==
    ASSUME NEW row \in Row, now \in Nat, row.renewedAt <= now
    PROVE  DeadlineOf(row) \in Service!Deadline
  BY LockTableAssumption DEF DeadlineOf, Row, Service!Deadline, Service!Never

LEMMA LapsedDeadline ==
    ASSUME NEW row \in Row, now \in Nat, RunOut(row)
    PROVE  DeadlineOf(row) # Service!Never /\ DeadlineOf(row) <= now
  BY LockTableAssumption DEF DeadlineOf, Row, RunOut, Service!Never

(* Writing one row gives one resource another owner and deadline. *)
LEMMA OneRowMaps ==
    ASSUME TypeOK, NEW r \in Resource, NEW row \in Row \cup {NoRow},
           locks' = [locks EXCEPT ![r] = row]
    PROVE  /\ Owner' = [Owner EXCEPT ![r] = IF row # NoRow THEN row.holder ELSE NoRow]
           /\ Deadlines' = [Deadlines EXCEPT ![r] =
                               IF row # NoRow THEN DeadlineOf(row) ELSE -1]
  <1>1. \A x \in Resource : locks'[x] = IF x = r THEN row ELSE locks[x]
    BY DEF TypeOK
  <1>2. Owner' = [x \in Resource |->
                    IF x = r THEN (IF row # NoRow THEN row.holder ELSE NoRow) ELSE Owner[x]]
    BY <1>1 DEF Owner, Held
  <1>3. Deadlines' = [x \in Resource |->
                        IF x = r THEN (IF row # NoRow THEN DeadlineOf(row) ELSE -1)
                                 ELSE Deadlines[x]]
    BY <1>1 DEF Deadlines, Held
  <1>4. Owner = [x \in Resource |-> Owner[x]] /\ Deadlines = [x \in Resource |-> Deadlines[x]]
    BY DEF Owner, Deadlines
  <1> QED BY <1>2, <1>3, <1>4

LEMMA ServiceInit == Init => Service!Init
  BY DEF Init, Service!Init, Owner, Deadlines, Held, Service!Never

LEMMA ServiceStep ==
    ASSUME TypeOK, LocalsInv, ClockInv, [Next]_vars
    PROVE  [Service!Next]_(Service!serviceVars)
  <1>1. now \in Nat
    BY DEF TypeOK
  <1>2. CASE NoRowChanges
    <2>1. Owner' = Owner /\ Deadlines' = Deadlines
      BY <1>2 DEF NoRowChanges, Owner, Deadlines, Held
    <2> QED BY <1>2, <2>1 DEF NoRowChanges, Service!Next, Service!Tick, Service!serviceVars
  <1>3. CASE OneRowChanges
    <2>1. PICK r \in Resource, row \in Row \cup {NoRow} :
              /\ locks' = [locks EXCEPT ![r] = row]
              /\ Rewrites(r, row) \/ Deletes(r, row)
      BY <1>3 DEF OneRowChanges
    <2>2. now' = now
      BY <1>3 DEF OneRowChanges
    <2>3. /\ Held(r) => /\ locks[r] \in Row
                        /\ Owner[r] = locks[r].holder
                        /\ Owner[r] # NoRow
                        /\ Deadlines[r] = DeadlineOf(locks[r])
          /\ ~Held(r) => Owner[r] = NoRow
      BY NoRowAssumption DEF TypeOK, Held, Owner, Deadlines, Row
    <2>4. CASE Rewrites(r, row)
      <3>1. row \in Row /\ row # NoRow /\ row.holder \in Identity
        BY <2>4, NoRowAssumption DEF Rewrites, Row
      <3>2. Service!Assign(r, row.holder)
        <4>1. /\ Owner' = [Owner EXCEPT ![r] = row.holder]
              /\ Deadlines' = [Deadlines EXCEPT ![r] = DeadlineOf(row)]
          BY <2>1, <3>1, OneRowMaps
        <4>2. DeadlineOf(row) \in Service!Deadline
          BY <1>1, <2>4, <3>1, DeadlineType DEF Rewrites
        <4>3. Deadlines'[r] = DeadlineOf(row)
          BY <4>1 DEF Deadlines
        <4> QED BY <2>2, <4>1, <4>2, <4>3 DEF Service!Assign
      <3>3. CASE ~Held(r)
        <4>1. Service!Claim(r, row.holder)
          BY <2>3, <3>2, <3>3 DEF Service!Claim
        <4> QED BY <3>1, <4>1 DEF Service!Next
      <3>4. CASE Held(r) /\ row.holder = locks[r].holder
        <4>1. Service!Restate(r)
          BY <2>3, <3>2, <3>4 DEF Service!Restate
        <4> QED BY <4>1 DEF Service!Next
      <3>5. CASE Held(r) /\ RunOut(locks[r])
        <4>1. Service!TakeOver(r, row.holder)
          BY <1>1, <2>3, <3>2, <3>5, LapsedDeadline DEF Service!TakeOver
        <4> QED BY <3>1, <4>1 DEF Service!Next
      <3> QED BY <2>4, <3>3, <3>4, <3>5 DEF Rewrites
    <2>5. CASE Deletes(r, row)
      <3>1. row = NoRow /\ Held(r)
        BY <2>5 DEF Deletes
      <3>2. /\ Owner' = [Owner EXCEPT ![r] = NoRow]
            /\ Deadlines' = [Deadlines EXCEPT ![r] = -1]
        BY <2>1, <3>1, OneRowMaps
      <3>3. Service!Free(r)
        BY <2>2, <2>3, <3>1, <3>2 DEF Service!Free, Service!Never
      <3> QED BY <3>3 DEF Service!Next
    <2> QED BY <2>1, <2>4, <2>5
  <1> QED BY <1>2, <1>3, RowSteps

(* lock.go implements the lock its documentation describes (lock.go:11-17, *)
(* 223-256): at most one owner, who keeps the resource until it is freed   *)
(* or until a deadline that really has passed.                             *)
THEOREM ProtocolImplementsService == Spec => ImplementsLockService
  BY ServiceInit, ServiceStep, ClockAlways, PTL
     DEF Spec, ImplementsLockService, Service!Spec

=============================================================================
