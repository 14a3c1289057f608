--------------------------- MODULE LockAuditProofs ---------------------------
(***************************************************************************)
(* The audit trail accounts for the table `locks`, for any number of       *)
(* processes and resources: every claim and every free that the table has  *)
(* seen is logged, about to be logged by the process that made it, or was  *)
(* lost with that process.                                                 *)
(*                                                                         *)
(* The balance is inductive with the types: a step of one process changes  *)
(* at most its own place among those about to log, and the tables.         *)
(***************************************************************************)
EXTENDS LockProtocolProofs, Counting

AuditInv == TypeOK /\ LocalsInv /\ AuditBalance

-----------------------------------------------------------------------------
(* Counting *)

Logged(kind, r) ==
    {e \in DOMAIN lockEvents : lockEvents[e].resource = r /\ lockEvents[e].kind = kind}

(* p is about to log an event of this kind for r. *)
Logs(p, kind, r) == pc[p] = "record" /\ cmd[p].resource = r /\ cmd[p].event = kind

Pending(kind, r) == {p \in Process : Logs(p, kind, r)}

LEMMA Counts ==
    ASSUME TypeOK, NEW kind, NEW r
    PROVE  /\ IsFiniteSet(Logged(kind, r)) /\ CountOf(kind, r) = Cardinality(Logged(kind, r))
           /\ IsFiniteSet(Pending(kind, r))
           /\ AboutToRecord(kind, r) = Cardinality(Pending(kind, r))
           /\ CountOf(kind, r) \in Nat /\ AboutToRecord(kind, r) \in Nat
  <1>1. CountOf(kind, r) = Cardinality(Logged(kind, r))
    BY DEF CountOf, Logged
  <1>2. AboutToRecord(kind, r) = Cardinality(Pending(kind, r))
    BY DEF AboutToRecord, Pending, Logs
  <1>3. IsFiniteSet(Logged(kind, r)) /\ Cardinality(Logged(kind, r)) \in Nat
    BY CountIsNat, PositionsFinite DEF TypeOK, Logged
  <1>4. IsFiniteSet(Pending(kind, r)) /\ Cardinality(Pending(kind, r)) \in Nat
    BY CountIsNat, ProcessAssumption DEF Pending
  <1> QED BY <1>1, <1>2, <1>3, <1>4

(* A step of p changes p's own place among those about to log. *)
LEMMA PendingMoves ==
    ASSUME TypeOK, NEW p \in Process, NEW kind, NEW r,
           \A q \in Process : q # p => pc'[q] = pc[q] /\ cmd'[q] = cmd[q]
    PROVE  AboutToRecord(kind, r)' =
              AboutToRecord(kind, r) + One(Logs(p, kind, r)') - One(Logs(p, kind, r))
  <1> DEFINE S == Pending(kind, r)
             T == {q \in Process : Logs(q, kind, r)'}
  <1>1. AboutToRecord(kind, r) = Cardinality(S) /\ AboutToRecord(kind, r)' = Cardinality(T)
    BY DEF AboutToRecord, Pending, Logs
  <1>2. \A q \in Process : q # p => (q \in T <=> q \in S)
    BY DEF Pending, Logs
  <1>3. Cardinality(T) = Cardinality(S) + One(p \in T) - One(p \in S)
    <2>1. S \subseteq Process /\ T \subseteq Process
      BY DEF Pending
    <2> HIDE DEF S, T
    <2> QED BY <1>2, <2>1, ProcessAssumption, MemberMoves
  <1>4. (p \in S <=> Logs(p, kind, r)) /\ (p \in T <=> Logs(p, kind, r)')
    BY DEF Pending
  <1>5. One(p \in S) = One(Logs(p, kind, r)) /\ One(p \in T) = One(Logs(p, kind, r)')
    BY <1>4 DEF One
  <1> HIDE DEF S, T
  <1> QED BY <1>1, <1>3, <1>5

(* An appended event counts for its own kind and resource. *)
LEMMA LoggedGrows ==
    ASSUME TypeOK, NEW e \in LockEvent, lockEvents' = Append(lockEvents, e), NEW kind, NEW r
    PROVE  CountOf(kind, r)' = CountOf(kind, r) + One(e.resource = r /\ e.kind = kind)
  <1> DEFINE n == Len(lockEvents) + 1
             S == Logged(kind, r)
             T == {i \in DOMAIN lockEvents' :
                     lockEvents'[i].resource = r /\ lockEvents'[i].kind = kind}
  <1>1. /\ DOMAIN lockEvents' = DOMAIN lockEvents \cup {n} /\ n \notin DOMAIN lockEvents
        /\ lockEvents'[n] = e
        /\ \A i \in DOMAIN lockEvents : lockEvents'[i] = lockEvents[i]
    BY AppendKeeps, PositionsFinite DEF TypeOK
  <1>2. CountOf(kind, r)' = Cardinality(T)
    BY DEF CountOf
  <1>3. /\ CountOf(kind, r) = Cardinality(S) /\ IsFiniteSet(S) /\ Cardinality(S) \in Nat
        /\ n \notin S
    <2>1. n \notin S
      BY <1>1 DEF Logged
    <2>2. CountOf(kind, r) = Cardinality(S) /\ IsFiniteSet(S) /\ CountOf(kind, r) \in Nat
      BY Counts
    <2> HIDE DEF n, S
    <2> QED BY <2>1, <2>2
  <1>4. CASE e.resource = r /\ e.kind = kind
    <2>1. T = S \cup {n}
      BY <1>1, <1>4 DEF Logged
    <2> QED BY <1>2, <1>3, <1>4, <2>1, CountGains DEF One
  <1>5. CASE ~(e.resource = r /\ e.kind = kind)
    <2>1. T = S
      BY <1>1, <1>5 DEF Logged
    <2>2. One(e.resource = r /\ e.kind = kind) = 0
      BY <1>5 DEF One
    <2> HIDE DEF S, T
    <2> QED BY <1>2, <1>3, <2>1, <2>2
  <1> QED BY <1>4, <1>5

-----------------------------------------------------------------------------
(* The balance of one resource *)

HeldOne(r) == IF locks[r] = NoRow THEN 0 ELSE 1

BalanceOf(r) ==
    CountOf("acquired", r) + AboutToRecord("acquired", r) + unlogged[r]
      - CountOf("released", r) - AboutToRecord("released", r) = HeldOne(r)

(* What a step of p may add to each term of the balance. *)
LEMMA BalanceMoves ==
    ASSUME TypeOK, NEW p \in Process, NEW r \in Resource, BalanceOf(r),
           \A q \in Process : q # p => pc'[q] = pc[q] /\ cmd'[q] = cmd[q],
           NEW a \in Int, CountOf("acquired", r)' = CountOf("acquired", r) + a,
           NEW f \in Int, CountOf("released", r)' = CountOf("released", r) + f,
           NEW u \in Int, unlogged'[r] = unlogged[r] + u,
           HeldOne(r)' = HeldOne(r) + a - f + u
                            + One(Logs(p, "acquired", r)') - One(Logs(p, "acquired", r))
                            - One(Logs(p, "released", r)') + One(Logs(p, "released", r))
    PROVE  BalanceOf(r)'
  <1>1. /\ AboutToRecord("acquired", r)' = AboutToRecord("acquired", r)
              + One(Logs(p, "acquired", r)') - One(Logs(p, "acquired", r))
        /\ AboutToRecord("released", r)' = AboutToRecord("released", r)
              + One(Logs(p, "released", r)') - One(Logs(p, "released", r))
    BY PendingMoves
  <1>2. \A b : One(b) \in {0, 1}
    BY DEF One
  <1>3. /\ unlogged[r] \in Int /\ HeldOne(r) \in {0, 1}
        /\ CountOf("acquired", r) \in Nat /\ AboutToRecord("acquired", r) \in Nat
        /\ CountOf("released", r) \in Nat /\ AboutToRecord("released", r) \in Nat
    BY Counts DEF TypeOK, HeldOne
  <1> HIDE DEF One, HeldOne
  <1> QED BY <1>1, <1>2, <1>3 DEF BalanceOf

-----------------------------------------------------------------------------
(* What a step does to the row, the log and the pending event *)

LogUntouched == lockEvents' = lockEvents /\ unlogged' = unlogged

(* p claims, or frees, the resource it works on and has that to log.       *)
Claims(p) ==
    /\ pc[p] # "record" /\ pc'[p] = "record" /\ cmd'[p].event = "acquired"
    /\ cmd'[p].resource = cmd[p].resource
    /\ \A r \in Resource : IF r = cmd[p].resource THEN locks[r] = NoRow /\ locks'[r] # NoRow
                                                  ELSE locks'[r] = locks[r]
    /\ LogUntouched

Frees(p) ==
    /\ pc[p] # "record" /\ pc'[p] = "record" /\ cmd'[p].event = "released"
    /\ cmd'[p].resource = cmd[p].resource
    /\ \A r \in Resource : IF r = cmd[p].resource THEN locks[r] # NoRow /\ locks'[r] = NoRow
                                                  ELSE locks'[r] = locks[r]
    /\ LogUntouched

(* p neither claims nor frees a resource, whatever row it rewrites.        *)
Quiet(p) ==
    /\ pc[p] # "record"
    /\ pc'[p] = "record" => cmd'[p].event \notin {"acquired", "released"}
    /\ \A r \in Resource : locks'[r] = NoRow <=> locks[r] = NoRow
    /\ LogUntouched

LEMMA RowChanges ==
    ASSUME TypeOK, NEW p \in Process, NEW x \in Resource, NEW row \in Row \cup {NoRow},
           WriteRow(p, x, row)
    PROVE  /\ locks'[x] = row /\ \A r \in Resource : r # x => locks'[r] = locks[r]
           /\ LogUntouched
  BY DEF TypeOK, WriteRow, LogUntouched

LEMMA SlotChanges ==
    ASSUME TypeOK, NEW p \in Process
    PROVE  /\ \A l, c : Goto(p, l, c) => pc'[p] = l /\ cmd'[p] = c
           /\ \A o : Finish(p, o) => pc'[p] = "idle"
           /\ Retry(p) => pc'[p] \in {"insert", "idle"}
           /\ TouchNothing => locks' = locks /\ LogUntouched
  <1>1. \A l, c : Goto(p, l, c) => pc'[p] = l /\ cmd'[p] = c
    BY DEF TypeOK, Goto
  <1>2. \A o : Finish(p, o) => pc'[p] = "idle"
    BY DEF TypeOK, Finish
  <1>3. TouchNothing => locks' = locks /\ LogUntouched
    BY DEF TouchNothing, tables, LogUntouched
  <1> QED BY <1>1, <1>2, <1>3 DEF Retry

LEMMA StartIsQuiet ==
    ASSUME TypeOK, NEW p \in Process, Start(p)
    PROVE  Quiet(p)
  <1>1. ASSUME NEW l, NEW c, l # "record", Begin(p, l, c) PROVE Quiet(p)
    BY <1>1 DEF TypeOK, Begin, Quiet, LogUntouched, tables
  <1>2. ASSUME NEW s, NEW l, RejectAcquire(p, s, l) PROVE Quiet(p)
    BY <1>2 DEF RejectAcquire, Quiet, LogUntouched, tables
  <1> QED BY <1>1, <1>2 DEF Start, StartAcquire, StartRenew, StartRelease

LEMMA AcquireAccounts ==
    ASSUME TypeOK, NEW p \in Process,
           Insert(p) \/ ReadHolder(p) \/ Reacquire(p) \/ Reclaim(p)
    PROVE  Claims(p) \/ Quiet(p)
  <1> DEFINE c == cmd[p]
             row == locks[c.resource]
  <1>1. pc[p] # "idle" /\ pc[p] # "record"
    BY DEF Insert, ReadHolder, Reacquire, Reclaim
  <1>2. c \in Command /\ c.resource \in Resource /\ OwnRow(c) \in Row /\ row \in Row \cup {NoRow}
    BY <1>1, TypeParts, RunningCommand, OwnRowType DEF Command, TypeOK
  <1>3. \A e \in EventKind : [c EXCEPT !.event = e].event = e
                             /\ [c EXCEPT !.event = e].resource = c.resource
    BY <1>2 DEF Command
  <1>4. CASE Insert(p)
    <2>1. CASE row = NoRow
      <3>1. WriteRow(p, c.resource, OwnRow(c)) /\ Goto(p, "record", [c EXCEPT !.event = "acquired"])
        BY <1>4, <2>1 DEF Insert
      <3>2. pc'[p] = "record" /\ cmd'[p].event = "acquired" /\ cmd'[p].resource = c.resource
        BY <1>3, <3>1, SlotChanges DEF EventKind
      <3>3. /\ locks'[c.resource] = OwnRow(c) /\ LogUntouched
            /\ \A r \in Resource : r # c.resource => locks'[r] = locks[r]
        BY <1>2, <3>1, RowChanges
      <3>4. OwnRow(c) # NoRow
        BY <1>2, NoRowAssumption
      <3> QED BY <1>1, <1>2, <2>1, <3>2, <3>3, <3>4 DEF Claims
    <2>2. CASE row # NoRow
      <3>1. Goto(p, "readHolder", c) /\ locks' = locks /\ LogUntouched
        BY <1>4, <2>2 DEF Insert, tables, LogUntouched
      <3> QED BY <1>1, <3>1, SlotChanges DEF Quiet
    <2> QED BY <2>1, <2>2
  <1>5. CASE ReadHolder(p)
    <2> DEFINE read == [c EXCEPT !.seen = row]
    <2>1. locks' = locks /\ LogUntouched
      BY <1>5, SlotChanges DEF ReadHolder
    <2>2. [read EXCEPT !.event = "denied"].event = "denied"
      BY <1>2 DEF Command
    <2>3. pc'[p] = "record" => cmd'[p].event = "denied"
      <3>1. CASE Retry(p)
        BY <3>1, SlotChanges
      <3>2. CASE Goto(p, "reacquire", read) \/ Goto(p, "reclaim", read)
        BY <3>2, SlotChanges
      <3>3. CASE Goto(p, "record", [read EXCEPT !.event = "denied"])
        BY <2>2, <3>3, SlotChanges
      <3> QED BY <1>5, <3>1, <3>2, <3>3 DEF ReadHolder
    <2> QED BY <1>1, <2>1, <2>3 DEF Quiet
  <1>6. CASE Reacquire(p)
    <2>1. pc'[p] = "idle"
      BY <1>6, SlotChanges DEF Reacquire
    <2>2. CASE row # NoRow
      <3>1. Restated(row, c) \in Row
        BY <1>2, <2>2, RestatedType
      <3>2. WriteRow(p, c.resource, Restated(row, c))
        BY <1>6, <2>2 DEF Reacquire, TouchNothing
      <3>3. /\ locks'[c.resource] = Restated(row, c) /\ LogUntouched
            /\ \A r \in Resource : r # c.resource => locks'[r] = locks[r]
        BY <1>2, <3>1, <3>2, RowChanges
      <3> QED BY <1>1, <1>2, <2>1, <2>2, <3>1, <3>3, NoRowAssumption DEF Quiet
    <2>3. CASE row = NoRow
      BY <1>1, <1>6, <2>1, <2>3, SlotChanges DEF Reacquire, Quiet
    <2> QED BY <2>2, <2>3
  <1>7. CASE Reclaim(p)
    <2>1. CASE StillReclaimable(row, c)
      <3>1. WriteRow(p, c.resource, OwnRow(c)) /\ Goto(p, "record", [c EXCEPT !.event = "reclaimed"])
        BY <1>7, <2>1 DEF Reclaim
      <3>2. pc'[p] = "record" /\ cmd'[p].event = "reclaimed"
        BY <1>3, <3>1, SlotChanges DEF EventKind
      <3>3. /\ locks'[c.resource] = OwnRow(c) /\ LogUntouched
            /\ \A r \in Resource : r # c.resource => locks'[r] = locks[r]
        BY <1>2, <3>1, RowChanges
      <3>4. row # NoRow
        BY <2>1 DEF StillReclaimable
      <3> QED BY <1>1, <1>2, <3>2, <3>3, <3>4, NoRowAssumption DEF Quiet
    <2>2. CASE ~StillReclaimable(row, c)
      <3>1. Retry(p) /\ TouchNothing
        BY <1>7, <2>2 DEF Reclaim
      <3> QED BY <1>1, <3>1, SlotChanges DEF Quiet
    <2> QED BY <2>1, <2>2
  <1> QED BY <1>4, <1>5, <1>6, <1>7

LEMMA RenewIsQuiet ==
    ASSUME TypeOK, NEW p \in Process, RenewRead(p) \/ RenewCheck(p) \/ RenewWrite(p)
    PROVE  Quiet(p)
  <1> DEFINE c == cmd[p]
             row == locks[c.resource]
  <1>1. pc[p] # "idle" /\ pc[p] # "record"
    BY DEF RenewRead, RenewCheck, RenewWrite
  <1>2. c \in Command /\ c.resource \in Resource /\ row \in Row \cup {NoRow}
    BY <1>1, TypeParts, RunningCommand DEF Command, TypeOK
  <1>3. CASE TouchNothing
    <2>1. pc'[p] # "record"
      BY SlotChanges DEF RenewRead, RenewCheck, RenewWrite
    <2> QED BY <1>1, <1>3, <2>1, SlotChanges DEF Quiet
  <1>4. CASE /\ RenewWrite(p) /\ StillRenewable(row, c) /\ Finish(p, "renewed")
             /\ WriteRow(p, c.resource, [row EXCEPT !.renewedAt = c.at])
    <2>1. row # NoRow /\ [row EXCEPT !.renewedAt = c.at] \in Row
      BY <1>2, <1>4 DEF StillRenewable, Row, Command
    <2>2. /\ locks'[c.resource] = [row EXCEPT !.renewedAt = c.at] /\ LogUntouched
          /\ \A r \in Resource : r # c.resource => locks'[r] = locks[r]
      BY <1>2, <1>4, <2>1, RowChanges
    <2>3. pc'[p] = "idle"
      BY <1>4, SlotChanges
    <2> QED BY <1>1, <1>2, <2>1, <2>2, <2>3, NoRowAssumption DEF Quiet
  <1> QED BY <1>3, <1>4 DEF RenewRead, RenewCheck, RenewWrite

LEMMA ReleaseAccounts ==
    ASSUME TypeOK, NEW p \in Process, ReleaseRead(p) \/ Delete(p)
    PROVE  Frees(p) \/ Quiet(p)
  <1> DEFINE c == cmd[p]
             row == locks[c.resource]
  <1>1. pc[p] # "idle" /\ pc[p] # "record"
    BY DEF ReleaseRead, Delete
  <1>2. c \in Command /\ c.resource \in Resource
    BY <1>1, TypeParts, RunningCommand DEF Command
  <1>3. CASE TouchNothing /\ pc'[p] # "record"
    BY <1>1, <1>3, SlotChanges DEF Quiet
  <1>4. CASE ReleaseRead(p)
    BY <1>3, <1>4, SlotChanges DEF ReleaseRead
  <1>5. CASE Delete(p)
    <2>1. CASE Deletable(row, c)
      <3>1. WriteRow(p, c.resource, NoRow) /\ Goto(p, "record", [c EXCEPT !.event = "released"])
        BY <1>5, <2>1 DEF Delete
      <3>2. [c EXCEPT !.event = "released"].event = "released"
            /\ [c EXCEPT !.event = "released"].resource = c.resource
        BY <1>2 DEF Command
      <3>3. pc'[p] = "record" /\ cmd'[p].event = "released" /\ cmd'[p].resource = c.resource
        BY <3>1, <3>2, SlotChanges
      <3>4. /\ locks'[c.resource] = NoRow /\ LogUntouched
            /\ \A r \in Resource : r # c.resource => locks'[r] = locks[r]
        BY <1>2, <3>1, RowChanges
      <3>5. row # NoRow
        BY <2>1 DEF Deletable
      <3> QED BY <1>1, <1>2, <3>3, <3>4, <3>5 DEF Frees
    <2>2. CASE ~Deletable(row, c)
      BY <1>3, <1>5, <2>2, SlotChanges DEF Delete
    <2> QED BY <2>1, <2>2
  <1> QED BY <1>4, <1>5

-----------------------------------------------------------------------------
(* Every kind of step keeps the balance *)

OthersKept(p) == \A q \in Process : q # p => pc'[q] = pc[q] /\ cmd'[q] = cmd[q]

LEMMA AccountedStep ==
    ASSUME TypeOK, NEW p \in Process, NEW r \in Resource, BalanceOf(r), OthersKept(p),
           Claims(p) \/ Frees(p) \/ Quiet(p)
    PROVE  BalanceOf(r)'
  <1>1. /\ \A kind : CountOf(kind, r)' = CountOf(kind, r) /\ CountOf(kind, r) \in Nat
        /\ unlogged'[r] = unlogged[r] /\ unlogged[r] \in Int
    <2>1. lockEvents' = lockEvents /\ unlogged' = unlogged
      BY DEF Claims, Frees, Quiet, LogUntouched
    <2>2. \A kind : CountOf(kind, r)' = CountOf(kind, r)
      BY <2>1 DEF CountOf
    <2>3. \A kind : CountOf(kind, r) \in Nat
      BY Counts
    <2> QED BY <2>1, <2>2, <2>3 DEF TypeOK
  <1>2. HeldOne(r)' = HeldOne(r) + One(Logs(p, "acquired", r)') - One(Logs(p, "acquired", r))
                         - One(Logs(p, "released", r)') + One(Logs(p, "released", r))
    <2>1. One(Logs(p, "acquired", r)) = 0 /\ One(Logs(p, "released", r)) = 0
      BY DEF One, Logs, Claims, Frees, Quiet
    <2>2. CASE Claims(p)
      BY <2>1, <2>2 DEF One, Logs, HeldOne, Claims
    <2>3. CASE Frees(p)
      BY <2>1, <2>3 DEF One, Logs, HeldOne, Frees
    <2>4. CASE Quiet(p)
      BY <2>1, <2>4 DEF One, Logs, HeldOne, Quiet
    <2> QED BY <2>2, <2>3, <2>4
  <1>3. /\ One(Logs(p, "acquired", r)') \in {0, 1} /\ One(Logs(p, "acquired", r)) \in {0, 1}
        /\ One(Logs(p, "released", r)') \in {0, 1} /\ One(Logs(p, "released", r)) \in {0, 1}
        /\ HeldOne(r) \in {0, 1}
    BY DEF One, HeldOne
  <1>4. /\ CountOf("acquired", r)' = CountOf("acquired", r) + 0
        /\ CountOf("released", r)' = CountOf("released", r) + 0
        /\ unlogged'[r] = unlogged[r] + 0
    <2> HIDE DEF CountOf
    <2> QED BY <1>1
  <1>5. HeldOne(r)' = HeldOne(r) + 0 - 0 + 0
                         + One(Logs(p, "acquired", r)') - One(Logs(p, "acquired", r))
                         - One(Logs(p, "released", r)') + One(Logs(p, "released", r))
    BY <1>2, <1>3
  <1> QED BY <1>4, <1>5, BalanceMoves DEF OthersKept

LEMMA RecordStep ==
    ASSUME TypeOK, LocalsInv, NEW p \in Process, NEW r \in Resource, BalanceOf(r),
           OthersKept(p), RecordEvent(p)
    PROVE  BalanceOf(r)'
  <1> DEFINE c == cmd[p]
             e == EventOf(c)
  <1>1. pc[p] = "record" /\ lockEvents' = Append(lockEvents, e)
        /\ locks' = locks /\ unlogged' = unlogged
    BY DEF RecordEvent
  <1>2. c \in Command /\ e \in LockEvent
    BY <1>1, TypeParts, RunningCommand, EventType DEF LocalsInv
  <1>3. e.resource = c.resource /\ e.kind = c.event
    BY DEF EventOf
  <1>4. pc'[p] # "record"
    <2>1. CASE Newsworthy(c.event)
      BY <2>1, SlotChanges DEF RecordEvent
    <2>2. CASE ~Newsworthy(c.event)
      BY <2>2, SlotChanges DEF RecordEvent
    <2> QED BY <2>1, <2>2
  <1>5. \A kind : One(Logs(p, kind, r)') = 0
                  /\ One(Logs(p, kind, r)) = One(e.resource = r /\ e.kind = kind)
    BY <1>1, <1>3, <1>4 DEF One, Logs
  <1>6. \A b : One(b) \in {0, 1}
    BY DEF One
  <1>7. \A kind : CountOf(kind, r)' = CountOf(kind, r) + One(Logs(p, kind, r))
    BY <1>1, <1>2, <1>5, LoggedGrows
  <1>8. unlogged'[r] = unlogged[r] + 0 /\ HeldOne(r)' = HeldOne(r) /\ HeldOne(r) \in {0, 1}
    BY <1>1 DEF TypeOK, HeldOne
  <1>9. HeldOne(r)' = HeldOne(r)
                         + One(Logs(p, "acquired", r)) - One(Logs(p, "released", r)) + 0
                         + One(Logs(p, "acquired", r)') - One(Logs(p, "acquired", r))
                         - One(Logs(p, "released", r)') + One(Logs(p, "released", r))
    <2> HIDE DEF One, HeldOne
    <2> QED BY <1>5, <1>6, <1>8
  <1>10. One(Logs(p, "acquired", r)) \in Int /\ One(Logs(p, "released", r)) \in Int
    BY DEF One
  <1> QED BY <1>7, <1>8, <1>9, <1>10, BalanceMoves DEF OthersKept

LEMMA AbortStep ==
    ASSUME TypeOK, NEW p \in Process, NEW r \in Resource, BalanceOf(r),
           OthersKept(p), Abort(p)
    PROVE  BalanceOf(r)'
  <1> DEFINE c == cmd[p]
             lost == One(Logs(p, "acquired", r)) - One(Logs(p, "released", r))
  <1>1. pc[p] # "idle" /\ pc'[p] = "idle" /\ locks' = locks /\ lockEvents' = lockEvents
    BY SlotChanges DEF Abort, tables
  <1>2. c.resource \in Resource
    BY <1>1, TypeParts, RunningCommand DEF Command
  <1>3. unlogged'[r] = unlogged[r] + lost /\ lost \in Int
    <2>1. unlogged' = [unlogged EXCEPT ![c.resource] =
                          @ + IF pc[p] = "record" THEN NetClaim(c.event) ELSE 0]
      BY DEF Abort
    <2>2. unlogged[r] \in Int
      BY DEF TypeOK
    <2>3. CASE r # c.resource
      BY <1>2, <2>1, <2>2, <2>3 DEF TypeOK, Logs, One
    <2>4. CASE r = c.resource
      <3>1. unlogged'[r] = unlogged[r] + IF pc[p] = "record" THEN NetClaim(c.event) ELSE 0
        BY <1>2, <2>1, <2>4 DEF TypeOK
      <3>2. (IF pc[p] = "record" THEN NetClaim(c.event) ELSE 0) = lost
        BY <2>4 DEF NetClaim, Logs, One
      <3> QED BY <2>2, <3>1, <3>2 DEF One
    <2> QED BY <2>3, <2>4
  <1>4. \A kind : One(Logs(p, kind, r)') = 0
    BY <1>1 DEF One, Logs
  <1>5. \A kind : CountOf(kind, r)' = CountOf(kind, r) /\ CountOf(kind, r) \in Nat
    <2>1. \A kind : CountOf(kind, r)' = CountOf(kind, r)
      BY <1>1 DEF CountOf
    <2>2. \A kind : CountOf(kind, r) \in Nat
      BY Counts
    <2> QED BY <2>1, <2>2
  <1>6. /\ CountOf("acquired", r)' = CountOf("acquired", r) + 0
        /\ CountOf("released", r)' = CountOf("released", r) + 0
    <2> HIDE DEF CountOf
    <2> QED BY <1>5
  <1>7. \A b : One(b) \in {0, 1}
    BY DEF One
  <1>8. HeldOne(r)' = HeldOne(r) /\ HeldOne(r) \in {0, 1}
    BY <1>1 DEF HeldOne
  <1>9. HeldOne(r)' = HeldOne(r) + 0 - 0 + lost
                         + One(Logs(p, "acquired", r)') - One(Logs(p, "acquired", r))
                         - One(Logs(p, "released", r)') + One(Logs(p, "released", r))
    <2> HIDE DEF One, HeldOne
    <2> QED BY <1>4, <1>7, <1>8
  <1> HIDE DEF lost
  <1> QED BY <1>3, <1>6, <1>9, BalanceMoves DEF OthersKept

-----------------------------------------------------------------------------
LEMMA BalanceInit == Init => AuditBalance
  <1> SUFFICES ASSUME Init, NEW r \in Resource PROVE BalanceOf(r)
    BY DEF AuditBalance, BalanceOf, HeldOne
  <1>1. \A kind : Logged(kind, r) = {} /\ Pending(kind, r) = {}
    BY DEF Init, Logged, Pending, Logs
  <1>2. \A kind : CountOf(kind, r) = 0 /\ AboutToRecord(kind, r) = 0
    BY <1>1, Counts, InitInv, FS_EmptySet
  <1>3. unlogged[r] = 0 /\ HeldOne(r) = 0
    BY DEF Init, HeldOne
  <1> QED BY <1>2, <1>3 DEF BalanceOf

LEMMA BalanceStep ==
    ASSUME AuditInv, [Next]_vars
    PROVE  AuditInv'
  <1>1. TypeOK /\ LocalsInv /\ \A r \in Resource : BalanceOf(r)
    BY DEF AuditInv, AuditBalance, BalanceOf, HeldOne
  <1>2. TypeOK' /\ LocalsInv'
    BY <1>1, NextInv
  <1>3. ASSUME NEW r \in Resource PROVE BalanceOf(r)'
    <2>1. ASSUME NEW p \in Process, Start(p) \/ Step(p) \/ Abort(p)
          PROVE  BalanceOf(r)'
      <3>1. OthersKept(p)
        BY <1>1, <2>1, OtherSlots DEF OthersKept, KeepsSlot
      <3>2. CASE Start(p)
        BY <1>1, <3>1, <3>2, StartIsQuiet, AccountedStep
      <3>3. CASE RowStep(p)
        BY <1>1, <3>1, <3>3, AcquireAccounts, RenewIsQuiet, ReleaseAccounts, AccountedStep
           DEF RowStep
      <3>4. CASE RecordEvent(p)
        BY <1>1, <3>1, <3>4, RecordStep
      <3>5. CASE Propagate(p)
        <4>1. Quiet(p)
          BY <1>1, <3>5, SlotChanges DEF Propagate, Quiet
        <4> QED BY <1>1, <3>1, <4>1, AccountedStep
      <3>6. CASE Abort(p)
        BY <1>1, <3>1, <3>6, AbortStep
      <3> QED BY <2>1, <3>2, <3>3, <3>4, <3>5, <3>6 DEF Step
    <2>2. CASE Tick \/ vars' = vars
      <3>1. UNCHANGED <<locks, lockEvents, pc, cmd, unlogged>>
        BY <2>2 DEF Tick, tables, vars
      <3> QED BY <1>1, <3>1 DEF BalanceOf, CountOf, AboutToRecord, HeldOne
    <2> QED BY <2>1, <2>2 DEF Next
  <1> QED BY <1>2, <1>3 DEF AuditInv, AuditBalance, BalanceOf, HeldOne

(* Whatever the number of processes and resources, wherever they are       *)
(* interrupted: the claims and frees in lock_events, with those still to   *)
(* be logged or lost to an abort, account for every row of `locks`         *)
(* (lock.go:245-256, 496-503).                                             *)
THEOREM TheAuditTrailBalances == Spec => []AuditBalance
  <1>1. Init => AuditInv
    BY InitInv, BalanceInit DEF AuditInv
  <1>2. AuditInv /\ [Next]_vars => AuditInv'
    BY BalanceStep
  <1>3. AuditInv => AuditBalance
    BY DEF AuditInv
  <1> QED BY <1>1, <1>2, <1>3, PTL DEF Spec
==============================================================================
