---------------------------- MODULE LockProtocol ----------------------------
(***************************************************************************)
(* lock.go: `lock acquire`, `lock renew` and `lock release`, each run by   *)
(* an operating-system process of its own against one SQLite file.         *)
(*                                                                         *)
(* Store.exec and QueryRow run every statement on its own, outside any     *)
(* transaction, so one action is one SQL statement together with the Go    *)
(* code up to the next one.  Between two statements any other process may  *)
(* act, the clock may advance, and the process may die.                    *)
(*                                                                         *)
(* A process is a slot in which commands run one after the other.  cmd[p]  *)
(* holds the locals of the command in slot p; pc[p] names its next         *)
(* statement.  lock_events is a sequence whose index is SQLite's rowid.    *)
(***************************************************************************)
EXTENDS LockTable, Sequences, FiniteSets

CONSTANTS
    Process,      \* slots in which one command runs at a time
    LeaseArg,     \* values of -lease; a negative one reaches AcquireLock too
    StrategyArg,  \* values of -strategy, ids of no strategy included
    NoCommand,    \* the locals of an empty slot
    MaxAttempts,  \* rounds of AcquireLock's loop: 3 in lock.go
    MaxTime,      \* bound: the clock stops here
    MaxCommands   \* bound: commands started in a run

ASSUME LockProtocolAssumption ==
    /\ LeaseArg \subseteq Int
    /\ \A l \in LeaseArg : l <= MaxLease
    /\ MaxAttempts \in Nat \ {0}
    /\ MaxTime \in Nat
    /\ MaxCommands \in Nat

Label == {"idle", "insert", "readHolder", "reacquire", "reclaim", "record",
          "renewRead", "renewCheck", "renewWrite",
          "releaseRead", "delete", "propagate"}

EventKind == {"acquired", "denied", "released", "reclaimed"}

Outcome == {"none", "granted", "denied", "contention", "renewed", "released",
            "refused", "invalid", "aborted"}

(* at: `now` of AcquireLock and RenewLock; seen: `existing`; event: the    *)
(* kind passed to recordLockEvent once the command has settled on one.     *)
Command == [resource : Resource, identity : Identity, strategy : StrategyLink,
            lease : 0..MaxLease, force : BOOLEAN, at : Nat,
            attempt : 0..(MaxAttempts - 1), seen : Row \cup {NoRow},
            event : EventKind \cup {"none"}]

LockEvent == [resource : Resource, kind : EventKind, identity : Identity,
              holder : Identity, strategy : StrategyLink, forced : BOOLEAN]

ASSUME NoCommandAssumption == NoCommand \notin Command

ASSUME ProcessAssumption == IsFiniteSet(Process)

VARIABLES
    now,          \* the machine's clock
    locks,        \* table locks, by resource
    lockEvents,   \* table lock_events
    pc, cmd,      \* the commands being run
    result,       \* what the last command of each slot reported
    started,      \* commands started so far
    overtaken,    \* history: did another process write the row of p's
                  \* resource since p last tried to insert it?
    unlogged      \* history: claims less frees whose event was lost to an
                  \* abort, by resource

tables == <<locks, lockEvents>>
vars == <<now, locks, lockEvents, pc, cmd, result, started, overtaken, unlogged>>

TypeOK ==
    /\ now \in Nat
    /\ locks \in [Resource -> Row \cup {NoRow}]
    /\ lockEvents \in Seq(LockEvent)
    /\ pc \in [Process -> Label]
    /\ cmd \in [Process -> Command \cup {NoCommand}]
    /\ result \in [Process -> Outcome]
    /\ started \in Nat
    /\ overtaken \in [Process -> BOOLEAN]
    /\ unlogged \in [Resource -> Int]
    /\ \A p \in Process : pc[p] = "idle" <=> cmd[p] = NoCommand

Init ==
    /\ now = 0
    /\ locks = [r \in Resource |-> NoRow]
    /\ lockEvents = <<>>
    /\ pc = [p \in Process |-> "idle"]
    /\ cmd = [p \in Process |-> NoCommand]
    /\ result = [p \in Process |-> "none"]
    /\ started = 0
    /\ overtaken = [p \in Process |-> FALSE]
    /\ unlogged = [r \in Resource |-> 0]

-----------------------------------------------------------------------------
(* Moving a command along.  None of these touches a table.                 *)

Goto(p, label, locals) ==
    /\ pc' = [pc EXCEPT ![p] = label]
    /\ cmd' = [cmd EXCEPT ![p] = locals]
    /\ UNCHANGED <<now, result, started>>

Finish(p, outcome) ==
    /\ pc' = [pc EXCEPT ![p] = "idle"]
    /\ cmd' = [cmd EXCEPT ![p] = NoCommand]
    /\ result' = [result EXCEPT ![p] = outcome]
    /\ UNCHANGED <<now, started>>

Begin(p, label, locals) ==
    /\ pc[p] = "idle"
    /\ started < MaxCommands
    /\ started' = started + 1
    /\ pc' = [pc EXCEPT ![p] = label]
    /\ cmd' = [cmd EXCEPT ![p] = locals]
    /\ result' = [result EXCEPT ![p] = "none"]
    /\ overtaken' = [overtaken EXCEPT ![p] = FALSE]
    /\ UNCHANGED <<now, tables, unlogged>>

Locals(r, i) ==
    [resource |-> r, identity |-> i, strategy |-> Unlinked, lease |-> 0,
     force |-> FALSE, at |-> 0, attempt |-> 0, seen |-> NoRow, event |-> "none"]

(* `continue` in AcquireLock's loop, and the error after the last round.   *)
Retry(p) ==
    IF cmd[p].attempt + 1 < MaxAttempts
    THEN Goto(p, "insert", [cmd[p] EXCEPT !.attempt = @ + 1, !.seen = NoRow])
    ELSE Finish(p, "contention")

(* p writes the row of r: everybody else on r has been overtaken.          *)
WriteRow(p, r, row) ==
    /\ locks' = [locks EXCEPT ![r] = row]
    /\ overtaken' = [q \in Process |->
            overtaken[q] \/ (q # p /\ cmd[q] # NoCommand /\ cmd[q].resource = r)]
    /\ UNCHANGED <<lockEvents, unlogged>>

TouchNothing == UNCHANGED <<tables, overtaken, unlogged>>

-----------------------------------------------------------------------------
(* lock acquire *)

(* Mutant: AcquireLock relies on the command line to refuse a negative     *)
(* lease.                                                                  *)
StartAcquireTrustingCaller(p, r, i, strategy, lease) ==
    /\ strategy \in StrategyLink
    /\ Begin(p, "insert", [Locals(r, i) EXCEPT !.strategy = strategy,
                                               !.lease = lease, !.at = now])

(* AcquireLock takes its time stamp once, before the loop: every attempt   *)
(* reuses it.                                                              *)
StartAcquire(p, r, i, strategy, lease) ==
    /\ lease >= 0
    /\ strategy \in StrategyLink
    /\ Begin(p, "insert", [Locals(r, i) EXCEPT !.strategy = strategy,
                                               !.lease = lease, !.at = now])

RejectAcquire(p, strategy, lease) ==
    /\ pc[p] = "idle"
    /\ started < MaxCommands
    /\ lease < 0 \/ strategy \notin StrategyLink
    /\ started' = started + 1
    /\ result' = [result EXCEPT ![p] = "invalid"]
    /\ UNCHANGED <<now, tables, pc, cmd, overtaken, unlogged>>

(* The row a command writes when it claims or takes over its resource.     *)
OwnRow(c) == NewRow(c.identity, c.strategy, c.lease, c.at)

(* INSERT ... ON CONFLICT(resource) DO NOTHING *)
Insert(p) ==
    LET c == cmd[p] IN
    /\ pc[p] = "insert"
    /\ \/ /\ locks[c.resource] = NoRow
          /\ WriteRow(p, c.resource, OwnRow(c))
          /\ Goto(p, "record", [c EXCEPT !.event = "acquired"])
       \/ /\ locks[c.resource] # NoRow
          /\ Goto(p, "readHolder", c)
          /\ overtaken' = [overtaken EXCEPT ![p] = FALSE]
          /\ UNCHANGED <<tables, unlogged>>

ReadHolder(p) ==
    LET c == cmd[p]
        existing == locks[c.resource]
        read == [c EXCEPT !.seen = existing]
    IN
    /\ pc[p] = "readHolder"
    /\ \/ existing = NoRow /\ Retry(p)
       \/ /\ existing # NoRow
          /\ \/ /\ existing.holder = c.identity
                /\ Goto(p, "reacquire", read)
             \/ /\ existing.holder # c.identity
                /\ Expired(existing, c.at)
                /\ Goto(p, "reclaim", read)
             \/ /\ existing.holder # c.identity
                /\ ~Expired(existing, c.at)
                /\ Goto(p, "record", [read EXCEPT !.event = "denied"])
    /\ TouchNothing

(* UPDATE locks SET ... WHERE resource = ?: whatever row is there now, be  *)
(* it this identity's or not; the number of rows changed is not looked at. *)
Restated(row, c) == [OwnRow(c) EXCEPT !.holder = row.holder]

Reacquire(p) ==
    LET c == cmd[p]
        row == locks[c.resource]
    IN
    /\ pc[p] = "reacquire"
    /\ \/ row # NoRow /\ WriteRow(p, c.resource, Restated(row, c))
       \/ row = NoRow /\ TouchNothing
    /\ Finish(p, "granted")

(* Mutant: the UPDATE checks the holder it read and not the lease. *)
StillReclaimableTrustingRead(row, c) ==
    /\ row # NoRow
    /\ row.holder = c.seen.holder

(* reclaimExpiredLock's UPDATE *)
StillReclaimable(row, c) ==
    /\ row # NoRow
    /\ row.holder = c.seen.holder
    /\ LapsedInSQL(row, c.at)

Reclaim(p) ==
    LET c == cmd[p]
        row == locks[c.resource]
    IN
    /\ pc[p] = "reclaim"
    /\ \/ /\ StillReclaimable(row, c)
          /\ WriteRow(p, c.resource, OwnRow(c))
          /\ Goto(p, "record", [c EXCEPT !.event = "reclaimed"])
       \/ /\ ~StillReclaimable(row, c)
          /\ Retry(p)
          /\ TouchNothing

-----------------------------------------------------------------------------
(* lock renew *)

StartRenew(p, r, i) == Begin(p, "renewRead", Locals(r, i))

RenewRead(p) ==
    LET c == cmd[p]
        existing == locks[c.resource]
        renewable == /\ existing # NoRow
                     /\ existing.holder = c.identity
                     /\ existing.lease > 0
    IN
    /\ pc[p] = "renewRead"
    /\ \/ renewable /\ Goto(p, "renewCheck", [c EXCEPT !.seen = existing])
       \/ ~renewable /\ Finish(p, "refused")
    /\ TouchNothing

(* now := time.Now() comes after the read: time may have passed between.   *)
RenewCheck(p) ==
    LET c == cmd[p] IN
    /\ pc[p] = "renewCheck"
    /\ \/ Expired(c.seen, now) /\ Finish(p, "refused")
       \/ ~Expired(c.seen, now) /\ Goto(p, "renewWrite", [c EXCEPT !.at = now])
    /\ TouchNothing

(* Mutant: the holder has been looked at already, in the row that was read. *)
StillRenewableTrustingRead(row, c) ==
    /\ row # NoRow
    /\ LiveInSQL(row, c.at)

(* RenewLock's UPDATE, with the time stamp of the check. *)
StillRenewable(row, c) ==
    /\ row # NoRow
    /\ row.holder = c.identity
    /\ LiveInSQL(row, c.at)

(* Mutant: a renewal adds a lease to the one still running. *)
RenewWriteCumulative(p) ==
    LET c == cmd[p]
        row == locks[c.resource]
    IN
    /\ pc[p] = "renewWrite"
    /\ \/ /\ StillRenewable(row, c)
          /\ WriteRow(p, c.resource, [row EXCEPT !.renewedAt = @ + row.lease])
          /\ Finish(p, "renewed")
       \/ /\ ~StillRenewable(row, c)
          /\ TouchNothing
          /\ Finish(p, "refused")

RenewWrite(p) ==
    LET c == cmd[p]
        row == locks[c.resource]
    IN
    /\ pc[p] = "renewWrite"
    /\ \/ /\ StillRenewable(row, c)
          /\ WriteRow(p, c.resource, [row EXCEPT !.renewedAt = c.at])
          /\ Finish(p, "renewed")
       \/ /\ ~StillRenewable(row, c)
          /\ TouchNothing
          /\ Finish(p, "refused")

-----------------------------------------------------------------------------
(* lock release *)

StartRelease(p, r, i, force) ==
    Begin(p, "releaseRead", [Locals(r, i) EXCEPT !.force = force])

ReleaseRead(p) ==
    LET c == cmd[p]
        existing == locks[c.resource]
        releasable == /\ existing # NoRow
                      /\ existing.holder = c.identity \/ c.force
    IN
    /\ pc[p] = "releaseRead"
    /\ \/ releasable /\ Goto(p, "delete", [c EXCEPT !.seen = existing])
       \/ ~releasable /\ Finish(p, "refused")
    /\ TouchNothing

(* Mutant: what the first read saw is taken for still true. *)
DeletableTrustingRead(row, c) == c.seen # NoRow

(* DELETE: by resource with -force, by resource and holder without.  A     *)
(* -force that finds nothing to delete has what it wanted; the GetLock     *)
(* that words the other case's error decides nothing.                      *)
Deletable(row, c) ==
    /\ row # NoRow
    /\ c.force \/ row.holder = c.identity

Delete(p) ==
    LET c == cmd[p]
        row == locks[c.resource]
    IN
    /\ pc[p] = "delete"
    /\ \/ /\ Deletable(row, c)
          /\ WriteRow(p, c.resource, NoRow)
          /\ Goto(p, "record", [c EXCEPT !.event = "released"])
       \/ /\ ~Deletable(row, c)
          /\ TouchNothing
          /\ Finish(p, IF c.force THEN "released" ELSE "refused")

-----------------------------------------------------------------------------
(* The event log, and the end of a command *)

(* The arguments of the four recordLockEvent calls: all but the claims     *)
(* describe `existing`, the row read before the deciding statement.        *)
EventOf(c) ==
    [resource |-> c.resource, kind |-> c.event, identity |-> c.identity,
     holder   |-> IF c.event = "acquired" THEN c.identity ELSE c.seen.holder,
     strategy |-> IF c.event \in {"acquired", "reclaimed"}
                  THEN c.strategy ELSE c.seen.strategy,
     forced   |-> c.event = "released" /\ c.seen.holder # c.identity]

(* Everything but an uncontested claim goes on to matchAndPropagate.       *)
Newsworthy(kind) == kind # "acquired"

OutcomeOf(kind) ==
    CASE kind \in {"acquired", "reclaimed"} -> "granted"
      [] kind = "denied" -> "denied"
      [] OTHER -> "released"

(* Mutant: an uncontested claim is propagated like everything else. *)
RecordEventTellingAll(p) ==
    /\ pc[p] = "record"
    /\ lockEvents' = Append(lockEvents, EventOf(cmd[p]))
    /\ Goto(p, "propagate", cmd[p])
    /\ UNCHANGED <<locks, overtaken, unlogged>>

RecordEvent(p) ==
    /\ pc[p] = "record"
    /\ lockEvents' = Append(lockEvents, EventOf(cmd[p]))
    /\ IF Newsworthy(cmd[p].event)
       THEN Goto(p, "propagate", cmd[p])
       ELSE Finish(p, OutcomeOf(cmd[p].event))
    /\ UNCHANGED <<locks, overtaken, unlogged>>

(* matchAndPropagate has returned; module Coordination models what it did. *)
Propagate(p) ==
    /\ pc[p] = "propagate"
    /\ Finish(p, OutcomeOf(cmd[p].event))
    /\ TouchNothing

(* A kill, or a statement that still fails after exec's retries: what the  *)
(* command has written so far stays.                                       *)
NetClaim(event) ==
    CASE event = "acquired" -> 1
      [] event = "released" -> -1
      [] OTHER -> 0

Abort(p) ==
    /\ pc[p] # "idle"
    /\ Finish(p, "aborted")
    /\ unlogged' = [unlogged EXCEPT ![cmd[p].resource] =
                        @ + IF pc[p] = "record" THEN NetClaim(cmd[p].event) ELSE 0]
    /\ UNCHANGED <<tables, overtaken>>

Tick ==
    /\ now < MaxTime
    /\ now' = now + 1
    /\ UNCHANGED <<tables, pc, cmd, result, started, overtaken, unlogged>>

-----------------------------------------------------------------------------
Start(p) ==
    \/ \E r \in Resource, i \in Identity, s \in StrategyArg, l \in LeaseArg :
          StartAcquire(p, r, i, s, l)
    \/ \E s \in StrategyArg, l \in LeaseArg : RejectAcquire(p, s, l)
    \/ \E r \in Resource, i \in Identity : StartRenew(p, r, i)
    \/ \E r \in Resource, i \in Identity, f \in BOOLEAN : StartRelease(p, r, i, f)

(* One statement of a running command: on the table locks, or after it. *)
RowStep(p) ==
    \/ Insert(p) \/ ReadHolder(p) \/ Reacquire(p) \/ Reclaim(p)
    \/ RenewRead(p) \/ RenewCheck(p) \/ RenewWrite(p)
    \/ ReleaseRead(p) \/ Delete(p)

Step(p) == RowStep(p) \/ RecordEvent(p) \/ Propagate(p)

Next == Tick \/ \E p \in Process : Start(p) \/ Step(p) \/ Abort(p)

Spec == Init /\ [][Next]_vars


-----------------------------------------------------------------------------
(* Properties *)

CountOf(kind, r) ==
    Cardinality({e \in DOMAIN lockEvents :
                    lockEvents[e].resource = r /\ lockEvents[e].kind = kind})

AboutToRecord(kind, r) ==
    Cardinality({p \in Process : /\ pc[p] = "record"
                                 /\ cmd[p].resource = r
                                 /\ cmd[p].event = kind})

(* The audit trail accounts for the table: claims less frees, counting the *)
(* ones whose event is still to be written or was lost with its process,   *)
(* are 1 for a held resource and 0 for a free one.  Two winners of one     *)
(* claim, or two releases that both report success, break it (the races    *)
(* described at lock.go:245-256 and 496-503).                              *)
AuditBalance ==
    \A r \in Resource :
        CountOf("acquired", r) + AboutToRecord("acquired", r) + unlogged[r]
          - CountOf("released", r) - AboutToRecord("released", r)
        = IF locks[r] = NoRow THEN 0 ELSE 1

Held(r) == locks[r] # NoRow

(* A holder loses a resource to another identity only when its lease, as   *)
(* the row states it at that very moment, has run out on the machine's     *)
(* clock; and its row disappears only through a release of its own or a    *)
(* forced one.  The takeover is decided on a row read earlier and a time   *)
(* stamp taken before that (lock.go:281, 306, 323).                        *)
TakenOver(r) == Held(r) /\ Held(r)' /\ locks'[r].holder # locks[r].holder
Freed(r) == Held(r) /\ ~Held(r)'

MayBeFreed(r) ==
    \E p \in Process : /\ pc[p] = "delete"
                       /\ cmd[p].resource = r
                       /\ cmd[p].force \/ cmd[p].identity = locks[r].holder

RunOut(row) == row.lease > 0 /\ now >= row.renewedAt + row.lease

EvictsNobody ==
    \A r \in Resource :
        /\ TakenOver(r) => RunOut(locks[r])
        /\ Freed(r) => MayBeFreed(r)

NoSilentEviction == [][EvictsNobody]_vars

(* An acquire goes back to its INSERT, or gives up with "too much          *)
(* contention", only when some other process has written the resource's    *)
(* row since its last try (lock.go:285-289).  In particular the Go test    *)
(* for expiry and the SQL one never disagree, which would burn the three   *)
(* attempts on a resource nobody else touches.  The one exception is a row *)
(* whose lease is past Go's integers: lock.go:68-82 says that both sides   *)
(* compute "the exact same thing" for any real lease, and beyond it Go     *)
(* finds the lease run out, or not, where SQL does not agree.              *)
GoesBack(p) ==
    /\ pc[p] \in {"readHolder", "reclaim"}
    /\ pc'[p] = "insert" \/ result'[p] = "contention"

Overlong(p) == pc[p] = "reclaim" /\ cmd[p].seen.lease >= IntHalf

RetriesHaveCause ==
    \A p \in Process : GoesBack(p) => overtaken[p] \/ Overlong(p)

RetryOnlyWhenOvertaken == [][RetriesHaveCause]_vars

DeadlineOf(row) == IF row.lease > 0 THEN row.renewedAt + row.lease ELSE -1

(* A renewal that reports success has extended a hold of the caller's own, *)
(* and one that had not run out when the command looked at the clock,      *)
(* although the row may have been taken over, claimed anew or released     *)
(* since it was read (lock.go:414-419, 430-471).                           *)
RenewsOwn(p) ==
    LET row == locks[cmd[p].resource] IN
    pc[p] = "renewWrite" /\ result'[p] = "renewed" =>
       /\ row # NoRow
       /\ row.holder = cmd[p].identity
       /\ DeadlineOf(row) > cmd[p].at

RenewalsAreOwn == [][\A p \in Process : RenewsOwn(p)]_vars

(* The table implements the abstract lock: a row is an owner, and its      *)
(* lease a deadline.                                                       *)
Owner == [r \in Resource |-> IF Held(r) THEN locks[r].holder ELSE NoRow]

Deadlines == [r \in Resource |-> IF Held(r) THEN DeadlineOf(locks[r]) ELSE -1]

Service == INSTANCE LockService
               WITH owner <- Owner, deadline <- Deadlines, Nobody <- NoRow

ImplementsLockService == Service!Spec

-----------------------------------------------------------------------------
(* Claims of the repository that the code does not keep *)

(* "Re-acquiring your own already-held lock is idempotent" (lock.go:227):  *)
(* if there is a row when the refresh is written, and its terms change by  *)
(* it, that row is the caller's own.  (A row that is gone by then is no    *)
(* harm: its holder has released it in between.)                           *)
ReacquireTouchesOwnHold ==
    [][\A p \in Process :
          LET r == cmd[p].resource IN
          pc[p] = "reacquire" /\ result'[p] = "granted" /\ Held(r) /\ locks'[r] # locks[r] =>
             locks[r].holder = cmd[p].identity]_vars

(* "releasing someone else's requires -force, always logged" (README.md):  *)
(* a DELETE that removes somebody else's row leads to an event marked      *)
(* forced that names the holder who lost it.                               *)
ForcedReleaseIsLogged ==
    [][\A p \in Process :
          LET holder == locks[cmd[p].resource].holder IN
          pc[p] = "delete" /\ pc'[p] = "record" =>
             /\ EventOf(cmd'[p]).forced = (holder # cmd[p].identity)
             /\ EventOf(cmd'[p]).holder = holder]_vars
=============================================================================
