------------------------------ MODULE LockTable ------------------------------
(***************************************************************************)
(* The rows of the SQLite table `locks` (store.go) and the two places that *)
(* decide whether a lease has run out: the Go method Lock.Expired and the  *)
(* WHERE clauses of the reclaim and renew statements (lock.go).            *)
(*                                                                         *)
(* Times and leases are in milliseconds since the start of the run, the    *)
(* unit both sides compute in.  A row keeps what later statements branch   *)
(* on: note and acquired_at are written but never read by any decision.    *)
(***************************************************************************)
EXTENDS GoInt

CONSTANTS
    Resource,       \* names of shared resources
    Identity,       \* labels that may hold a lock
    KnownStrategy,  \* ids with a row in `strategies`, which are never deleted
    Unlinked,       \* the empty strategy id
    NoRow,          \* "no row for this resource"
    MaxLease        \* the longest lease any caller asks for

ASSUME LockTableAssumption ==
    /\ MaxLease \in Nat
    /\ Unlinked \notin KnownStrategy

StrategyLink == KnownStrategy \cup {Unlinked}

(* lease = 0 stands for NULL in lease_seconds and in renewed_at. *)
Row == [holder : Identity, strategy : StrategyLink,
        lease : 0..MaxLease, renewedAt : Nat]

ASSUME NoRowAssumption == NoRow \notin Row /\ NoRow \notin Identity

(* leaseColumns: without a lease both columns are NULL, whatever the time. *)
LeaseColumns(lease, t) ==
    IF lease <= 0 THEN [lease |-> 0, renewedAt |-> 0]
                  ELSE [lease |-> lease, renewedAt |-> t]

NewRow(identity, strategy, lease, t) ==
    LET columns == LeaseColumns(lease, t)
    IN  [holder |-> identity, strategy |-> strategy,
         lease |-> columns.lease, renewedAt |-> columns.renewedAt]

(* Lock.Expired: the Go side's answer, used before any write is tried.  The *)
(* product int64(LeaseSeconds) * 1000 wraps around.                        *)
Expired(row, t) ==
    /\ row.lease > 0
    /\ t - row.renewedAt >= Wrap(row.lease)

(* Mutant: the lease must be exceeded, not just reached. *)
LapsedInSQLStrict(row, t) ==
    /\ row.lease # 0
    /\ t - row.renewedAt > row.lease

(* The condition of reclaimExpiredLock's UPDATE.  Where Go's product wraps *)
(* SQLite's becomes a real number of that size, or larger.                 *)
LapsedInSQL(row, t) ==
    /\ row.lease # 0
    /\ t - row.renewedAt >= row.lease

(* The condition of RenewLock's UPDATE. *)
LiveInSQL(row, t) ==
    /\ row.lease # 0
    /\ t - row.renewedAt < row.lease
==============================================================================
