----------------------------- MODULE LockService -----------------------------
(***************************************************************************)
(* What a client of the lock may rely on, with no command, statement or    *)
(* log in sight: every resource has at most one owner, an owner keeps the  *)
(* resource until it is freed or until its deadline has really passed, and *)
(* no deadline lies further ahead than the longest lease.                  *)
(***************************************************************************)
EXTENDS Integers

CONSTANTS
    Resource, Identity,
    Nobody,     \* owner of a free resource, no identity
    MaxLease    \* the longest lease, a natural number

VARIABLES
    now,        \* the machine's clock
    owner,      \* owner[r]: the identity r belongs to, or Nobody
    deadline    \* deadline[r]: when r may be taken over, or Never

serviceVars == <<now, owner, deadline>>

Never == -1

(* A lease never reaches beyond the longest one counted from now. *)
Deadline == {Never} \cup 0..(now + MaxLease)

Init ==
    /\ now = 0
    /\ owner = [r \in Resource |-> Nobody]
    /\ deadline = [r \in Resource |-> Never]

Assign(r, i) ==
    /\ owner' = [owner EXCEPT ![r] = i]
    /\ deadline'[r] \in Deadline
    /\ deadline' = [deadline EXCEPT ![r] = deadline'[r]]
    /\ UNCHANGED now

(* A free resource is claimed. *)
Claim(r, i) ==
    /\ owner[r] = Nobody
    /\ Assign(r, i)

(* Another owner takes over, but only once the deadline has passed. *)
TakeOver(r, i) ==
    /\ owner[r] # Nobody
    /\ deadline[r] # Never
    /\ deadline[r] <= now
    /\ Assign(r, i)

(* The owner stays; the terms of its hold are stated anew. *)
Restate(r) ==
    /\ owner[r] # Nobody
    /\ Assign(r, owner[r])

Free(r) ==
    /\ owner[r] # Nobody
    /\ owner' = [owner EXCEPT ![r] = Nobody]
    /\ deadline' = [deadline EXCEPT ![r] = Never]
    /\ UNCHANGED now

Tick ==
    /\ now' = now + 1
    /\ UNCHANGED <<owner, deadline>>

Next ==
    \/ \E r \in Resource :
          \/ \E i \in Identity : Claim(r, i) \/ TakeOver(r, i)
          \/ Restate(r)
          \/ Free(r)
    \/ Tick

Spec == Init /\ [][Next]_serviceVars
==============================================================================
