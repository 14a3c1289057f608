---------------------------- MODULE Coordination ----------------------------
(***************************************************************************)
(* interest.go: who hears about what happens to a lock.  Extends the lock  *)
(* protocol with the tables interests and propagations, the statements of  *)
(* matchAndPropagate, and `interest create`, `pause` and `resume`.         *)
(*                                                                         *)
(* matchAndPropagate runs while its process is at pc = "propagate", after  *)
(* the event of the command is in lock_events: one statement selects the   *)
(* active interests, one selects the newest event of the resource, and one *)
(* per interest inserts its propagation.  Rows of both tables are never    *)
(* deleted; a sequence's index is the row's id.                            *)
(***************************************************************************)
EXTENDS LockProtocol

CONSTANTS
    Subscriber,     \* slots in which one `interest create` runs at a time
    MaxInterests    \* bound: interests ever created

ASSUME CoordinationAssumption == MaxInterests \in Nat

InterestStatus == {"active", "paused"}

Interest == [identity : Identity, resource : Resource, status : InterestStatus]

Propagation == [interest : Nat \ {0}, event : Nat \ {0}, identity : Identity]

(* The locals of matchAndPropagate: the interests still to be told, once   *)
(* they are selected, and the event to tell them of, once it is.           *)
Matching == [selected : BOOLEAN, todo : SUBSET Nat, event : Nat]

NotYet == [selected |-> FALSE, todo |-> {}, event |-> 0]

VARIABLES
    interests,      \* table interests
    propagations,   \* table propagations
    match,          \* locals of matchAndPropagate, by process
    creating,       \* locals of CreateInterest, by subscriber
    own,            \* history: index of the event that a process is
                    \* propagating, 0 when none
    since,          \* history: events logged when an interest last became
                    \* active, 0 while it is paused
    lost            \* history: events whose propagation was aborted

mail == <<interests, propagations, match, creating, own, since, lost>>
coordVars == <<vars, mail>>

CoordTypeOK ==
    /\ TypeOK
    /\ interests \in Seq(Interest)
    /\ propagations \in Seq(Propagation)
    /\ match \in [Process -> Matching]
    /\ creating \in [Subscriber -> [identity : Identity, resource : Resource]
                                       \cup {NoCommand}]
    /\ own \in [Process -> 0..Len(lockEvents)]
    /\ since \in [DOMAIN interests -> 0..Len(lockEvents)]
    /\ lost \subseteq DOMAIN lockEvents
    /\ \A n \in DOMAIN propagations :
          /\ propagations[n].interest \in DOMAIN interests
          /\ propagations[n].event \in DOMAIN lockEvents

CoordInit ==
    /\ Init
    /\ interests = <<>>
    /\ propagations = <<>>
    /\ match = [p \in Process |-> NotYet]
    /\ creating = [c \in Subscriber |-> NoCommand]
    /\ own = [p \in Process |-> 0]
    /\ since = <<>>
    /\ lost = {}

-----------------------------------------------------------------------------
(* matchAndPropagate *)

(* recordLockEvent, and the call of matchAndPropagate after it unless the  *)
(* event is an uncontested claim.                                          *)
Record(p) ==
    /\ RecordEvent(p)
    /\ own' = [own EXCEPT ![p] = IF Newsworthy(cmd[p].event)
                                 THEN Len(lockEvents') ELSE 0]
    /\ UNCHANGED <<interests, propagations, match, creating, since, lost>>

Listeners(r) ==
    {k \in DOMAIN interests : interests[k].resource = r /\ interests[k].status = "active"}

(* Mutant: the query has lost its DESC. *)
FirstOn(r) ==
    {e \in DOMAIN lockEvents :
        /\ lockEvents[e].resource = r
        /\ \A f \in DOMAIN lockEvents : lockEvents[f].resource = r => f >= e}

LastOn(r) ==
    {e \in DOMAIN lockEvents :
        /\ lockEvents[e].resource = r
        /\ \A f \in DOMAIN lockEvents : lockEvents[f].resource = r => f <= e}

Done(p) ==
    /\ Propagate(p)
    /\ match' = [match EXCEPT ![p] = NotYet]
    /\ own' = [own EXCEPT ![p] = 0]

SelectInterests(p) ==
    LET found == Listeners(cmd[p].resource) IN
    /\ pc[p] = "propagate"
    /\ ~match[p].selected
    /\ \/ found = {} /\ Done(p)
       \/ /\ found # {}
          /\ match' = [match EXCEPT ![p] = [selected |-> TRUE, todo |-> found, event |-> 0]]
          /\ UNCHANGED <<vars, own>>
    /\ UNCHANGED <<interests, propagations, creating, since, lost>>

(* The newest event of the resource by rowid, whoever logged it.           *)
SelectLatestEvent(p) ==
    /\ pc[p] = "propagate"
    /\ match[p].selected
    /\ match[p].event = 0
    /\ \E e \in LastOn(cmd[p].resource) :
          match' = [match EXCEPT ![p].event = e]
    /\ UNCHANGED <<vars, interests, propagations, creating, own, since, lost>>

(* Mutant: an interest with a propagation in its inbox is not told again. *)
InsertPropagationOnce(p, k) ==
    LET told == \E n \in DOMAIN propagations : propagations[n].interest = k IN
    /\ pc[p] = "propagate"
    /\ match[p].event # 0
    /\ k \in match[p].todo
    /\ propagations' = IF told THEN propagations ELSE Append(propagations,
            [interest |-> k, event |-> match[p].event, identity |-> interests[k].identity])
    /\ \/ match[p].todo = {k} /\ Done(p)
       \/ /\ match[p].todo # {k}
          /\ match' = [match EXCEPT ![p].todo = @ \ {k}]
          /\ UNCHANGED <<vars, own>>
    /\ UNCHANGED <<interests, creating, since, lost>>

(* The order of the selected interests is not specified by the query. *)
InsertPropagation(p, k) ==
    /\ pc[p] = "propagate"
    /\ match[p].event # 0
    /\ k \in match[p].todo
    /\ propagations' = Append(propagations,
            [interest |-> k, event |-> match[p].event, identity |-> interests[k].identity])
    /\ \/ match[p].todo = {k} /\ Done(p)
       \/ /\ match[p].todo # {k}
          /\ match' = [match EXCEPT ![p].todo = @ \ {k}]
          /\ UNCHANGED <<vars, own>>
    /\ UNCHANGED <<interests, creating, since, lost>>

(* The process dies or a statement fails: the rest is never told. *)
AbortMatch(p) ==
    /\ Abort(p)
    /\ lost' = lost \cup ({own[p]} \ {0})
    /\ match' = [match EXCEPT ![p] = NotYet]
    /\ own' = [own EXCEPT ![p] = 0]
    /\ UNCHANGED <<interests, propagations, creating, since>>

-----------------------------------------------------------------------------
(* interest create, pause, resume *)

ActiveInterestFor(i, r) == {k \in Listeners(r) : interests[k].identity = i}

(* A command that finds an active interest returns it and writes nothing.  *)
CreateInterest(c, i, r) ==
    /\ creating[c] = NoCommand
    /\ Len(interests) < MaxInterests
    /\ ActiveInterestFor(i, r) = {}
    /\ creating' = [creating EXCEPT ![c] = [identity |-> i, resource |-> r]]
    /\ UNCHANGED <<vars, interests, propagations, match, own, since, lost>>

InsertInterest(c) ==
    /\ creating[c] # NoCommand
    /\ interests' = Append(interests, [identity |-> creating[c].identity,
                                       resource |-> creating[c].resource,
                                       status   |-> "active"])
    /\ since' = Append(since, Len(lockEvents))
    /\ creating' = [creating EXCEPT ![c] = NoCommand]
    /\ UNCHANGED <<vars, propagations, match, own, lost>>

AbortCreate(c) ==
    /\ creating[c] # NoCommand
    /\ creating' = [creating EXCEPT ![c] = NoCommand]
    /\ UNCHANGED <<vars, interests, propagations, match, own, since, lost>>

(* Mutant: the subcommand's verb is stored for the status it stands for. *)
SetInterestStatusToVerb(k, status) ==
    /\ interests' = [interests EXCEPT ![k].status =
                        IF status = "active" THEN "resume" ELSE "pause"]
    /\ since' = [since EXCEPT ![k] = 0]
    /\ UNCHANGED <<vars, propagations, match, creating, own, lost>>

SetInterestStatus(k, status) ==
    /\ interests' = [interests EXCEPT ![k].status = status]
    /\ since' = [since EXCEPT ![k] =
                    IF status = "paused" THEN 0
                    ELSE IF interests[k].status = "active" THEN @
                    ELSE Len(lockEvents)]
    /\ UNCHANGED <<vars, propagations, match, creating, own, lost>>

-----------------------------------------------------------------------------
MatchStep(p) ==
    \/ SelectInterests(p)
    \/ SelectLatestEvent(p)
    \/ \E k \in match[p].todo : InsertPropagation(p, k)

CoordStep(p) ==
    \/ RowStep(p) /\ UNCHANGED mail
    \/ Record(p)
    \/ MatchStep(p)

CoordNext ==
    \/ Tick /\ UNCHANGED mail
    \/ \E p \in Process :
          \/ Start(p) /\ UNCHANGED mail
          \/ CoordStep(p)
          \/ AbortMatch(p)
    \/ \E c \in Subscriber :
          \/ \E i \in Identity, r \in Resource : CreateInterest(c, i, r)
          \/ InsertInterest(c)
          \/ AbortCreate(c)
    \/ \E k \in DOMAIN interests, s \in InterestStatus : SetInterestStatus(k, s)

CoordSpec == CoordInit /\ [][CoordNext]_coordVars

(* The operating system keeps running a started process.  Nothing promises *)
(* that anyone starts one, and the clock may stand still for all a command *)
(* cares.                                                                  *)
FairCoordSpec == CoordSpec /\ \A p \in Process : WF_coordVars(CoordStep(p))

-----------------------------------------------------------------------------
(* Properties *)

(* A propagation for k that is about e or about something newer on its     *)
(* resource.                                                               *)
Noticed(k, e) ==
    \E n \in DOMAIN propagations :
        /\ propagations[n].interest = k
        /\ propagations[n].event >= e
        /\ lockEvents[propagations[n].event].resource = interests[k].resource

BeingPropagated(k, e) ==
    \E p \in Process : own[p] = e /\ (match[p].selected => k \in match[p].todo)

(* k has been listening since before e happened to its resource, and e is  *)
(* the kind of event subscribers are told of.                              *)
Awaits(k, e) ==
    /\ k \in DOMAIN interests
    /\ e \in DOMAIN lockEvents
    /\ Newsworthy(lockEvents[e].kind)
    /\ interests[k].status = "active"
    /\ interests[k].resource = lockEvents[e].resource
    /\ since[k] < e

(* No subscriber misses news: an interest that was active when a denial, a *)
(* release or a takeover was logged has a propagation of that event or of  *)
(* a newer one, or the process that logged the event is still on its way   *)
(* to it, or died (interest.go:163-200).  The order of logging before      *)
(* matching, of selecting the interests before the event, and pauses and   *)
(* resumes in between all have a part in it.                               *)
NoNewsMissed ==
    \A k \in DOMAIN interests, e \in DOMAIN lockEvents :
        Awaits(k, e) => Noticed(k, e) \/ BeingPropagated(k, e) \/ e \in lost

(* "never after a plain acquire, so an uncontested claim stays quiet"      *)
(* (interest.go:165-166), counted: an interest never has more propagations *)
(* than there were newsworthy events on its resource, however the passes   *)
(* of several processes interleave.                                        *)
NoSpuriousNotice ==
    \A k \in DOMAIN interests :
        Cardinality({n \in DOMAIN propagations : propagations[n].interest = k})
          <= Cardinality({e \in DOMAIN lockEvents :
                             /\ lockEvents[e].resource = interests[k].resource
                             /\ Newsworthy(lockEvents[e].kind)})

(* News travels: what an active interest awaits is noticed in the end,     *)
(* unless the interest is paused or the process that carries it dies.      *)
NewsArrives ==
    \A k \in 1..MaxInterests, e \in 1..MaxCommands :
        Awaits(k, e) ~> (~Awaits(k, e) \/ Noticed(k, e) \/ e \in lost)

-----------------------------------------------------------------------------
(* Claims of the repository that the code does not keep *)

(* "acquired" is logged "but does not propagate" (lock.go:103-105).        *)
ClaimsAreQuiet ==
    \A n \in DOMAIN propagations : Newsworthy(lockEvents[propagations[n].event].kind)

(* "Same identity + same resource + still active is the same logical       *)
(* interest; return it rather than creating another" (interest.go:39-40).  *)
OneActiveInterest ==
    \A i \in Identity, r \in Resource : Cardinality(ActiveInterestFor(i, r)) <= 1
=============================================================================
