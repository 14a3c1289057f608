-------------------------- MODULE CoordinationProofs --------------------------
(***************************************************************************)
(* Theorems about Coordination, for any number of processes, subscribers,  *)
(* interests and events: it is the lock protocol as far as locks go, no    *)
(* subscriber misses news, and none is told more often than there was any. *)
(*                                                                         *)
(* That no news is missed is inductive only with what a pass of            *)
(* matchAndPropagate knows: which event it is about, that the event it     *)
(* selected is no older, and that it is telling interests in the right     *)
(* resource.                                                               *)
(*                                                                         *)
(* That nobody is told too often is inductive once what is still to come   *)
(* is counted in: the passes that have yet to tell an interest, and, for   *)
(* an interest that is still to be created, all passes on its resource.    *)
(***************************************************************************)
EXTENDS Coordination, LockAuditProofs

PassInv(p) ==
    /\ own[p] # 0 => /\ pc[p] = "propagate"
                     /\ lockEvents[own[p]].resource = cmd[p].resource
    /\ pc[p] # "propagate" => match[p] = NotYet
    /\ ~match[p].selected => match[p] = NotYet
    /\ match[p].event # 0 => /\ match[p].event \in DOMAIN lockEvents
                             /\ match[p].event >= own[p]
                             /\ lockEvents[match[p].event].resource = cmd[p].resource
    /\ \A k \in match[p].todo : /\ k \in DOMAIN interests
                                /\ interests[k].resource = cmd[p].resource

PassesInv == \A p \in Process : PassInv(p)

NewsInv == CoordTypeOK /\ LocalsInv /\ PassesInv /\ NoNewsMissed

-----------------------------------------------------------------------------
(* The composition is the lock protocol *)

LEMMA CoordStepIsStep == [CoordNext]_coordVars => [Next]_vars
  <1> SUFFICES ASSUME CoordNext PROVE Next \/ UNCHANGED vars
    BY DEF coordVars
  <1>1. ASSUME NEW p \in Process, CoordStep(p) PROVE Step(p) \/ UNCHANGED vars
    <2>1. CASE RowStep(p)
      BY <2>1 DEF Step
    <2>2. CASE Record(p)
      BY <2>2 DEF Record, Step
    <2>3. CASE MatchStep(p)
      BY <2>3 DEF MatchStep, SelectInterests, SelectLatestEvent, InsertPropagation, Done, Step
    <2> QED BY <1>1, <2>1, <2>2, <2>3 DEF CoordStep
  <1>2. ASSUME NEW p \in Process, AbortMatch(p) PROVE Abort(p)
    BY <1>2 DEF AbortMatch
  <1>3. ASSUME NEW c \in Subscriber,
               \/ \E i \in Identity, r \in Resource : CreateInterest(c, i, r)
               \/ InsertInterest(c) \/ AbortCreate(c)
        PROVE  UNCHANGED vars
    BY <1>3 DEF CreateInterest, InsertInterest, AbortCreate
  <1>4. ASSUME NEW k, NEW s, SetInterestStatus(k, s) PROVE UNCHANGED vars
    BY <1>4 DEF SetInterestStatus
  <1> QED BY <1>1, <1>2, <1>3, <1>4 DEF CoordNext, Next

(* Told or not, the holders of locks are treated as module LockProtocol    *)
(* says: what is proved of it holds while matchAndPropagate and the        *)
(* commands on interests run beside it (lock.go:386, 440; interest.go:163).*)
THEOREM CompositionIsTheProtocol == CoordSpec => Spec
  <1>1. CoordInit => Init
    BY DEF CoordInit
  <1> QED BY <1>1, CoordStepIsStep, PTL DEF CoordSpec, Spec

-----------------------------------------------------------------------------
(* What a step does to the log *)

LEMMA OnlyRecordLogs ==
    ASSUME NEW p, Start(p) \/ RowStep(p) \/ Propagate(p) \/ Abort(p)
    PROVE  lockEvents' = lockEvents
  <1>1. CASE Start(p)
    BY <1>1 DEF Start, StartAcquire, RejectAcquire, StartRenew, StartRelease, Begin, tables
  <1>2. CASE RowStep(p)
    BY <1>2 DEF RowStep, Insert, ReadHolder, Reacquire, Reclaim, RenewRead, RenewCheck,
                RenewWrite, ReleaseRead, Delete, WriteRow, TouchNothing, tables
  <1>3. CASE Propagate(p) \/ Abort(p)
    BY <1>3 DEF Propagate, Abort, TouchNothing, tables
  <1> QED BY <1>1, <1>2, <1>3

(* No statement on the table locks is part of a pass. *)
LEMMA NoPassHere ==
    ASSUME TypeOK, NEW p \in Process, Start(p) \/ RowStep(p)
    PROVE  pc[p] # "propagate" /\ pc'[p] # "propagate"
  <1>1. CASE Start(p)
    <2>1. ASSUME NEW l, NEW c, l # "propagate", Begin(p, l, c)
          PROVE  pc[p] # "propagate" /\ pc'[p] # "propagate"
      BY <2>1 DEF TypeOK, Begin
    <2>2. ASSUME NEW s, NEW l, RejectAcquire(p, s, l)
          PROVE  pc[p] # "propagate" /\ pc'[p] # "propagate"
      BY <2>2 DEF RejectAcquire
    <2> QED BY <1>1, <2>1, <2>2 DEF Start, StartAcquire, StartRenew, StartRelease
  <1>2. CASE Insert(p) \/ Reacquire(p)
    BY <1>2, SlotChanges DEF Insert, Reacquire
  <1>3. CASE ReadHolder(p)
    BY <1>3, SlotChanges DEF ReadHolder
  <1>4. CASE Reclaim(p)
    BY <1>4, SlotChanges DEF Reclaim
  <1>5. CASE RenewRead(p) \/ RenewCheck(p) \/ RenewWrite(p)
    BY <1>5, SlotChanges DEF RenewRead, RenewCheck, RenewWrite
  <1>6. CASE ReleaseRead(p) \/ Delete(p)
    BY <1>6, SlotChanges DEF ReleaseRead, Delete
  <1> QED BY <1>1, <1>2, <1>3, <1>4, <1>5, <1>6 DEF RowStep

(* The log as a step leaves it: longer by the event of p, or as it was.    *)
LEMMA RecordAppends ==
    ASSUME TypeOK, LocalsInv, NEW p \in Process, RecordEvent(p)
    PROVE  /\ EventOf(cmd[p]) \in LockEvent
           /\ lockEvents' = Append(lockEvents, EventOf(cmd[p]))
           /\ Len(lockEvents') = Len(lockEvents) + 1
           /\ DOMAIN lockEvents' = DOMAIN lockEvents \cup {Len(lockEvents')}
           /\ \A e \in DOMAIN lockEvents : lockEvents'[e] = lockEvents[e]
           /\ lockEvents'[Len(lockEvents')] = EventOf(cmd[p])
  <1>1. pc[p] = "record" /\ lockEvents' = Append(lockEvents, EventOf(cmd[p]))
    BY DEF RecordEvent
  <1>2. EventOf(cmd[p]) \in LockEvent
    BY <1>1, TypeParts, RunningCommand, EventType DEF LocalsInv
  <1>3. lockEvents \in Seq(LockEvent) /\ Len(lockEvents') = Len(lockEvents) + 1
    BY <1>1, <1>2 DEF TypeOK
  <1> QED BY <1>1, <1>2, <1>3, AppendKeeps

-----------------------------------------------------------------------------
(* Types *)

MailOK ==
    /\ interests \in Seq(Interest)
    /\ propagations \in Seq(Propagation)
    /\ match \in [Process -> Matching]
    /\ creating \in [Subscriber -> [identity : Identity, resource : Resource]
                                       \cup {NoCommand}]
    /\ own \in [Process -> 0..Len(lockEvents)]
    /\ since \in [DOMAIN interests -> 0..Len(lockEvents)]
    /\ lost \subseteq DOMAIN lockEvents
    /\ \A n \in DOMAIN propagations :
          /\ propagations[n].interest \in DOMAIN interests
          /\ propagations[n].event \in DOMAIN lockEvents

LEMMA CoordTypeParts ==
    /\ CoordTypeOK <=> TypeOK /\ MailOK
    /\ CoordTypeOK' <=> TypeOK' /\ MailOK'
  BY DEF CoordTypeOK, MailOK

LEMMA PassTypes ==
    ASSUME CoordTypeOK, NEW p \in Process
    PROVE  /\ NotYet \in Matching
           /\ match[p] \in Matching
           /\ own[p] \in Nat /\ Len(lockEvents) \in Nat
           /\ own[p] # 0 => own[p] \in DOMAIN lockEvents
           /\ DOMAIN lockEvents = 1..Len(lockEvents)
           /\ DOMAIN interests = 1..Len(interests) /\ Len(interests) \in Nat
  <1>1. lockEvents \in Seq(LockEvent) /\ interests \in Seq(Interest)
    BY DEF CoordTypeOK, TypeOK
  <1>2. match[p] \in Matching /\ own[p] \in 0..Len(lockEvents)
    BY DEF CoordTypeOK
  <1>3. NotYet \in Matching
    BY DEF NotYet, Matching
  <1> QED BY <1>1, <1>2, <1>3

(* The log may grow under what refers to it. *)
LEMMA LogGrowsUnderMail ==
    ASSUME CoordTypeOK, TypeOK', UNCHANGED mail \/ UNCHANGED <<interests, propagations, creating, since>>,
           match' \in [Process -> Matching], own' \in [Process -> 0..Len(lockEvents')],
           lost' \subseteq DOMAIN lockEvents', Len(lockEvents) <= Len(lockEvents')
    PROVE  MailOK'
  <1>1. interests' = interests /\ propagations' = propagations
        /\ creating' = creating /\ since' = since
    BY DEF mail
  <1>2. /\ Len(lockEvents) \in Nat /\ Len(lockEvents') \in Nat
        /\ DOMAIN lockEvents = 1..Len(lockEvents) /\ DOMAIN lockEvents' = 1..Len(lockEvents')
    BY DEF CoordTypeOK, TypeOK
  <1>3. DOMAIN lockEvents \subseteq DOMAIN lockEvents'
        /\ 0..Len(lockEvents) \subseteq 0..Len(lockEvents')
    BY <1>2
  <1>4. since' \in [DOMAIN interests' -> 0..Len(lockEvents')]
    BY <1>1, <1>3 DEF CoordTypeOK
  <1>5. \A n \in DOMAIN propagations' :
            /\ propagations'[n].interest \in DOMAIN interests'
            /\ propagations'[n].event \in DOMAIN lockEvents'
    BY <1>1, <1>3 DEF CoordTypeOK
  <1>6. /\ interests' \in Seq(Interest) /\ propagations' \in Seq(Propagation)
        /\ creating' \in [Subscriber -> [identity : Identity, resource : Resource] \cup {NoCommand}]
    BY <1>1 DEF CoordTypeOK
  <1> QED BY <1>4, <1>5, <1>6 DEF MailOK

LEMMA RecordKeepsTypes ==
    ASSUME CoordTypeOK, LocalsInv, TypeOK', NEW p \in Process, Record(p)
    PROVE  MailOK'
  <1>1. RecordEvent(p) /\ UNCHANGED <<interests, propagations, match, creating, since, lost>>
    BY DEF Record
  <1>2. /\ Len(lockEvents') = Len(lockEvents) + 1 /\ Len(lockEvents) \in Nat
        /\ DOMAIN lockEvents' = DOMAIN lockEvents \cup {Len(lockEvents')}
    BY <1>1, RecordAppends, CoordTypeParts, PassTypes
  <1>3. own' \in [Process -> 0..Len(lockEvents')]
    <2> DEFINE n == IF Newsworthy(cmd[p].event) THEN Len(lockEvents') ELSE 0
    <2>1. own' = [own EXCEPT ![p] = n]
      BY DEF Record
    <2>2. n \in 0..Len(lockEvents')
      BY <1>2
    <2>3. \A q \in Process : own[q] \in 0..Len(lockEvents')
      BY <1>2, PassTypes DEF CoordTypeOK
    <2> HIDE DEF n
    <2> QED BY <2>1, <2>2, <2>3 DEF CoordTypeOK
  <1>4. lost' \subseteq DOMAIN lockEvents'
    BY <1>1, <1>2 DEF CoordTypeOK
  <1>5. match' \in [Process -> Matching]
    BY <1>1 DEF CoordTypeOK
  <1> QED BY <1>1, <1>2, <1>3, <1>4, <1>5, LogGrowsUnderMail

LEMMA DoneKeepsTypes ==
    ASSUME CoordTypeOK, NEW p \in Process, Done(p)
    PROVE  /\ match' \in [Process -> Matching] /\ own' \in [Process -> 0..Len(lockEvents')]
           /\ lockEvents' = lockEvents
  <1>1. lockEvents' = lockEvents
    BY OnlyRecordLogs DEF Done
  <1>2. 0 \in 0..Len(lockEvents)
    BY PassTypes
  <1> QED BY <1>1, <1>2, PassTypes DEF Done, CoordTypeOK

LEMMA MatchKeepsTypes ==
    ASSUME CoordTypeOK, TypeOK', PassesInv, NEW p \in Process, MatchStep(p)
    PROVE  MailOK'
  <1>1. Len(lockEvents) <= Len(lockEvents)
    BY PassTypes
  <1>2. \A k \in DOMAIN interests : k \in Nat \ {0} /\ interests[k].identity \in Identity
    <2>1. ASSUME NEW k \in DOMAIN interests PROVE interests[k] \in Interest
      BY DEF CoordTypeOK
    <2> QED BY <2>1, PassTypes DEF Interest
  <1>3. CASE SelectInterests(p)
    <2>1. UNCHANGED <<interests, propagations, creating, since, lost>>
      BY <1>3 DEF SelectInterests
    <2>2. CASE Done(p)
      BY <1>1, <2>1, <2>2, DoneKeepsTypes, LogGrowsUnderMail DEF CoordTypeOK
    <2>3. CASE /\ match' = [match EXCEPT ![p] =
                     [selected |-> TRUE, todo |-> Listeners(cmd[p].resource), event |-> 0]]
               /\ UNCHANGED <<vars, own>>
      <3>1. Listeners(cmd[p].resource) \in SUBSET Nat
        BY <1>2 DEF Listeners
      <3>2. match' \in [Process -> Matching]
        BY <2>3, <3>1 DEF CoordTypeOK, Matching
      <3>3. lockEvents' = lockEvents /\ own' = own
        BY <2>3 DEF vars
      <3> QED BY <1>1, <2>1, <3>2, <3>3, LogGrowsUnderMail DEF CoordTypeOK
    <2> QED BY <1>3, <2>2, <2>3 DEF SelectInterests
  <1>4. CASE SelectLatestEvent(p)
    <2>1. PICK e \in LastOn(cmd[p].resource) : match' = [match EXCEPT ![p].event = e]
      BY <1>4 DEF SelectLatestEvent
    <2>2. [match[p] EXCEPT !.event = e] \in Matching
      <3>1. e \in Nat
        BY <2>1, PassTypes DEF LastOn
      <3> QED BY <3>1, PassTypes DEF Matching
    <2>3. match' \in [Process -> Matching]
      BY <2>1, <2>2 DEF CoordTypeOK
    <2>4. lockEvents' = lockEvents /\ own' = own /\ lost' = lost
          /\ UNCHANGED <<interests, propagations, creating, since>>
      BY <1>4 DEF SelectLatestEvent, vars
    <2> QED BY <1>1, <2>3, <2>4, LogGrowsUnderMail DEF CoordTypeOK
  <1>5. ASSUME NEW k \in match[p].todo, InsertPropagation(p, k) PROVE MailOK'
    <2> DEFINE n == [interest |-> k, event |-> match[p].event, identity |-> interests[k].identity]
    <2>1. k \in DOMAIN interests /\ match[p].event \in DOMAIN lockEvents
      BY <1>5 DEF PassesInv, PassInv, InsertPropagation
    <2>2. n \in Propagation
      BY <1>2, <2>1, PassTypes DEF Propagation
    <2>3. propagations' = Append(propagations, n) /\ UNCHANGED <<interests, creating, since, lost>>
      BY <1>5 DEF InsertPropagation
    <2>4. /\ propagations' \in Seq(Propagation)
          /\ DOMAIN propagations' = DOMAIN propagations \cup {Len(propagations) + 1}
          /\ propagations'[Len(propagations) + 1] = n
          /\ \A m \in DOMAIN propagations : propagations'[m] = propagations[m]
      <3> HIDE DEF n
      <3>1. propagations \in Seq(Propagation)
        BY DEF CoordTypeOK
      <3> QED BY <2>2, <2>3, <3>1, AppendKeeps
    <2>5. match' \in [Process -> Matching] /\ own' \in [Process -> 0..Len(lockEvents')]
          /\ lockEvents' = lockEvents
      <3>1. CASE Done(p)
        BY <3>1, DoneKeepsTypes
      <3>2. CASE match' = [match EXCEPT ![p].todo = @ \ {k}] /\ UNCHANGED <<vars, own>>
        <4>1. [match[p] EXCEPT !.todo = @ \ {k}] \in Matching
          BY PassTypes DEF Matching
        <4>2. match' = [match EXCEPT ![p] = [match[p] EXCEPT !.todo = @ \ {k}]]
          BY <3>2 DEF CoordTypeOK
        <4>3. match' \in [Process -> Matching]
          BY <4>1, <4>2 DEF CoordTypeOK
        <4> QED BY <3>2, <4>3 DEF vars, CoordTypeOK
      <3> QED BY <1>5, <3>1, <3>2 DEF InsertPropagation
    <2>6. \A m \in DOMAIN propagations' :
              /\ propagations'[m].interest \in DOMAIN interests'
              /\ propagations'[m].event \in DOMAIN lockEvents'
      BY <2>1, <2>3, <2>4, <2>5 DEF CoordTypeOK
    <2> QED BY <2>3, <2>4, <2>5, <2>6 DEF MailOK, CoordTypeOK
  <1> QED BY <1>3, <1>4, <1>5 DEF MatchStep

LEMMA AbortMatchKeepsTypes ==
    ASSUME CoordTypeOK, TypeOK', NEW p \in Process, AbortMatch(p)
    PROVE  MailOK'
  <1>1. lockEvents' = lockEvents /\ UNCHANGED <<interests, propagations, creating, since>>
    BY OnlyRecordLogs DEF AbortMatch
  <1>2. match' \in [Process -> Matching]
    BY PassTypes DEF AbortMatch, CoordTypeOK
  <1>3. own' \in [Process -> 0..Len(lockEvents)]
    <2>1. 0 \in 0..Len(lockEvents)
      BY PassTypes
    <2> QED BY <2>1 DEF AbortMatch, CoordTypeOK
  <1>4. lost' \subseteq DOMAIN lockEvents
    BY PassTypes DEF AbortMatch, CoordTypeOK
  <1>5. Len(lockEvents) <= Len(lockEvents)
    BY PassTypes
  <1> QED BY <1>1, <1>2, <1>3, <1>4, <1>5, LogGrowsUnderMail

(* Interests are added at the end and keep all but their status. *)
InterestsKept ==
    \A k \in DOMAIN interests : /\ k \in DOMAIN interests'
                                /\ interests'[k].resource = interests[k].resource

LEMMA InterestsGrow ==
    ASSUME CoordTypeOK, NEW c \in Subscriber, InsertInterest(c)
    PROVE  /\ interests' \in Seq(Interest)
           /\ DOMAIN interests' = DOMAIN interests \cup {Len(interests) + 1}
           /\ Len(interests) + 1 \notin DOMAIN interests
           /\ \A k \in DOMAIN interests : interests'[k] = interests[k] /\ since'[k] = since[k]
           /\ since' \in [DOMAIN interests' -> 0..Len(lockEvents)]
           /\ since'[Len(interests) + 1] = Len(lockEvents)
           /\ lockEvents' = lockEvents
  <1> DEFINE x == [identity |-> creating[c].identity, resource |-> creating[c].resource,
                   status |-> "active"]
  <1>1. x \in Interest
    BY DEF InsertInterest, CoordTypeOK, Interest, InterestStatus
  <1>2. interests' = Append(interests, x) /\ since' = Append(since, Len(lockEvents))
        /\ lockEvents' = lockEvents
    BY DEF InsertInterest, vars
  <1>3. interests \in Seq(Interest) /\ DOMAIN since = DOMAIN interests
        /\ since \in [DOMAIN interests -> 0..Len(lockEvents)] /\ Len(lockEvents) \in Nat
    BY DEF CoordTypeOK, TypeOK
  <1> HIDE DEF x
  <1>4. /\ interests' \in Seq(Interest)
        /\ DOMAIN interests' = DOMAIN interests \cup {Len(interests) + 1}
        /\ Len(interests) + 1 \notin DOMAIN interests
        /\ \A k \in DOMAIN interests : interests'[k] = interests[k]
    BY <1>1, <1>2, <1>3, AppendKeeps, PositionsFinite
  <1>5. since \in Seq(0..Len(lockEvents)) /\ Len(since) = Len(interests)
    <2>1. DOMAIN since = 1..Len(interests) /\ Len(interests) \in Nat
      BY <1>3
    <2>2. since \in [1..Len(interests) -> 0..Len(lockEvents)]
      BY <1>3, <2>1
    <2>3. since \in Seq(0..Len(lockEvents))
      BY <2>1, <2>2
    <2> QED BY <2>1, <2>3
  <1>6. Len(lockEvents) \in 0..Len(lockEvents)
    BY <1>3
  <1>7. /\ Append(since, Len(lockEvents)) \in Seq(0..Len(lockEvents))
        /\ DOMAIN Append(since, Len(lockEvents)) = DOMAIN since \cup {Len(since) + 1}
        /\ Append(since, Len(lockEvents))[Len(since) + 1] = Len(lockEvents)
        /\ \A i \in DOMAIN since : Append(since, Len(lockEvents))[i] = since[i]
    BY <1>5, <1>6, AppendKeeps
  <1>8. since' \in [DOMAIN interests' -> 0..Len(lockEvents)]
    <2> DEFINE new == Append(since, Len(lockEvents))
    <2>1. DOMAIN new = DOMAIN interests'
      BY <1>3, <1>4, <1>5, <1>7
    <2>2. ASSUME NEW X, NEW s \in Seq(X) PROVE s \in [DOMAIN s -> X]
      OBVIOUS
    <2> HIDE DEF new
    <2>3. new \in [DOMAIN interests' -> 0..Len(lockEvents)]
      BY <1>7, <2>1, <2>2 DEF new
    <2> QED BY <1>2, <2>3 DEF new
  <1> QED BY <1>2, <1>3, <1>4, <1>5, <1>7, <1>8

LEMMA InterestsKeepTypes ==
    ASSUME CoordTypeOK, TypeOK',
           \/ \E c \in Subscriber : \/ \E i \in Identity, r \in Resource : CreateInterest(c, i, r)
                                    \/ InsertInterest(c)
                                    \/ AbortCreate(c)
           \/ \E k \in DOMAIN interests, s \in InterestStatus : SetInterestStatus(k, s)
    PROVE  MailOK' /\ InterestsKept
  <1>1. ASSUME NEW c \in Subscriber, NEW i \in Identity, NEW r \in Resource, CreateInterest(c, i, r)
        PROVE  MailOK' /\ InterestsKept
    <2>1. creating' \in [Subscriber -> [identity : Identity, resource : Resource] \cup {NoCommand}]
      BY <1>1 DEF CreateInterest, CoordTypeOK
    <2> QED BY <1>1, <2>1 DEF CreateInterest, CoordTypeOK, MailOK, InterestsKept, vars
  <1>2. ASSUME NEW c \in Subscriber, AbortCreate(c) PROVE MailOK' /\ InterestsKept
    <2>1. creating' \in [Subscriber -> [identity : Identity, resource : Resource] \cup {NoCommand}]
      BY <1>2 DEF AbortCreate, CoordTypeOK
    <2> QED BY <1>2, <2>1 DEF AbortCreate, CoordTypeOK, MailOK, InterestsKept, vars
  <1>3. ASSUME NEW c \in Subscriber, InsertInterest(c) PROVE MailOK' /\ InterestsKept
    <2>1. creating' \in [Subscriber -> [identity : Identity, resource : Resource] \cup {NoCommand}]
      BY <1>3 DEF InsertInterest, CoordTypeOK
    <2>2. UNCHANGED <<propagations, match, own, lost>>
      BY <1>3 DEF InsertInterest
    <2>3. \A n \in DOMAIN propagations' : /\ propagations'[n].interest \in DOMAIN interests'
                                          /\ propagations'[n].event \in DOMAIN lockEvents'
      BY <1>3, <2>2, InterestsGrow DEF CoordTypeOK
    <2> QED BY <1>3, <2>1, <2>2, <2>3, InterestsGrow DEF CoordTypeOK, MailOK, InterestsKept
  <1>4. ASSUME NEW k \in DOMAIN interests, NEW s \in InterestStatus, SetInterestStatus(k, s)
        PROVE  MailOK' /\ InterestsKept
    <2>1. lockEvents' = lockEvents /\ UNCHANGED <<propagations, match, creating, own, lost>>
      BY <1>4 DEF SetInterestStatus, vars
    <2>2. /\ interests' \in Seq(Interest) /\ DOMAIN interests' = DOMAIN interests
          /\ \A m \in DOMAIN interests : interests'[m].resource = interests[m].resource
      <3>1. interests' = [interests EXCEPT ![k] = [interests[k] EXCEPT !.status = s]]
        BY <1>4 DEF SetInterestStatus
      <3>2. interests[k] \in Interest /\ interests \in Seq(Interest)
        BY DEF CoordTypeOK
      <3>3. [interests[k] EXCEPT !.status = s] \in Interest
            /\ [interests[k] EXCEPT !.status = s].resource = interests[k].resource
        BY <3>2 DEF Interest
      <3> QED BY <3>1, <3>2, <3>3
    <2>3. since' \in [DOMAIN interests' -> 0..Len(lockEvents)]
      <3> DEFINE t == IF s = "paused" THEN 0
                      ELSE IF interests[k].status = "active" THEN since[k]
                      ELSE Len(lockEvents)
      <3>1. since' = [since EXCEPT ![k] = t]
        BY <1>4 DEF SetInterestStatus, CoordTypeOK
      <3>2. since[k] \in 0..Len(lockEvents) /\ Len(lockEvents) \in Nat
        BY DEF CoordTypeOK, TypeOK
      <3>3. t \in 0..Len(lockEvents)
        BY <3>2
      <3> HIDE DEF t
      <3> QED BY <2>2, <3>1, <3>3 DEF CoordTypeOK
    <2>4. \A n \in DOMAIN propagations' : /\ propagations'[n].interest \in DOMAIN interests'
                                          /\ propagations'[n].event \in DOMAIN lockEvents'
      BY <2>1, <2>2 DEF CoordTypeOK
    <2> QED BY <2>1, <2>2, <2>3, <2>4 DEF CoordTypeOK, MailOK, InterestsKept
  <1> QED BY <1>1, <1>2, <1>3, <1>4

-----------------------------------------------------------------------------
(* What a pass knows *)

LogKept == \A e \in DOMAIN lockEvents :
              e \in DOMAIN lockEvents' /\ lockEvents'[e] = lockEvents[e]

PassKept(q) == /\ pc'[q] = pc[q] /\ cmd'[q] = cmd[q]
               /\ match'[q] = match[q] /\ own'[q] = own[q]

LEMMA PassStays ==
    ASSUME CoordTypeOK, NEW q \in Process, PassInv(q), PassKept(q), LogKept, InterestsKept
    PROVE  PassInv(q)'
  <1>1. /\ own'[q] # 0 => /\ pc'[q] = "propagate"
                          /\ lockEvents'[own'[q]].resource = cmd'[q].resource
        /\ match'[q].event # 0 =>
              /\ match'[q].event \in DOMAIN lockEvents'
              /\ lockEvents'[match'[q].event].resource = cmd'[q].resource
    BY PassTypes DEF PassInv, PassKept, LogKept
  <1>2. \A k \in match'[q].todo : /\ k \in DOMAIN interests'
                                  /\ interests'[k].resource = cmd'[q].resource
    BY DEF PassInv, PassKept, InterestsKept
  <1>3. /\ pc'[q] # "propagate" => match'[q] = NotYet
        /\ ~match'[q].selected => match'[q] = NotYet
        /\ match'[q].event # 0 => match'[q].event >= own'[q]
    BY DEF PassInv, PassKept
  <1> QED BY <1>1, <1>2, <1>3 DEF PassInv

LEMMA NoPass ==
    ASSUME NEW p, pc'[p] # "propagate", own'[p] = 0, match'[p] = NotYet
    PROVE  PassInv(p)'
  BY DEF PassInv, NotYet

(* What p has to do for a pass of its own, the others left alone. *)
LEMMA PassesMove ==
    ASSUME CoordTypeOK, PassesInv, NEW p \in Process, LogKept, InterestsKept,
           \A q \in Process : q # p => PassKept(q), PassInv(p)'
    PROVE  PassesInv'
  BY PassStays DEF PassesInv

(* A step that changes the slot of p, and the locals of its pass. *)
LEMMA PassFrame ==
    ASSUME CoordTypeOK, NEW p \in Process, OthersKept(p),
           \/ match' = match
           \/ \E m : match' = [match EXCEPT ![p] = m],
           \/ own' = own
           \/ \E o : own' = [own EXCEPT ![p] = o]
    PROVE  \A q \in Process : q # p => PassKept(q)
  BY DEF CoordTypeOK, OthersKept, PassKept

LEMMA SlotsKept ==
    ASSUME CoordTypeOK, NEW p \in Process, Start(p) \/ Step(p) \/ Abort(p)
    PROVE  OthersKept(p)
  BY CoordTypeParts, OtherSlots DEF OthersKept, KeepsSlot

LEMMA DonePass ==
    ASSUME CoordTypeOK, NEW p \in Process, Done(p)
    PROVE  /\ PassInv(p)' /\ own'[p] = 0 /\ lockEvents' = lockEvents
           /\ \A q \in Process : q # p => PassKept(q)
  <1>1. Propagate(p) /\ OthersKept(p)
    BY SlotsKept DEF Done, Step
  <1>2. pc'[p] = "idle"
    BY <1>1, SlotChanges, CoordTypeParts DEF Propagate
  <1>3. match'[p] = NotYet /\ own'[p] = 0
    BY DEF Done, CoordTypeOK
  <1>4. \A q \in Process : q # p => PassKept(q)
    BY <1>1, PassFrame DEF Done
  <1>5. lockEvents' = lockEvents
    BY <1>1, OnlyRecordLogs
  <1> QED BY <1>2, <1>3, <1>4, <1>5, NoPass

LEMMA RecordPass ==
    ASSUME CoordTypeOK, LocalsInv, PassesInv, NEW p \in Process, Record(p)
    PROVE  /\ PassesInv' /\ match'[p] = NotYet /\ own[p] = 0
           /\ own'[p] = IF Newsworthy(cmd[p].event) THEN Len(lockEvents') ELSE 0
           /\ \A q \in Process : q # p => PassKept(q)
  <1>1. RecordEvent(p) /\ UNCHANGED <<interests, propagations, match, creating, since, lost>>
        /\ pc[p] = "record"
    BY DEF Record, RecordEvent
  <1>2. match[p] = NotYet /\ own[p] = 0 /\ match' = match /\ interests' = interests
    BY <1>1 DEF PassesInv, PassInv
  <1>3. own'[p] = IF Newsworthy(cmd[p].event) THEN Len(lockEvents') ELSE 0
    BY DEF Record, CoordTypeOK
  <1>4. /\ Len(lockEvents') \in DOMAIN lockEvents' /\ LogKept
        /\ lockEvents'[Len(lockEvents')].resource = cmd[p].resource
    <2>1. EventOf(cmd[p]).resource = cmd[p].resource
      BY DEF EventOf
    <2> QED BY <1>1, <2>1, RecordAppends, CoordTypeParts DEF LogKept
  <1>5. OthersKept(p)
    BY <1>1, SlotsKept DEF Step
  <1>6. \A q \in Process : q # p => PassKept(q)
    BY <1>2, <1>5, PassFrame DEF Record
  <1>7. PassInv(p)'
    <2>1. CASE Newsworthy(cmd[p].event)
      <3>1. pc'[p] = "propagate" /\ cmd'[p] = cmd[p]
        BY <1>1, <2>1, SlotChanges, CoordTypeParts DEF RecordEvent
      <3> QED BY <1>2, <1>3, <1>4, <2>1, <3>1 DEF PassInv, NotYet
    <2>2. CASE ~Newsworthy(cmd[p].event)
      <3>1. pc'[p] = "idle"
        BY <1>1, <2>2, SlotChanges, CoordTypeParts DEF RecordEvent
      <3> QED BY <1>2, <1>3, <2>2, <3>1, NoPass
    <2> QED BY <2>1, <2>2
  <1>8. InterestsKept
    BY <1>2 DEF InterestsKept
  <1> QED BY <1>2, <1>3, <1>4, <1>6, <1>7, <1>8, PassesMove

(* The event a pass selects is no older than its own. *)
LEMMA LatestIsNoOlder ==
    ASSUME CoordTypeOK, PassesInv, NEW p \in Process, NEW e \in LastOn(cmd[p].resource)
    PROVE  /\ e \in DOMAIN lockEvents /\ e \in Nat \ {0} /\ e >= own[p]
           /\ lockEvents[e].resource = cmd[p].resource
  <1>1. /\ e \in DOMAIN lockEvents /\ lockEvents[e].resource = cmd[p].resource
        /\ \A f \in DOMAIN lockEvents : lockEvents[f].resource = cmd[p].resource => f <= e
    BY DEF LastOn
  <1>2. own[p] # 0 => own[p] \in DOMAIN lockEvents /\ lockEvents[own[p]].resource = cmd[p].resource
    BY PassTypes DEF PassesInv, PassInv
  <1>3. e \in Nat \ {0} /\ own[p] \in Nat
    BY <1>1, PassTypes
  <1> QED BY <1>1, <1>2, <1>3

LEMMA MatchPass ==
    ASSUME CoordTypeOK, PassesInv, NEW p \in Process, MatchStep(p)
    PROVE  /\ PassesInv' /\ lockEvents' = lockEvents
           /\ \A q \in Process : q # p => PassKept(q)
  <1>1. interests' = interests
    BY DEF MatchStep, SelectInterests, SelectLatestEvent, InsertPropagation
  <1>2. InterestsKept
    BY <1>1 DEF InterestsKept
  <1>3. CASE Done(p)
    <2>1. LogKept
      BY <1>3, DonePass DEF LogKept
    <2> QED BY <1>2, <1>3, <2>1, DonePass, PassesMove
  <1>4. ASSUME NEW m, match' = [match EXCEPT ![p] = m], UNCHANGED <<vars, own>>
        PROVE  /\ LogKept /\ OthersKept(p) /\ lockEvents' = lockEvents
               /\ match'[p] = m /\ pc' = pc /\ cmd' = cmd /\ own' = own
               /\ \A q \in Process : q # p => PassKept(q)
    <2>1. LogKept /\ OthersKept(p) /\ lockEvents' = lockEvents
          /\ pc' = pc /\ cmd' = cmd /\ own' = own
      BY <1>4 DEF LogKept, OthersKept, vars
    <2>2. match'[p] = m
      BY <1>4 DEF CoordTypeOK
    <2> QED BY <1>4, <2>1, <2>2, PassFrame
  <1>5. CASE SelectInterests(p) /\ ~Done(p)
    <2> DEFINE m == [selected |-> TRUE, todo |-> Listeners(cmd[p].resource), event |-> 0]
    <2>1. match' = [match EXCEPT ![p] = m] /\ UNCHANGED <<vars, own>>
      BY <1>5 DEF SelectInterests
    <2>2. \A k \in m.todo : k \in DOMAIN interests /\ interests[k].resource = cmd[p].resource
      BY DEF Listeners
    <2>3. pc[p] = "propagate"
      BY <1>5 DEF SelectInterests
    <2>4. PassInv(p)'
      BY <1>1, <1>4, <2>1, <2>2, <2>3 DEF PassesInv, PassInv
    <2> HIDE DEF m
    <2> QED BY <1>2, <1>4, <2>1, <2>4, PassesMove
  <1>6. CASE SelectLatestEvent(p)
    <2>1. PICK e \in LastOn(cmd[p].resource) : match' = [match EXCEPT ![p].event = e]
      BY <1>6 DEF SelectLatestEvent
    <2> DEFINE m == [match[p] EXCEPT !.event = e]
    <2>2. match' = [match EXCEPT ![p] = m]
      BY <2>1 DEF CoordTypeOK
    <2>3. pc[p] = "propagate" /\ match[p].selected /\ UNCHANGED <<vars, own>>
      BY <1>6 DEF SelectLatestEvent
    <2>4. m.event = e /\ m.selected = match[p].selected /\ m.todo = match[p].todo
      BY PassTypes DEF Matching
    <2> HIDE DEF m
    <2>a. /\ match'[p] = m /\ pc'[p] = pc[p] /\ cmd'[p] = cmd[p] /\ own'[p] = own[p]
          /\ lockEvents' = lockEvents
      BY <1>4, <2>2, <2>3
    <2>b. PassInv(p)
      BY DEF PassesInv
    <2>c. /\ e \in DOMAIN lockEvents /\ e >= own[p]
          /\ lockEvents[e].resource = cmd[p].resource
      BY <2>1, LatestIsNoOlder
    <2>5. PassInv(p)'
      BY <1>1, <2>3, <2>4, <2>a, <2>b, <2>c DEF PassInv
    <2> QED BY <1>2, <1>4, <2>2, <2>3, <2>5, PassesMove
  <1>7. ASSUME NEW k \in match[p].todo, InsertPropagation(p, k), ~Done(p)
        PROVE  PassesInv' /\ lockEvents' = lockEvents /\ \A q \in Process : q # p => PassKept(q)
    <2> DEFINE m == [match[p] EXCEPT !.todo = @ \ {k}]
    <2>1. match' = [match EXCEPT ![p] = m] /\ UNCHANGED <<vars, own>> /\ pc[p] = "propagate"
      BY <1>7 DEF InsertPropagation, CoordTypeOK
    <2>2. m.event = match[p].event /\ m.selected = match[p].selected
          /\ m.todo = match[p].todo \ {k} /\ match[p].selected
      BY <1>7, PassTypes DEF Matching, PassesInv, PassInv, NotYet
    <2> HIDE DEF m
    <2>a. /\ match'[p] = m /\ pc'[p] = pc[p] /\ cmd'[p] = cmd[p] /\ own'[p] = own[p]
          /\ lockEvents' = lockEvents
      BY <1>4, <2>1
    <2>b. PassInv(p)
      BY DEF PassesInv
    <2>3. PassInv(p)'
      BY <1>1, <2>1, <2>2, <2>a, <2>b DEF PassInv
    <2> QED BY <1>2, <1>4, <2>1, <2>3, PassesMove
  <1> QED BY <1>3, <1>5, <1>6, <1>7, DonePass DEF MatchStep

LEMMA AbortPass ==
    ASSUME CoordTypeOK, PassesInv, NEW p \in Process, AbortMatch(p)
    PROVE  /\ PassesInv' /\ lockEvents' = lockEvents
           /\ \A q \in Process : q # p => PassKept(q)
  <1>1. Abort(p) /\ OthersKept(p)
    BY SlotsKept DEF AbortMatch
  <1>2. pc'[p] = "idle"
    BY <1>1, SlotChanges, CoordTypeParts DEF Abort
  <1>3. match'[p] = NotYet /\ own'[p] = 0
    BY DEF AbortMatch, CoordTypeOK
  <1>4. \A q \in Process : q # p => PassKept(q)
    BY <1>1, PassFrame DEF AbortMatch
  <1>5. lockEvents' = lockEvents /\ LogKept /\ InterestsKept
    BY <1>1, OnlyRecordLogs DEF LogKept, InterestsKept, AbortMatch
  <1> QED BY <1>2, <1>3, <1>4, <1>5, NoPass, PassesMove

(* Steps outside of passes: on the table locks, the clock, the interests.  *)
LEMMA OutsidePass ==
    ASSUME CoordTypeOK, PassesInv, InterestsKept, match' = match, own' = own,
           \/ \E p \in Process : Start(p) \/ RowStep(p)
           \/ Tick
           \/ UNCHANGED vars
    PROVE  PassesInv' /\ lockEvents' = lockEvents
  <1>1. CASE Tick \/ UNCHANGED vars
    <2>1. lockEvents' = lockEvents /\ pc' = pc /\ cmd' = cmd
      BY <1>1 DEF Tick, tables, vars
    <2>2. LogKept /\ \A q \in Process : PassKept(q)
      BY <2>1 DEF LogKept, PassKept
    <2> QED BY <2>1, <2>2, PassStays DEF PassesInv
  <1>2. ASSUME NEW p \in Process, Start(p) \/ RowStep(p)
        PROVE  PassesInv' /\ lockEvents' = lockEvents
    <2>1. OthersKept(p) /\ lockEvents' = lockEvents
      BY <1>2, SlotsKept, OnlyRecordLogs DEF Step
    <2>2. LogKept /\ \A q \in Process : q # p => PassKept(q)
      BY <2>1, PassFrame DEF LogKept
    <2>3. pc[p] # "propagate" /\ pc'[p] # "propagate"
      BY <1>2, NoPassHere, CoordTypeParts
    <2>4. own'[p] = 0 /\ match'[p] = NotYet
      BY <2>3 DEF PassesInv, PassInv
    <2> QED BY <2>1, <2>2, <2>3, <2>4, NoPass, PassesMove
  <1> QED BY <1>1, <1>2

-----------------------------------------------------------------------------
(* No news is missed *)

Settled(k, e) == Noticed(k, e) \/ BeingPropagated(k, e) \/ e \in lost

PropagationsKept ==
    \A n \in DOMAIN propagations :
        n \in DOMAIN propagations' /\ propagations'[n] = propagations[n]

(* A notice is never taken back. *)
LEMMA NoticedStays ==
    ASSUME CoordTypeOK, LogKept, InterestsKept, PropagationsKept,
           NEW k \in DOMAIN interests, NEW e, Noticed(k, e)
    PROVE  Noticed(k, e)'
  <1>1. PICK n \in DOMAIN propagations :
            /\ propagations[n].interest = k /\ propagations[n].event >= e
            /\ lockEvents[propagations[n].event].resource = interests[k].resource
    BY DEF Noticed
  <1>2. n \in DOMAIN propagations' /\ propagations'[n] = propagations[n]
    BY DEF PropagationsKept
  <1>3. propagations[n].event \in DOMAIN lockEvents
    BY DEF CoordTypeOK
  <1>4. lockEvents'[propagations'[n].event].resource = interests'[k].resource
    BY <1>1, <1>2, <1>3 DEF LogKept, InterestsKept
  <1> QED BY <1>1, <1>2, <1>4 DEF Noticed

(* What settled e for k settles it still, unless p itself was on its way.  *)
LEMMA SettledStays ==
    ASSUME CoordTypeOK, LogKept, InterestsKept, PropagationsKept, lost \subseteq lost',
           NEW p \in Process, \A q \in Process : q # p => PassKept(q),
           NEW k \in DOMAIN interests, NEW e, Settled(k, e),
           own[p] = e /\ (match[p].selected => k \in match[p].todo) => Settled(k, e)'
    PROVE  Settled(k, e)'
  <1>1. CASE Noticed(k, e)
    BY <1>1, NoticedStays DEF Settled
  <1>2. CASE e \in lost
    BY <1>2 DEF Settled
  <1>3. CASE BeingPropagated(k, e)
    <2>1. PICK q \in Process : own[q] = e /\ (match[q].selected => k \in match[q].todo)
      BY <1>3 DEF BeingPropagated
    <2>2. CASE q = p
      BY <2>1, <2>2
    <2>3. CASE q # p
      <3>1. own'[q] = e /\ (match'[q].selected => k \in match'[q].todo)
        BY <2>1, <2>3 DEF PassKept
      <3> QED BY <3>1 DEF Settled, BeingPropagated
    <2> QED BY <2>2, <2>3
  <1> QED BY <1>1, <1>2, <1>3 DEF Settled

LEMMA AwaitedBefore ==
    ASSUME lockEvents' = lockEvents, interests' = interests, since' = since,
           NEW k, NEW e, Awaits(k, e)'
    PROVE  Awaits(k, e)
  BY DEF Awaits

LEMMA MissedNothing ==
    ASSUME \A k \in DOMAIN interests', e \in DOMAIN lockEvents' :
              Awaits(k, e)' => Settled(k, e)'
    PROVE  NoNewsMissed'
  BY DEF NoNewsMissed, Settled

(* Nothing the property looks at changes. *)
LEMMA QuietNews ==
    ASSUME NoNewsMissed, lockEvents' = lockEvents, UNCHANGED mail
    PROVE  NoNewsMissed'
  BY DEF NoNewsMissed, Noticed, BeingPropagated, Awaits, mail

LEMMA RecordNews ==
    ASSUME CoordTypeOK, LocalsInv, PassesInv, NoNewsMissed, NEW p \in Process, Record(p)
    PROVE  NoNewsMissed'
  <1>1. /\ interests' = interests /\ since' = since /\ propagations' = propagations
        /\ lost' = lost /\ RecordEvent(p)
    BY DEF Record
  <1>2. /\ lockEvents'[Len(lockEvents')] = EventOf(cmd[p]) /\ LogKept
        /\ DOMAIN lockEvents' = DOMAIN lockEvents \cup {Len(lockEvents')}
    BY <1>1, RecordAppends, CoordTypeParts DEF LogKept
  <1>3. InterestsKept /\ PropagationsKept /\ lost \subseteq lost'
    BY <1>1 DEF InterestsKept, PropagationsKept
  <1>4. ASSUME NEW k \in DOMAIN interests', NEW e \in DOMAIN lockEvents', Awaits(k, e)'
        PROVE  Settled(k, e)'
    <2>1. CASE e \in DOMAIN lockEvents
      <3>1. Awaits(k, e)
        BY <1>1, <1>2, <1>4, <2>1 DEF Awaits, LogKept
      <3>2. Settled(k, e) /\ k \in DOMAIN interests
        BY <1>1, <2>1, <3>1 DEF NoNewsMissed, Settled
      <3>3. own[p] # e
        BY <2>1, RecordPass, PassTypes
      <3> QED BY <1>2, <1>3, <3>2, <3>3, RecordPass, SettledStays
    <2>2. CASE e = Len(lockEvents')
      <3>1. EventOf(cmd[p]).kind = cmd[p].event
        BY DEF EventOf
      <3>2. Newsworthy(cmd[p].event)
        BY <1>2, <1>4, <2>2, <3>1 DEF Awaits
      <3>3. own'[p] = e /\ ~match'[p].selected
        BY <2>2, <3>2, RecordPass DEF NotYet
      <3> QED BY <3>3 DEF Settled, BeingPropagated
    <2> QED BY <1>2, <2>1, <2>2
  <1> QED BY <1>4, MissedNothing

LEMMA MatchNews ==
    ASSUME CoordTypeOK, PassesInv, NoNewsMissed, NEW p \in Process, MatchStep(p)
    PROVE  NoNewsMissed'
  <1>1. /\ interests' = interests /\ since' = since /\ lost' = lost
        /\ lockEvents' = lockEvents
    BY MatchPass DEF MatchStep, SelectInterests, SelectLatestEvent, InsertPropagation
  <1>2. PropagationsKept
    <2>1. CASE propagations' = propagations
      BY <2>1 DEF PropagationsKept
    <2>2. ASSUME NEW x, propagations' = Append(propagations, x) PROVE PropagationsKept
      <3>1. propagations \in Seq(Propagation)
        BY DEF CoordTypeOK
      <3> QED BY <2>2, <3>1 DEF PropagationsKept
    <2> QED BY <2>1, <2>2 DEF MatchStep, SelectInterests, SelectLatestEvent, InsertPropagation
  <1>3. LogKept /\ InterestsKept /\ lost \subseteq lost'
    BY <1>1 DEF LogKept, InterestsKept
  <1>4. SUFFICES ASSUME NEW k \in DOMAIN interests, NEW e \in DOMAIN lockEvents,
                        Awaits(k, e),
                        own[p] = e, match[p].selected => k \in match[p].todo
                 PROVE  Settled(k, e)'
    <2>1. ASSUME NEW k \in DOMAIN interests', NEW e \in DOMAIN lockEvents', Awaits(k, e)',
                 own[p] = e /\ (match[p].selected => k \in match[p].todo) => Settled(k, e)'
          PROVE  Settled(k, e)'
      <3>1. Awaits(k, e) /\ k \in DOMAIN interests
        BY <1>1, <2>1, AwaitedBefore
      <3>2. Settled(k, e)
        BY <1>1, <2>1, <3>1 DEF NoNewsMissed, Settled
      <3> QED BY <1>2, <1>3, <2>1, <3>1, <3>2, MatchPass, SettledStays
    <2> QED BY <1>1, <2>1, AwaitedBefore, MissedNothing
  <1>5. e # 0
    BY PassTypes
  <1>6. PassInv(p)
    BY DEF PassesInv
  <1>7. CASE SelectInterests(p)
    <2>1. k \in Listeners(cmd[p].resource)
      BY <1>4, <1>5, <1>6 DEF PassInv, Awaits, Listeners
    <2>2. /\ match' = [match EXCEPT ![p] =
                 [selected |-> TRUE, todo |-> Listeners(cmd[p].resource), event |-> 0]]
          /\ own' = own
      BY <1>7, <2>1 DEF SelectInterests
    <2>3. own'[p] = e /\ k \in match'[p].todo
      BY <1>4, <2>1, <2>2 DEF CoordTypeOK
    <2> QED BY <2>3 DEF Settled, BeingPropagated
  <1>8. CASE SelectLatestEvent(p)
    <2>1. PICK f : match' = [match EXCEPT ![p] = [match[p] EXCEPT !.event = f]]
      BY <1>8 DEF SelectLatestEvent, CoordTypeOK
    <2>2. own' = own /\ match[p].selected
      BY <1>8 DEF SelectLatestEvent
    <2>3. [match[p] EXCEPT !.event = f].todo = match[p].todo
      BY PassTypes DEF Matching
    <2>4. own'[p] = e /\ k \in match'[p].todo
      BY <1>4, <2>1, <2>2, <2>3 DEF CoordTypeOK
    <2> QED BY <2>4 DEF Settled, BeingPropagated
  <1>9. ASSUME NEW j \in match[p].todo, InsertPropagation(p, j)
        PROVE  Settled(k, e)'
    <2>1. match[p].selected /\ match[p].event # 0
      BY <1>6, <1>9 DEF InsertPropagation, PassInv, NotYet
    <2>2. CASE k = j
      <3> DEFINE x == [interest |-> k, event |-> match[p].event, identity |-> interests[k].identity]
      <3>1. propagations' = Append(propagations, x) /\ propagations \in Seq(Propagation)
        BY <1>9, <2>2 DEF InsertPropagation, CoordTypeOK
      <3>2. x.interest = k /\ x.event = match[p].event
        OBVIOUS
      <3> HIDE DEF x
      <3>3. Len(propagations) + 1 \in DOMAIN propagations'
            /\ propagations'[Len(propagations) + 1] = x
        BY <3>1
      <3>4. lockEvents'[x.event].resource = interests'[k].resource /\ x.event >= e
        BY <1>1, <1>4, <1>6, <2>1, <2>2, <3>2 DEF PassInv
      <3>5. Noticed(k, e)'
        BY <3>2, <3>3, <3>4 DEF Noticed
      <3> QED BY <3>5 DEF Settled
    <2>3. CASE k # j
      <3>1. k \in match[p].todo
        BY <1>4, <2>1
      <3>2. match' = [match EXCEPT ![p].todo = @ \ {j}] /\ own' = own
        BY <1>9, <2>3, <3>1 DEF InsertPropagation
      <3>3. match'[p].todo = match[p].todo \ {j}
        BY <3>2, PassTypes DEF CoordTypeOK, Matching
      <3>4. own'[p] = e /\ k \in match'[p].todo
        BY <1>4, <2>3, <3>1, <3>2, <3>3
      <3> QED BY <3>4 DEF Settled, BeingPropagated
    <2> QED BY <2>2, <2>3
  <1> QED BY <1>7, <1>8, <1>9 DEF MatchStep

LEMMA AbortNews ==
    ASSUME CoordTypeOK, PassesInv, NoNewsMissed, NEW p \in Process, AbortMatch(p)
    PROVE  NoNewsMissed'
  <1>1. /\ interests' = interests /\ since' = since /\ propagations' = propagations
        /\ lockEvents' = lockEvents /\ lost' = lost \cup ({own[p]} \ {0})
    BY AbortPass DEF AbortMatch
  <1>2. LogKept /\ InterestsKept /\ PropagationsKept /\ lost \subseteq lost'
    BY <1>1 DEF LogKept, InterestsKept, PropagationsKept
  <1>3. ASSUME NEW k \in DOMAIN interests', NEW e \in DOMAIN lockEvents', Awaits(k, e)'
        PROVE  Settled(k, e)'
    <2>1. Awaits(k, e) /\ k \in DOMAIN interests /\ e \in DOMAIN lockEvents
      BY <1>1, <1>3, AwaitedBefore
    <2>2. Settled(k, e)
      BY <2>1 DEF NoNewsMissed, Settled
    <2>3. own[p] = e => e \in lost'
      BY <1>1, <2>1, PassTypes
    <2> QED BY <1>2, <2>1, <2>2, <2>3, AbortPass, SettledStays DEF Settled
  <1> QED BY <1>3, MissedNothing

(* A new interest has heard all there is; a status only ever shortens what *)
(* is awaited.                                                             *)
LEMMA InterestNews ==
    ASSUME CoordTypeOK, NoNewsMissed,
           \/ \E c \in Subscriber : InsertInterest(c)
           \/ \E k \in DOMAIN interests, s \in InterestStatus : SetInterestStatus(k, s)
    PROVE  NoNewsMissed'
  <1>1. UNCHANGED <<propagations, match, own, lost>> /\ lockEvents' = lockEvents
    BY DEF InsertInterest, SetInterestStatus, vars
  <1>2. ASSUME NEW k \in DOMAIN interests, NEW e \in DOMAIN lockEvents,
               interests'[k].resource = interests[k].resource, Awaits(k, e)
        PROVE  Settled(k, e)'
    BY <1>1, <1>2 DEF NoNewsMissed, Settled, Noticed, BeingPropagated
  <1>3. \A e \in DOMAIN lockEvents : ~(Len(lockEvents) < e)
    BY PassTypes
  <1>4. ASSUME NEW c \in Subscriber, InsertInterest(c),
               NEW k \in DOMAIN interests', NEW e \in DOMAIN lockEvents', Awaits(k, e)'
        PROVE  Settled(k, e)'
    <2>1. CASE k \in DOMAIN interests
      <3>1. interests'[k] = interests[k] /\ since'[k] = since[k]
        BY <1>4, <2>1, InterestsGrow
      <3> QED BY <1>1, <1>2, <1>4, <2>1, <3>1 DEF Awaits
    <2>2. CASE k \notin DOMAIN interests
      <3>1. since'[k] = Len(lockEvents)
        BY <1>4, <2>2, InterestsGrow
      <3> QED BY <1>1, <1>3, <1>4, <3>1 DEF Awaits
    <2> QED BY <2>1, <2>2
  <1>5. ASSUME NEW j \in DOMAIN interests, NEW s \in InterestStatus, SetInterestStatus(j, s),
               NEW k \in DOMAIN interests', NEW e \in DOMAIN lockEvents', Awaits(k, e)'
        PROVE  Settled(k, e)'
    <2>1. /\ interests' = [interests EXCEPT ![j] = [interests[j] EXCEPT !.status = s]]
          /\ since' = [since EXCEPT ![j] = IF s = "paused" THEN 0
                          ELSE IF interests[j].status = "active" THEN since[j]
                          ELSE Len(lockEvents)]
      BY <1>5 DEF SetInterestStatus, CoordTypeOK
    <2>2. interests \in Seq(Interest) /\ interests[j] \in Interest /\ DOMAIN since = DOMAIN interests
      BY DEF CoordTypeOK
    <2>3. DOMAIN interests' = DOMAIN interests
      BY <2>1, <2>2
    <2>4. CASE k # j
      <3>1. interests'[k] = interests[k] /\ since'[k] = since[k]
        BY <2>1, <2>2, <2>3, <2>4
      <3> QED BY <1>1, <1>2, <1>5, <2>3, <3>1 DEF Awaits
    <2>5. CASE k = j
      <3>1. interests'[k].status = s /\ interests'[k].resource = interests[k].resource
        BY <2>1, <2>2, <2>5 DEF Interest
      <3>2. since'[k] = IF s = "paused" THEN 0
                        ELSE IF interests[k].status = "active" THEN since[k]
                        ELSE Len(lockEvents)
        BY <2>1, <2>2, <2>5
      <3>3. s = "active"
        BY <1>5, <3>1 DEF Awaits
      <3>4. interests[k].status = "active" /\ since'[k] = since[k]
        BY <1>1, <1>3, <1>5, <3>2, <3>3 DEF Awaits
      <3> QED BY <1>1, <1>2, <1>5, <2>3, <3>1, <3>4 DEF Awaits
    <2> QED BY <2>4, <2>5
  <1>6. ASSUME NEW k \in DOMAIN interests', NEW e \in DOMAIN lockEvents', Awaits(k, e)'
        PROVE  Settled(k, e)'
    BY <1>4, <1>5, <1>6
  <1> QED BY <1>6, MissedNothing

LEMMA NewsInvAlways == CoordSpec => []NewsInv
  <1>1. CoordInit => NewsInv
    <2> SUFFICES ASSUME CoordInit PROVE NewsInv
      OBVIOUS
    <2>1. TypeOK /\ LocalsInv
      BY InitInv DEF CoordInit
    <2>2. interests \in Seq(Interest) /\ DOMAIN interests = {}
          /\ propagations \in Seq(Propagation) /\ DOMAIN propagations = {}
      BY DEF CoordInit
    <2>3. NotYet \in Matching
      BY DEF NotYet, Matching
    <2>4. own \in [Process -> 0..Len(lockEvents)] /\ since \in [DOMAIN interests -> 0..Len(lockEvents)]
      BY <2>2 DEF CoordInit, Init
    <2>5. CoordTypeOK
      BY <2>1, <2>2, <2>3, <2>4 DEF CoordInit, CoordTypeOK
    <2>6. PassesInv
      BY DEF CoordInit, Init, PassesInv, PassInv, NotYet
    <2>7. NoNewsMissed
      BY <2>2 DEF NoNewsMissed
    <2> QED BY <2>1, <2>5, <2>6, <2>7 DEF NewsInv
  <1>2. NewsInv /\ [CoordNext]_coordVars => NewsInv'
    <2> SUFFICES ASSUME NewsInv, [CoordNext]_coordVars PROVE NewsInv'
      OBVIOUS
    <2> USE DEF NewsInv
    <2>1. TypeOK' /\ LocalsInv'
      BY CoordStepIsStep, NextInv, CoordTypeParts
    <2>2. CASE UNCHANGED mail /\ (Tick \/ (\E p \in Process : Start(p) \/ RowStep(p)) \/ UNCHANGED vars)
      <3>1. InterestsKept /\ match' = match /\ own' = own
        BY <2>2 DEF mail, InterestsKept
      <3>2. PassesInv' /\ lockEvents' = lockEvents
        BY <2>2, <3>1, OutsidePass
      <3>3. Len(lockEvents) <= Len(lockEvents)
        BY PassTypes
      <3>4. MailOK'
        <4>1. UNCHANGED <<interests, propagations, match, creating, own, since, lost>>
          BY <2>2 DEF mail
        <4> QED BY <3>2, <4>1 DEF MailOK, CoordTypeOK
      <3> QED BY <2>1, <2>2, <3>2, <3>4, CoordTypeParts, QuietNews
    <2>3. ASSUME NEW p \in Process, Record(p) PROVE NewsInv'
      BY <2>1, <2>3, RecordKeepsTypes, RecordPass, RecordNews, CoordTypeParts
    <2>4. ASSUME NEW p \in Process, MatchStep(p) PROVE NewsInv'
      BY <2>1, <2>4, MatchKeepsTypes, MatchPass, MatchNews, CoordTypeParts
    <2>5. ASSUME NEW p \in Process, AbortMatch(p) PROVE NewsInv'
      BY <2>1, <2>5, AbortMatchKeepsTypes, AbortPass, AbortNews, CoordTypeParts
    <2>6. CASE \/ \E c \in Subscriber : \/ \E i \in Identity, r \in Resource : CreateInterest(c, i, r)
                                        \/ InsertInterest(c)
                                        \/ AbortCreate(c)
               \/ \E k \in DOMAIN interests, s \in InterestStatus : SetInterestStatus(k, s)
      <3>1. MailOK' /\ InterestsKept
        BY <2>1, <2>6, InterestsKeepTypes
      <3>2. match' = match /\ own' = own /\ UNCHANGED vars
        BY <2>6 DEF CreateInterest, InsertInterest, AbortCreate, SetInterestStatus
      <3>3. PassesInv'
        BY <3>1, <3>2, OutsidePass
      <3>4. NoNewsMissed'
        <4>1. ASSUME UNCHANGED <<vars, interests, propagations, match, own, since, lost>>
              PROVE  NoNewsMissed'
          BY <4>1 DEF NoNewsMissed, Noticed, BeingPropagated, Awaits, vars
        <4> QED BY <2>6, <4>1, InterestNews DEF CreateInterest, AbortCreate
      <3> QED BY <2>1, <3>1, <3>3, <3>4, CoordTypeParts
    <2>7. CASE UNCHANGED coordVars
      BY <2>2, <2>7 DEF coordVars
    <2> QED BY <2>2, <2>3, <2>4, <2>5, <2>6, <2>7 DEF CoordNext, CoordStep
  <1> QED BY <1>1, <1>2, PTL DEF CoordSpec

(* News does not get lost between the statements of a pass, in a race of   *)
(* passes, or while interests come, pause and resume (interest.go:163-200).*)
THEOREM NoNewsIsMissed == CoordSpec => []NoNewsMissed
  <1>1. NewsInv => NoNewsMissed
    BY DEF NewsInv
  <1> QED BY <1>1, NewsInvAlways, PTL

(* The tables of the composition keep their types, and no propagation      *)
(* refers to an interest or an event that is not there.                    *)
THEOREM CoordTypeCorrect == CoordSpec => []CoordTypeOK
  <1>1. NewsInv => CoordTypeOK
    BY DEF NewsInv
  <1> QED BY <1>1, NewsInvAlways, PTL

-----------------------------------------------------------------------------
(* No interest is told more often than there was news *)

Told(k) == {n \in DOMAIN propagations : propagations[n].interest = k}

News(r) == {e \in DOMAIN lockEvents : /\ lockEvents[e].resource = r
                                      /\ Newsworthy(lockEvents[e].kind)}

OnIt(p, r) == pc[p] = "propagate" /\ cmd[p].resource = r

Passing(r) == {p \in Process : OnIt(p, r)}

(* p has yet to tell k. *)
Owes(p, k) == OnIt(p, interests[k].resource) /\ (match[p].selected => k \in match[p].todo)

Owing(k) == {p \in Process : Owes(p, k)}

PassesCounted == \A r \in Resource : Cardinality(Passing(r)) <= Cardinality(News(r))

NoticesCounted ==
    \A k \in DOMAIN interests :
        Cardinality(Told(k)) + Cardinality(Owing(k)) <= Cardinality(News(interests[k].resource))

NoticeInv == PassesCounted /\ NoticesCounted

-----------------------------------------------------------------------------
LEMMA AtMost ==
    ASSUME NEW S, IsFiniteSet(S), NEW T, T \subseteq S
    PROVE  /\ IsFiniteSet(T) /\ Cardinality(T) \in Nat /\ Cardinality(S) \in Nat
           /\ Cardinality(T) <= Cardinality(S)
  BY FS_Subset, FS_CardinalityType

LEMMA AtMostOneMore ==
    ASSUME NEW S, IsFiniteSet(S), NEW x, NEW T, T \subseteq S \cup {x}
    PROVE  Cardinality(T) <= Cardinality(S) + 1 /\ Cardinality(T) \in Nat
  <1>1. CASE x \in S
    BY <1>1, AtMost
  <1>2. CASE x \notin S
    <2>1. IsFiniteSet(S \cup {x}) /\ Cardinality(S \cup {x}) = Cardinality(S) + 1
      BY <1>2, CountGains
    <2> QED BY <2>1, AtMost
  <1> QED BY <1>1, <1>2

LEMMA AllFinite ==
    ASSUME CoordTypeOK, NEW k, NEW r
    PROVE  /\ IsFiniteSet(Told(k)) /\ IsFiniteSet(Owing(k)) /\ Owing(k) \subseteq Process
           /\ IsFiniteSet(News(r)) /\ IsFiniteSet(Passing(r)) /\ Passing(r) \subseteq Process
           /\ Cardinality(Told(k)) \in Nat /\ Cardinality(Owing(k)) \in Nat
           /\ Cardinality(News(r)) \in Nat /\ Cardinality(Passing(r)) \in Nat
  <1>1. IsFiniteSet(DOMAIN propagations) /\ IsFiniteSet(DOMAIN lockEvents)
    <2>1. propagations \in Seq(Propagation) /\ lockEvents \in Seq(LockEvent)
      BY DEF CoordTypeOK, TypeOK
    <2> QED BY <2>1, PositionsFinite
  <1>2. /\ Told(k) \subseteq DOMAIN propagations /\ News(r) \subseteq DOMAIN lockEvents
        /\ Owing(k) \subseteq Process /\ Passing(r) \subseteq Process
    BY DEF Told, News, Owing, Passing
  <1> QED BY <1>1, <1>2, CountIsNat, ProcessAssumption

LEMMA ResourceOfInterest ==
    ASSUME CoordTypeOK, NEW k \in DOMAIN interests
    PROVE  interests[k].resource \in Resource
  <1>1. interests[k] \in Interest
    BY DEF CoordTypeOK
  <1> QED BY <1>1 DEF Interest

(* A step that logs nothing and tells nobody, and sets no process on a pass.*)
LEMMA Unheard ==
    ASSUME CoordTypeOK, CoordTypeOK', NoticeInv, lockEvents' = lockEvents,
           propagations' = propagations, InterestsKept, DOMAIN interests' = DOMAIN interests,
           \A p \in Process, r \in Resource : OnIt(p, r)' => OnIt(p, r),
           \A p \in Process, k \in DOMAIN interests : Owes(p, k)' => Owes(p, k)
    PROVE  NoticeInv'
  <1>1. ASSUME NEW r \in Resource
        PROVE  Cardinality(Passing(r))' <= Cardinality(News(r))'
    <2>1. Passing(r)' \subseteq Passing(r) /\ News(r)' = News(r)
      BY <1>1 DEF Passing, News
    <2>2. Cardinality(Passing(r)') <= Cardinality(Passing(r)) /\ Cardinality(Passing(r)') \in Nat
      BY <2>1, AllFinite, AtMost
    <2> QED BY <2>1, <2>2, AllFinite DEF NoticeInv, PassesCounted
  <1>2. ASSUME NEW k \in DOMAIN interests
        PROVE  Cardinality(Told(k))' + Cardinality(Owing(k))'
                  <= Cardinality(News(interests[k].resource))'
    <2>1. /\ Owing(k)' \subseteq Owing(k) /\ Told(k)' = Told(k)
          /\ News(interests[k].resource)' = News(interests[k].resource)
      BY <1>2 DEF Owing, Told, News, InterestsKept
    <2>2. Cardinality(Owing(k)') <= Cardinality(Owing(k)) /\ Cardinality(Owing(k)') \in Nat
      BY <2>1, AllFinite, AtMost
    <2>3. Cardinality(Told(k)) + Cardinality(Owing(k)) <= Cardinality(News(interests[k].resource))
      BY DEF NoticeInv, NoticesCounted
    <2> QED BY <2>1, <2>2, <2>3, AllFinite
  <1> QED BY <1>1, <1>2 DEF NoticeInv, PassesCounted, NoticesCounted

-----------------------------------------------------------------------------
(* The steps *)

(* p goes on no pass, and those on a pass stay as they are. *)
LEMMA OthersOweNoMore ==
    ASSUME CoordTypeOK, NEW p \in Process, InterestsKept,
           \A q \in Process : q # p => PassKept(q)
    PROVE  /\ \A q \in Process, r \in Resource : q # p => (OnIt(q, r)' <=> OnIt(q, r))
           /\ \A q \in Process, k \in DOMAIN interests : q # p => (Owes(q, k)' <=> Owes(q, k))
  <1>1. \A q \in Process, r \in Resource : q # p => (OnIt(q, r)' <=> OnIt(q, r))
    BY DEF OnIt, PassKept
  <1>2. ASSUME NEW q \in Process, NEW k \in DOMAIN interests, q # p
        PROVE  Owes(q, k)' <=> Owes(q, k)
    <2>1. interests'[k].resource = interests[k].resource /\ match'[q] = match[q]
          /\ pc'[q] = pc[q] /\ cmd'[q] = cmd[q]
      BY <1>2 DEF InterestsKept, PassKept
    <2> QED BY <2>1 DEF Owes, OnIt
  <1> QED BY <1>1, <1>2

LEMMA RecordCounted ==
    ASSUME NewsInv, CoordTypeOK', NoticeInv, NEW p \in Process, Record(p)
    PROVE  NoticeInv'
  <1> DEFINE n == Len(lockEvents')
             loud == Newsworthy(cmd[p].event)
  <1>1. CoordTypeOK /\ TypeOK /\ LocalsInv /\ PassesInv
    BY CoordTypeParts DEF NewsInv
  <1>2. RecordEvent(p) /\ interests' = interests /\ propagations' = propagations
        /\ pc[p] = "record"
    BY DEF Record, RecordEvent
  <1>3. InterestsKept
    BY <1>2 DEF InterestsKept
  <1>4. /\ \A q \in Process, r \in Resource : q # p => (OnIt(q, r)' <=> OnIt(q, r))
        /\ \A q \in Process, k \in DOMAIN interests : q # p => (Owes(q, k)' <=> Owes(q, k))
    BY <1>1, <1>3, RecordPass, OthersOweNoMore
  <1>5. /\ loud => pc'[p] = "propagate" /\ cmd'[p] = cmd[p]
        /\ ~loud => pc'[p] = "idle"
    BY <1>1, <1>2, SlotChanges DEF RecordEvent
  <1>6. /\ DOMAIN lockEvents' = DOMAIN lockEvents \cup {n}
        /\ \A e \in DOMAIN lockEvents : lockEvents'[e] = lockEvents[e]
        /\ lockEvents'[n].resource = cmd[p].resource /\ lockEvents'[n].kind = cmd[p].event
        /\ n \notin DOMAIN lockEvents
    <2>1. EventOf(cmd[p]).resource = cmd[p].resource /\ EventOf(cmd[p]).kind = cmd[p].event
      BY DEF EventOf
    <2>2. Len(lockEvents) + 1 \notin DOMAIN lockEvents
      BY <1>1, PositionsFinite DEF TypeOK
    <2> QED BY <1>1, <1>2, <2>1, <2>2, RecordAppends
  <1>7. ASSUME NEW r \in Resource
        PROVE  News(r)' = IF loud /\ cmd[p].resource = r THEN News(r) \cup {n} ELSE News(r)
    BY <1>6 DEF News
  <1>8. ASSUME NEW r \in Resource
        PROVE  Passing(r)' \subseteq IF loud /\ cmd[p].resource = r
                                     THEN Passing(r) \cup {p} ELSE Passing(r)
    BY <1>4, <1>5 DEF Passing, OnIt
  <1>9. ASSUME NEW k \in DOMAIN interests
        PROVE  Owing(k)' \subseteq IF loud /\ cmd[p].resource = interests[k].resource
                                   THEN Owing(k) \cup {p} ELSE Owing(k)
    BY <1>2, <1>4, <1>5 DEF Owing, Owes, OnIt
  <1>10. ASSUME NEW r \in Resource
         PROVE  Cardinality(News(r)') = Cardinality(News(r))
                                          + One(loud /\ cmd[p].resource = r)
    <2>1. n \notin News(r)
      BY <1>6 DEF News
    <2>2. IsFiniteSet(News(r)) /\ Cardinality(News(r)) \in Nat
      BY <1>1, AllFinite
    <2>3. CASE loud /\ cmd[p].resource = r
      <3>1. Cardinality(News(r) \cup {n}) = Cardinality(News(r)) + 1
        BY <2>1, <2>2, CountGains
      <3>2. News(r)' = News(r) \cup {n}
        BY <1>7, <2>3
      <3> QED BY <2>3, <3>1, <3>2 DEF One
    <2>4. CASE ~(loud /\ cmd[p].resource = r)
      <3>1. News(r)' = News(r)
        BY <1>7, <2>4
      <3> QED BY <2>2, <2>4, <3>1 DEF One
    <2> QED BY <2>3, <2>4
  <1>11. ASSUME NEW S, NEW T, NEW b \in BOOLEAN, IsFiniteSet(S),
                T \subseteq IF b THEN S \cup {p} ELSE S
         PROVE  Cardinality(T) <= Cardinality(S) + One(b) /\ Cardinality(T) \in Nat
    <2>1. CASE b
      BY <1>11, <2>1, AtMostOneMore DEF One
    <2>2. CASE ~b
      BY <1>11, <2>2, AtMost DEF One
    <2> QED BY <2>1, <2>2
  <1>12. ASSUME NEW r \in Resource
         PROVE  Cardinality(Passing(r)') <= Cardinality(News(r)')
    <2>1. /\ Cardinality(Passing(r)') <= Cardinality(Passing(r)) + One(loud /\ cmd[p].resource = r)
          /\ Cardinality(Passing(r)') \in Nat
      BY <1>1, <1>8, <1>11, AllFinite
    <2>2. Cardinality(Passing(r)) <= Cardinality(News(r))
      BY DEF NoticeInv, PassesCounted
    <2>3. /\ Cardinality(Passing(r)) \in Nat
          /\ Cardinality(News(r)) \in Nat /\ One(loud /\ cmd[p].resource = r) \in Nat
      BY <1>1, AllFinite DEF One
    <2> HIDE DEF loud
    <2> QED BY <1>10, <2>1, <2>2, <2>3
  <1>13. ASSUME NEW k \in DOMAIN interests
         PROVE  Cardinality(Told(k)') + Cardinality(Owing(k)')
                   <= Cardinality(News(interests[k].resource)')
    <2> DEFINE r == interests[k].resource
    <2>1. r \in Resource
      BY <1>1, ResourceOfInterest
    <2>2. /\ Cardinality(Owing(k)') <= Cardinality(Owing(k)) + One(loud /\ cmd[p].resource = r)
          /\ Cardinality(Owing(k)') \in Nat
      BY <1>1, <1>9, <1>11, AllFinite
    <2>3. Cardinality(Told(k)) + Cardinality(Owing(k)) <= Cardinality(News(r))
      BY DEF NoticeInv, NoticesCounted
    <2>4. Told(k)' = Told(k) /\ News(r)' = News(interests[k].resource)'
      BY <1>2 DEF Told
    <2>5. /\ Cardinality(Owing(k)) \in Nat
          /\ Cardinality(Told(k)) \in Nat
          /\ Cardinality(News(r)) \in Nat /\ One(loud /\ cmd[p].resource = r) \in Nat
      BY <1>1, AllFinite DEF One
    <2>6. Cardinality(News(interests[k].resource)')
             = Cardinality(News(r)) + One(loud /\ cmd[p].resource = r)
      BY <1>2, <1>10, <2>1
    <2> HIDE DEF loud, r
    <2> QED BY <2>2, <2>3, <2>4, <2>5, <2>6
  <1> HIDE DEF loud
  <1> QED BY <1>2, <1>12, <1>13 DEF NoticeInv, PassesCounted, NoticesCounted

(* p tells j, and owes it nothing any more. *)
LEMMA TellCounted ==
    ASSUME NewsInv, CoordTypeOK', NoticeInv, NEW p \in Process,
           NEW j \in match[p].todo, InsertPropagation(p, j)
    PROVE  NoticeInv'
  <1>1. CoordTypeOK /\ PassesInv /\ PassInv(p) /\ MatchStep(p)
    BY DEF NewsInv, PassesInv, MatchStep
  <1>2. interests' = interests /\ lockEvents' = lockEvents /\ pc[p] = "propagate"
    BY <1>1, MatchPass DEF InsertPropagation
  <1>3. InterestsKept
    BY <1>2 DEF InterestsKept
  <1>4. /\ \A q \in Process, r \in Resource : q # p => (OnIt(q, r)' <=> OnIt(q, r))
        /\ \A q \in Process, k \in DOMAIN interests : q # p => (Owes(q, k)' <=> Owes(q, k))
    BY <1>1, <1>3, MatchPass, OthersOweNoMore
  <1>5. /\ j \in DOMAIN interests /\ match[p].selected
        /\ interests[j].resource = cmd[p].resource /\ Owes(p, j)
    BY <1>1, <1>2 DEF PassInv, NotYet, Owes, OnIt
  <1>6. \/ pc'[p] # "propagate"
        \/ /\ pc' = pc /\ cmd' = cmd
           /\ match'[p].todo = match[p].todo \ {j} /\ match'[p].selected
    <2>1. CASE Done(p)
      BY <1>1, <2>1, SlotChanges, CoordTypeParts DEF Done, Propagate
    <2>2. CASE match' = [match EXCEPT ![p].todo = @ \ {j}] /\ UNCHANGED <<vars, own>>
      <3>1. match'[p] = [match[p] EXCEPT !.todo = @ \ {j}]
        BY <1>1, <2>2 DEF CoordTypeOK
      <3>2. match[p] \in Matching
        BY <1>1, PassTypes
      <3> QED BY <1>5, <2>2, <3>1, <3>2 DEF Matching, vars
    <2> QED BY <2>1, <2>2 DEF InsertPropagation
  <1>7. /\ \A r \in Resource : OnIt(p, r)' => OnIt(p, r)
        /\ \A k \in DOMAIN interests : Owes(p, k)' => Owes(p, k) /\ k # j
    BY <1>2, <1>6 DEF OnIt, Owes
  <1>8. \A r \in Resource : Passing(r)' \subseteq Passing(r) /\ News(r)' = News(r)
    BY <1>2, <1>4, <1>7 DEF Passing, News
  <1>9. ASSUME NEW r \in Resource
        PROVE  Cardinality(Passing(r)') <= Cardinality(News(r)')
    <2>1. Cardinality(Passing(r)') <= Cardinality(Passing(r)) /\ Cardinality(Passing(r)') \in Nat
      BY <1>1, <1>8, AllFinite, AtMost
    <2> QED BY <1>1, <1>8, <2>1, AllFinite DEF NoticeInv, PassesCounted
  <1>10. /\ propagations \in Seq(Propagation)
         /\ \E x : propagations' = Append(propagations, x) /\ x.interest = j
    <2> DEFINE y == [interest |-> j, event |-> match[p].event, identity |-> interests[j].identity]
    <2>1. propagations' = Append(propagations, y) /\ y.interest = j
      BY DEF InsertPropagation
    <2>2. propagations \in Seq(Propagation)
      BY <1>1 DEF CoordTypeOK
    <2> HIDE DEF y
    <2> QED BY <2>1, <2>2
  <1>11. ASSUME NEW k \in DOMAIN interests
         PROVE  Cardinality(Told(k)') + Cardinality(Owing(k)')
                   <= Cardinality(News(interests[k].resource)')
    <2>1. Cardinality(Told(k)) + Cardinality(Owing(k)) <= Cardinality(News(interests[k].resource))
      BY DEF NoticeInv, NoticesCounted
    <2>2. News(interests[k].resource)' = News(interests[k].resource)
      BY <1>2 DEF News
    <2>3. PICK x : propagations' = Append(propagations, x) /\ x.interest = j
      BY <1>10
    <2>4. /\ DOMAIN propagations' = DOMAIN propagations \cup {Len(propagations) + 1}
          /\ propagations'[Len(propagations) + 1] = x
          /\ Len(propagations) + 1 \notin DOMAIN propagations
          /\ \A m \in DOMAIN propagations : propagations'[m] = propagations[m]
      BY <1>10, <2>3
    <2>5. CASE k = j
      <3>1. Told(k)' = Told(k) \cup {Len(propagations) + 1} /\ Len(propagations) + 1 \notin Told(k)
        BY <2>3, <2>4, <2>5 DEF Told
      <3>2. Cardinality(Told(k)') = Cardinality(Told(k)) + 1
        BY <1>1, <3>1, AllFinite, CountGains
      <3>3. Owing(k)' \subseteq Owing(k) \ {p} /\ p \in Owing(k)
        BY <1>4, <1>5, <1>7, <2>5 DEF Owing
      <3>4. IsFiniteSet(Owing(k) \ {p})
            /\ Cardinality(Owing(k) \ {p}) = Cardinality(Owing(k)) - 1
        BY <1>1, <3>3, AllFinite, CountLoses
      <3>5. Cardinality(Owing(k)') <= Cardinality(Owing(k)) - 1 /\ Cardinality(Owing(k)') \in Nat
        BY <3>3, <3>4, AtMost
      <3> QED BY <1>1, <2>1, <2>2, <3>2, <3>5, AllFinite
    <2>6. CASE k # j
      <3>1. Told(k)' = Told(k)
        BY <2>3, <2>4, <2>6 DEF Told
      <3>2. Owing(k)' \subseteq Owing(k)
        BY <1>4, <1>7 DEF Owing
      <3>3. Cardinality(Owing(k)') <= Cardinality(Owing(k)) /\ Cardinality(Owing(k)') \in Nat
        BY <1>1, <3>2, AllFinite, AtMost
      <3> QED BY <1>1, <2>1, <2>2, <3>1, <3>3, AllFinite
    <2> QED BY <2>5, <2>6
  <1> QED BY <1>2, <1>9, <1>11 DEF NoticeInv, PassesCounted, NoticesCounted

(* A new interest has been told nothing, and is owed no more than the      *)
(* passes on its resource.                                                 *)
LEMMA InterestCounted ==
    ASSUME NewsInv, CoordTypeOK', NoticeInv, NEW c \in Subscriber, InsertInterest(c)
    PROVE  NoticeInv'
  <1>1. CoordTypeOK
    BY DEF NewsInv
  <1>2. /\ lockEvents' = lockEvents /\ propagations' = propagations
        /\ pc' = pc /\ cmd' = cmd /\ match' = match
    BY DEF InsertInterest, vars
  <1>3. \A r \in Resource : Passing(r)' = Passing(r) /\ News(r)' = News(r)
    BY <1>2 DEF Passing, OnIt, News
  <1>4. PassesCounted'
    BY <1>3 DEF NoticeInv, PassesCounted
  <1>5. ASSUME NEW k \in DOMAIN interests'
        PROVE  Cardinality(Told(k)') + Cardinality(Owing(k)')
                  <= Cardinality(News(interests[k].resource)')
    <2>1. CASE k \in DOMAIN interests
      <3>1. interests'[k] = interests[k]
        BY <1>1, <2>1, InterestsGrow
      <3>2. /\ Told(k)' = Told(k) /\ Owing(k)' = Owing(k)
            /\ News(interests[k].resource)' = News(interests[k].resource)
        BY <1>2, <3>1 DEF Told, Owing, Owes, OnIt, News
      <3> QED BY <2>1, <3>2 DEF NoticeInv, NoticesCounted
    <2>2. CASE k \notin DOMAIN interests
      <3>1. Told(k)' = {}
        BY <1>1, <1>2, <2>2 DEF Told, CoordTypeOK
      <3>2. PICK r \in Resource : r = interests'[k].resource
        <4>1. interests' \in Seq(Interest)
          BY <1>1, InterestsGrow
        <4>2. interests'[k] \in Interest
          BY <1>5, <4>1
        <4> QED BY <4>2 DEF Interest
      <3>3. Owing(k)' \subseteq Passing(r)
        BY <1>2, <3>2 DEF Owing, Owes, OnIt, Passing
      <3>4. Cardinality(Owing(k)') <= Cardinality(Passing(r)) /\ Cardinality(Owing(k)') \in Nat
        BY <1>1, <3>3, AllFinite, AtMost
      <3>5. Cardinality(Passing(r)) <= Cardinality(News(r))
        BY <3>2 DEF NoticeInv, PassesCounted
      <3>6. Cardinality(Told(k)') = 0
        BY <3>1, FS_EmptySet
      <3>7. News(interests[k].resource)' = News(r)
        BY <1>2, <3>2 DEF News
      <3> QED BY <1>1, <3>4, <3>5, <3>6, <3>7, AllFinite
    <2> QED BY <2>1, <2>2
  <1> QED BY <1>4, <1>5 DEF NoticeInv, NoticesCounted

LEMMA NoticeStep ==
    ASSUME NewsInv, CoordTypeOK', NoticeInv, [CoordNext]_coordVars
    PROVE  NoticeInv'
  <1>1. CoordTypeOK /\ TypeOK /\ LocalsInv /\ PassesInv
    BY CoordTypeParts DEF NewsInv
  <1>2. ASSUME lockEvents' = lockEvents, propagations' = propagations, interests' = interests,
               \A p \in Process, r \in Resource : OnIt(p, r)' => OnIt(p, r),
               \A p \in Process, k \in DOMAIN interests : Owes(p, k)' => Owes(p, k)
        PROVE  NoticeInv'
    BY <1>1, <1>2, Unheard DEF InterestsKept
  <1>3. ASSUME lockEvents' = lockEvents, propagations' = propagations, interests' = interests,
               NEW p \in Process, \A q \in Process : q # p => PassKept(q), pc'[p] # "propagate"
        PROVE  NoticeInv'
    <2>1. InterestsKept
      BY <1>3 DEF InterestsKept
    <2>2. \A r, k : ~OnIt(p, r)' /\ ~Owes(p, k)'
      BY <1>3 DEF OnIt, Owes
    <2> QED BY <1>1, <1>2, <1>3, <2>1, <2>2, OthersOweNoMore
  <1>4. ASSUME NEW p \in Process, Start(p) \/ RowStep(p), UNCHANGED mail PROVE NoticeInv'
    <2>1. lockEvents' = lockEvents /\ OthersKept(p) /\ pc'[p] # "propagate"
      BY <1>1, <1>4, OnlyRecordLogs, NoPassHere, SlotsKept DEF Step
    <2>2. \A q \in Process : q # p => PassKept(q)
      BY <1>1, <1>4, <2>1, PassFrame DEF mail
    <2> QED BY <1>3, <1>4, <2>1, <2>2 DEF mail
  <1>5. ASSUME NEW p \in Process, AbortMatch(p) PROVE NoticeInv'
    <2>1. pc'[p] = "idle"
      BY <1>1, <1>5, SlotChanges DEF AbortMatch, Abort
    <2> QED BY <1>1, <1>3, <1>5, <2>1, AbortPass DEF AbortMatch
  <1>6. ASSUME NEW p \in Process, SelectInterests(p) PROVE NoticeInv'
    <2>1. UNCHANGED <<interests, propagations>> /\ pc[p] = "propagate"
          /\ lockEvents' = lockEvents /\ \A q \in Process : q # p => PassKept(q)
      BY <1>1, <1>6, MatchPass DEF MatchStep, SelectInterests
    <2>2. CASE Done(p)
      <3>1. pc'[p] = "idle"
        BY <1>1, <2>2, SlotChanges DEF Done, Propagate
      <3> QED BY <1>3, <2>1, <3>1
    <2>3. CASE ~Done(p)
      <3>1. pc' = pc /\ cmd' = cmd /\ ~match[p].selected /\ InterestsKept
        BY <1>6, <2>1, <2>3 DEF SelectInterests, vars, InterestsKept
      <3>2. /\ \A r \in Resource : OnIt(p, r)' => OnIt(p, r)
            /\ \A k \in DOMAIN interests : Owes(p, k)' => Owes(p, k)
        BY <2>1, <3>1 DEF OnIt, Owes
      <3> QED BY <1>1, <1>2, <2>1, <3>1, <3>2, OthersOweNoMore
    <2> QED BY <2>2, <2>3
  <1>7. ASSUME NEW p \in Process, SelectLatestEvent(p) PROVE NoticeInv'
    <2>1. UNCHANGED <<vars, interests, propagations>> /\ match[p].selected
          /\ \E e : match' = [match EXCEPT ![p].event = e]
      BY <1>7 DEF SelectLatestEvent
    <2>2. InterestsKept /\ lockEvents' = lockEvents /\ pc' = pc /\ cmd' = cmd
          /\ \A q \in Process : q # p => PassKept(q)
      BY <1>1, <1>7, <2>1, MatchPass DEF InterestsKept, MatchStep, vars
    <2>3. match'[p].todo = match[p].todo /\ match'[p].selected = match[p].selected
      <3>1. PICK e : match' = [match EXCEPT ![p].event = e]
        BY <2>1
      <3>2. match'[p] = [match[p] EXCEPT !.event = e]
        BY <1>1, <3>1 DEF CoordTypeOK
      <3>3. match[p] \in Matching
        BY <1>1, PassTypes
      <3> QED BY <3>2, <3>3 DEF Matching
    <2>4. /\ \A r \in Resource : OnIt(p, r)' => OnIt(p, r)
          /\ \A k \in DOMAIN interests : Owes(p, k)' => Owes(p, k)
      BY <2>1, <2>2, <2>3 DEF OnIt, Owes
    <2> QED BY <1>1, <1>2, <2>1, <2>2, <2>4, OthersOweNoMore
  <1>8. ASSUME UNCHANGED <<lockEvents, propagations, pc, cmd, match>>,
               InterestsKept, DOMAIN interests' = DOMAIN interests
        PROVE  NoticeInv'
    <2>1. /\ \A p \in Process, r \in Resource : OnIt(p, r)' => OnIt(p, r)
          /\ \A p \in Process, k \in DOMAIN interests : Owes(p, k)' => Owes(p, k)
      BY <1>8 DEF OnIt, Owes, InterestsKept
    <2> QED BY <1>1, <1>8, <2>1, Unheard
  <1>9. CASE (Tick /\ UNCHANGED mail) \/ UNCHANGED coordVars
    BY <1>8, <1>9 DEF Tick, tables, mail, coordVars, vars, InterestsKept
  <1>10. ASSUME NEW c \in Subscriber,
                \/ \E i \in Identity, r \in Resource : CreateInterest(c, i, r)
                \/ AbortCreate(c)
         PROVE  NoticeInv'
    BY <1>8, <1>10 DEF CreateInterest, AbortCreate, vars, InterestsKept
  <1>11. ASSUME NEW k \in DOMAIN interests, NEW s \in InterestStatus, SetInterestStatus(k, s)
         PROVE  NoticeInv'
    <2>1. UNCHANGED <<lockEvents, propagations, pc, cmd, match>>
      BY <1>11 DEF SetInterestStatus, vars
    <2>2. DOMAIN interests' = DOMAIN interests
      <3>1. interests \in Seq(Interest)
            /\ interests' = [interests EXCEPT ![k] = [interests[k] EXCEPT !.status = s]]
        BY <1>1, <1>11 DEF CoordTypeOK, SetInterestStatus
      <3> QED BY <3>1
    <2>3. InterestsKept
      BY <1>1, <1>11, InterestsKeepTypes, CoordTypeParts
    <2> QED BY <1>8, <2>1, <2>2, <2>3
  <1> QED BY <1>4, <1>5, <1>6, <1>7, <1>9, <1>10, <1>11, RecordCounted, TellCounted,
             InterestCounted DEF CoordNext, CoordStep, MatchStep

(* However the passes of several processes interleave with each other and  *)
(* with new interests, no interest is told more often than its resource    *)
(* made news (interest.go:165-166).                                        *)
THEOREM NobodyIsToldTooOften == CoordSpec => []NoSpuriousNotice
  <1>1. CoordInit => NoticeInv
    <2> SUFFICES ASSUME CoordInit PROVE NoticeInv
      OBVIOUS
    <2>1. \A r : Passing(r) = {} /\ News(r) = {}
      BY DEF CoordInit, Init, Passing, OnIt, News
    <2>2. DOMAIN interests = {}
      BY DEF CoordInit
    <2> QED BY <2>1, <2>2, FS_EmptySet DEF NoticeInv, PassesCounted, NoticesCounted
  <1>2. NewsInv /\ NewsInv' /\ NoticeInv /\ [CoordNext]_coordVars => NoticeInv'
    BY NoticeStep DEF NewsInv
  <1>3. NewsInv /\ NoticeInv => NoSpuriousNotice
    <2> SUFFICES ASSUME NewsInv, NoticeInv, NEW k \in DOMAIN interests
                 PROVE  Cardinality(Told(k)) <= Cardinality(News(interests[k].resource))
      BY DEF NoSpuriousNotice, Told, News
    <2>1. Cardinality(Told(k)) + Cardinality(Owing(k)) <= Cardinality(News(interests[k].resource))
      BY DEF NoticeInv, NoticesCounted
    <2> QED BY <2>1, AllFinite DEF NewsInv
  <1> QED BY <1>1, <1>2, <1>3, NewsInvAlways, PTL DEF CoordSpec
=============================================================================
