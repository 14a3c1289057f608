------------------------ MODULE StrategyLedgerProofs ------------------------
(***************************************************************************)
(* Proofs about StrategyLedger, for any number of processes, strategies,   *)
(* events and closes, any harness texts and amounts.                       *)
(*                                                                         *)
(* Closes.  Each close is, at any moment, in exactly one of three places:  *)
(* with the process that has still to log it, in the log, or lost with its *)
(* process.  Every action moves at most one close from one place to the    *)
(* next.                                                                   *)
(*                                                                         *)
(* The log.  It only grows, so what a first read saw is still there at the *)
(* second.  Its notes are any texts at all.  What the parser makes of one, *)
(* field by field, is what the note says when it is looked at as a whole,  *)
(* and of a line of log-usage that is what the writer was given; so the    *)
(* running total and the sum, two loops over the same events, agree at     *)
(* each round modulo 2^64.                                                 *)
(***************************************************************************)
EXTENDS StrategyLedger, Counting

-----------------------------------------------------------------------------
(* Closes *)

Locals == [strategy : Nat, kind : Kind, note : Note, outcome : BOOLEAN,
           usage : UsageFlags \cup {NoUsage}]

LedgerTypes ==
    /\ strategies \in Seq(Strategy) /\ Len(strategies) <= MaxStrategies
    /\ strategyEvents \in Seq(StrategyEvent)
    /\ pc \in [Process -> {"idle", "setGroup", "checkStrategy", "insertEvent",
                           "readRecent", "readLocks"}]
    /\ event \in [Process -> Locals]
    /\ group \in [Process -> Group \cup {NoGroup}]
    /\ closes \in [1..MaxStrategies -> Nat]
    /\ lostCloses \in [1..MaxStrategies -> Nat]

(* Only a process on its way to the INSERT carries an outcome, and only of *)
(* a strategy that exists.                                                 *)
Carries(p) ==
    /\ event[p].outcome => pc[p] \in {"checkStrategy", "insertEvent"}
    /\ event[p].outcome \/ pc[p] \in {"setGroup", "insertEvent"} => event[p].strategy \in Ids

Balance(id) == closes[id] = Outcomes(id) + Cardinality(Closing(id)) + lostCloses[id]

LedgerInv ==
    /\ LedgerTypes
    /\ \A p \in Process : Carries(p)
    /\ \A id \in 1..MaxStrategies : Balance(id)

-----------------------------------------------------------------------------
LEMMA NoteTypes ==
    /\ Unread \in Note /\ NoEvent \in Locals /\ ~NoEvent.outcome
    /\ \A flags \in UsageFlags : ResourceUsageNote(flags) \in Note
  <1>1. Unread \in Note
    BY DEF Unread, Note
  <1>2. ASSUME NEW flags \in UsageFlags
        PROVE  ResourceUsageNote(flags) \in Note
    <2> DEFINE first == [key |-> "harness", name |-> flags.harness.name]
               amount == [key |-> "tokens", amount |-> flags.tokens]
               cost == [key |-> "cost", number |-> TRUE]
    <2>1. /\ flags.harness.name \in HarnessValue /\ flags.harness.rest \in Seq(Field)
          /\ flags.tokens \in Int
      BY GoIntAssumption DEF UsageFlags, HarnessArg, Note
    <2>2. first \in Field /\ amount \in Field /\ cost \in Field
      BY <2>1 DEF Field
    <2> HIDE DEF first, amount, cost
    <2> QED BY <2>1, <2>2 DEF ResourceUsageNote, Note, first, amount, cost
  <1>3. NoEvent \in Locals /\ ~NoEvent.outcome
    BY <1>1 DEF NoEvent, Locals, Kind, UnknownId
  <1> QED BY <1>1, <1>2, <1>3

LEMMA IdsBounded ==
    ASSUME LedgerTypes PROVE Ids = 1..Len(strategies) /\ Ids \subseteq 1..MaxStrategies
  BY StrategyLedgerAssumption DEF LedgerTypes, Ids

(* A strategy's row is rewritten, or one is added: ids stay valid. *)
LEMMA StrategiesGrow ==
    ASSUME LedgerTypes, LedgerTypes',
           strategies' = strategies \/ Len(strategies') >= Len(strategies)
    PROVE  Ids \subseteq Ids'
  BY DEF LedgerTypes, Ids

LEMMA FiniteParts ==
    ASSUME LedgerTypes, NEW id
    PROVE  /\ IsFiniteSet({e \in DOMAIN strategyEvents :
                  strategyEvents[e].strategy = id /\ strategyEvents[e].outcome})
           /\ IsFiniteSet(Closing(id))
           /\ Outcomes(id) \in Nat /\ Cardinality(Closing(id)) \in Nat
  BY CountIsNat, PositionsFinite, StrategyLedgerAssumption
     DEF LedgerTypes, Closing, Outcomes

(* A step that moves no close keeps the balance. *)
LEMMA QuietBalance ==
    ASSUME LedgerInv, UNCHANGED <<strategyEvents, closes, lostCloses>>,
           \A q \in Process :
              /\ event'[q].outcome <=> event[q].outcome
              /\ event[q].outcome => event'[q].strategy = event[q].strategy
    PROVE  \A id \in 1..MaxStrategies : Balance(id)'
  <1> SUFFICES ASSUME NEW id \in 1..MaxStrategies PROVE Balance(id)'
    OBVIOUS
  <1>1. Closing(id)' = Closing(id)
    BY DEF Closing
  <1>2. Outcomes(id)' = Outcomes(id)
    BY DEF Outcomes
  <1> QED BY <1>1, <1>2 DEF LedgerInv, Balance

-----------------------------------------------------------------------------
(* One lemma per group of actions *)

(* Only p's locals and the strategies' rows change, and p carries no       *)
(* outcome, before or after. *)
LEMMA PlainStep ==
    ASSUME LedgerInv, LedgerTypes', NEW p \in Process,
           UNCHANGED <<strategyEvents, closes, lostCloses>>,
           Len(strategies') >= Len(strategies),
           \A q \in Process : q # p => pc'[q] = pc[q] /\ event'[q] = event[q],
           ~event[p].outcome, ~event'[p].outcome,
           pc'[p] \in {"setGroup", "insertEvent"} => event'[p].strategy \in Ids'
    PROVE  LedgerInv'
  <1>1. Ids \subseteq Ids'
    BY StrategiesGrow DEF LedgerInv
  <1>2. ASSUME NEW q \in Process PROVE Carries(q)'
    BY <1>1 DEF LedgerInv, Carries
  <1>3. \A id \in 1..MaxStrategies : Balance(id)'
    BY QuietBalance
  <1> QED BY <1>2, <1>3 DEF LedgerInv

(* What Goto and an assignment to one process's event do. *)
LEMMA OneMoves ==
    ASSUME LedgerTypes, NEW p \in Process, NEW l, Goto(p, l)
    PROVE  pc'[p] = l /\ \A q \in Process : q # p => pc'[q] = pc[q]
  BY DEF LedgerTypes, Goto

LEMMA CreateKeeps ==
    ASSUME LedgerInv, NEW p \in Process, NEW g \in Group \cup {NoGroup}, CreateStrategy(p, g)
    PROVE  LedgerInv'
  <1> DEFINE row == [status |-> "planning", stamped |-> FALSE, group |-> NoGroup]
  <1>1. /\ strategies' = Append(strategies, row) /\ Len(strategies) < MaxStrategies
        /\ pc[p] = "idle" /\ UNCHANGED <<strategyEvents, closes, lostCloses>>
    BY DEF CreateStrategy
  <1>2. row \in Strategy
    BY DEF Strategy, Status
  <1>3. /\ strategies' \in Seq(Strategy) /\ Len(strategies') = Len(strategies) + 1
        /\ Len(strategies') <= MaxStrategies /\ Len(strategies') \in Ids'
        /\ Len(strategies) \in Nat /\ Len(strategies') \in Nat
    BY <1>1, <1>2, StrategyLedgerAssumption DEF LedgerInv, LedgerTypes, Ids
  <1>4. ~event[p].outcome
    BY <1>1 DEF LedgerInv, Carries
  <1>5. CASE g = NoGroup
    <2>1. UNCHANGED <<pc, event, group>>
      BY <1>5 DEF CreateStrategy
    <2>2. LedgerTypes'
      BY <1>1, <1>3, <2>1 DEF LedgerInv, LedgerTypes
    <2> QED BY <1>1, <1>3, <1>4, <2>1, <2>2, PlainStep
  <1>6. CASE g # NoGroup
    <2>1. /\ Goto(p, "setGroup") /\ group' = [group EXCEPT ![p] = g]
          /\ event' = [event EXCEPT ![p].strategy = Len(strategies')]
      BY <1>6 DEF CreateStrategy
    <2>2. LedgerTypes'
      <3>1. event' \in [Process -> Locals]
        BY <1>3, <2>1 DEF LedgerInv, LedgerTypes, Locals
      <3> QED BY <1>1, <1>3, <2>1, <3>1 DEF LedgerInv, LedgerTypes, Goto
    <2>3. /\ event'[p].strategy = Len(strategies') /\ event'[p].outcome = event[p].outcome
          /\ \A q \in Process : q # p => event'[q] = event[q]
      BY <2>1 DEF LedgerInv, LedgerTypes, Locals
    <2>4. pc'[p] = "setGroup" /\ \A q \in Process : q # p => pc'[q] = pc[q]
      BY <2>1, OneMoves DEF LedgerInv
    <2> QED BY <1>1, <1>3, <1>4, <2>2, <2>3, <2>4, PlainStep
  <1> QED BY <1>5, <1>6

(* Rewriting one row gives a table of the same length. *)
LEMMA RowRewritten ==
    ASSUME LedgerTypes, NEW id \in Ids, NEW row \in Strategy,
           strategies' = [strategies EXCEPT ![id] = row]
    PROVE  strategies' \in Seq(Strategy) /\ Len(strategies') = Len(strategies)
  BY DEF LedgerTypes, Ids

LEMMA RowKeeps ==
    ASSUME LedgerInv,
           \/ \E p \in Process : SetStrategyGroup(p)
           \/ \E id \in Ids, status \in {"active", "observing"} : SetStrategyStatus(id, status)
    PROVE  LedgerInv'
  <1>1. CASE \E p \in Process : SetStrategyGroup(p)
    <2>1. PICK p \in Process : SetStrategyGroup(p)
      BY <1>1
    <2>2. /\ Goto(p, "idle") /\ event' = [event EXCEPT ![p] = NoEvent]
          /\ strategies' = [strategies EXCEPT ![event[p].strategy].group = group[p]]
          /\ group' = [group EXCEPT ![p] = NoGroup] /\ pc[p] = "setGroup"
          /\ UNCHANGED <<strategyEvents, closes, lostCloses>>
      BY <2>1 DEF SetStrategyGroup
    <2>3. strategies' \in Seq(Strategy) /\ Len(strategies') = Len(strategies)
      <3>1. event[p].strategy \in Ids /\ group[p] \in Group \cup {NoGroup}
        BY <2>2 DEF LedgerInv, LedgerTypes, Carries
      <3>2. strategies[event[p].strategy] \in Strategy
        BY <3>1 DEF LedgerInv, LedgerTypes, Ids
      <3>3. [strategies[event[p].strategy] EXCEPT !.group = group[p]] \in Strategy
        BY <3>1, <3>2 DEF Strategy
      <3> QED BY <2>2, <3>1, <3>3, RowRewritten DEF LedgerInv
    <2>4. LedgerTypes'
      BY <2>2, <2>3, NoteTypes DEF LedgerInv, LedgerTypes, Goto
    <2>5. /\ event'[p] = NoEvent /\ pc'[p] = "idle"
          /\ \A q \in Process : q # p => event'[q] = event[q] /\ pc'[q] = pc[q]
      BY <2>2, OneMoves DEF LedgerInv, LedgerTypes
    <2>6. ~event[p].outcome
      BY <2>2 DEF LedgerInv, Carries
    <2> QED BY <2>2, <2>3, <2>4, <2>5, <2>6, PlainStep, NoteTypes DEF LedgerInv, LedgerTypes
  <1>2. CASE \E id \in Ids, status \in {"active", "observing"} : SetStrategyStatus(id, status)
    <2>1. PICK id \in Ids, status \in {"active", "observing"} : SetStrategyStatus(id, status)
      BY <1>2
    <2>2. /\ strategies' = [strategies EXCEPT ![id].status = status]
          /\ UNCHANGED <<strategyEvents, pc, event, group, closes, lostCloses>>
      BY <2>1 DEF SetStrategyStatus
    <2>3. strategies' \in Seq(Strategy) /\ Len(strategies') = Len(strategies)
      <3>1. strategies[id] \in Strategy
        BY DEF LedgerInv, LedgerTypes, Ids
      <3>2. [strategies[id] EXCEPT !.status = status] \in Strategy
        BY <3>1 DEF Strategy, Status
      <3> QED BY <2>2, <3>2, RowRewritten DEF LedgerInv
    <2>4. LedgerTypes' /\ Ids' = Ids
      BY <2>2, <2>3 DEF LedgerInv, LedgerTypes, Ids
    <2>5. \A i \in 1..MaxStrategies : Balance(i)'
      BY <2>2, QuietBalance
    <2> QED BY <2>2, <2>4, <2>5 DEF LedgerInv, Carries
  <1> QED BY <1>1, <1>2

LEMMA StartKeeps ==
    ASSUME LedgerInv, NEW p \in Process, NEW e \in Locals, ~e.outcome, StartEvent(p, e)
    PROVE  LedgerInv'
  <1>1. /\ Goto(p, "checkStrategy") /\ event' = [event EXCEPT ![p] = e] /\ pc[p] = "idle"
        /\ UNCHANGED <<strategies, strategyEvents, group, closes, lostCloses>>
    BY DEF StartEvent
  <1>2. LedgerTypes'
    BY <1>1 DEF LedgerInv, LedgerTypes, Goto
  <1>3. /\ event'[p] = e /\ pc'[p] = "checkStrategy"
        /\ \A q \in Process : q # p => event'[q] = event[q] /\ pc'[q] = pc[q]
    BY <1>1, OneMoves DEF LedgerInv, LedgerTypes
  <1>4. ~event[p].outcome
    BY <1>1 DEF LedgerInv, Carries
  <1> QED BY <1>1, <1>2, <1>3, <1>4, PlainStep DEF LedgerInv, LedgerTypes

LEMMA LogKeeps ==
    ASSUME LedgerInv, NEW p \in Process, NEW id \in AnyId,
           \/ \E kind \in KindArg, note \in LogNote : StartLog(p, id, kind, note)
           \/ \E flags \in UsageArg : StartLogUsage(p, id, flags)
    PROVE  LedgerInv'
  <1>1. id \in Nat
    BY IdsBounded DEF AnyId, UnknownId, LedgerInv
  <1>2. ASSUME NEW kind, NEW note \in LogNote, StartLog(p, id, kind, note) PROVE LedgerInv'
    <2> DEFINE e == [strategy |-> id, kind |-> kind,
                     note |-> IF kind = "resource_usage" THEN note ELSE Unread,
                     outcome |-> FALSE, usage |-> NoUsage]
    <2>1. kind \in Kind /\ StartEvent(p, e)
      BY <1>2 DEF StartLog
    <2>2. (IF kind = "resource_usage" THEN note ELSE Unread) \in Note
      BY NoteTypes, StrategyLedgerAssumption
    <2>3. e \in Locals /\ ~e.outcome
      BY <1>1, <2>1, <2>2 DEF Locals
    <2> HIDE DEF e
    <2> QED BY <2>1, <2>3, StartKeeps
  <1>3. ASSUME NEW flags \in UsageArg, StartLogUsage(p, id, flags) PROVE LedgerInv'
    <2> DEFINE e == [strategy |-> id, kind |-> "resource_usage",
                     note |-> ResourceUsageNote(flags), outcome |-> FALSE, usage |-> flags]
    <2>1. StartEvent(p, e)
      BY <1>3 DEF StartLogUsage
    <2>2. e \in Locals /\ ~e.outcome
      BY <1>1, NoteTypes, StrategyLedgerAssumption DEF Locals, Kind
    <2> HIDE DEF e
    <2> QED BY <2>1, <2>2, StartKeeps
  <1> QED BY <1>2, <1>3

LEMMA CheckKeeps ==
    ASSUME LedgerInv, NEW p \in Process, CheckStrategy(p) PROVE LedgerInv'
  <1>1. /\ pc[p] = "checkStrategy"
        /\ UNCHANGED <<strategies, strategyEvents, group, closes, lostCloses>>
    BY DEF CheckStrategy
  <1>2. CASE event[p].strategy \in Ids
    <2>1. Goto(p, "insertEvent") /\ event' = event
      BY <1>2 DEF CheckStrategy
    <2>2. LedgerTypes' /\ Ids' = Ids
      BY <1>1, <2>1 DEF LedgerInv, LedgerTypes, Goto, Ids
    <2>3. pc'[p] = "insertEvent" /\ \A q \in Process : q # p => pc'[q] = pc[q]
      BY <2>1, OneMoves DEF LedgerInv
    <2>4. \A id \in 1..MaxStrategies : Balance(id)'
      BY <1>1, <2>1, QuietBalance
    <2>5. ASSUME NEW q \in Process PROVE Carries(q)'
      BY <1>1, <1>2, <2>1, <2>2, <2>3 DEF LedgerInv, Carries
    <2> QED BY <2>2, <2>4, <2>5 DEF LedgerInv
  <1>3. CASE event[p].strategy \notin Ids
    <2>1. Goto(p, "idle") /\ event' = [event EXCEPT ![p] = NoEvent]
      BY <1>3 DEF CheckStrategy
    <2>2. LedgerTypes'
      BY <1>1, <2>1, NoteTypes DEF LedgerInv, LedgerTypes, Goto
    <2>3. /\ event'[p] = NoEvent /\ pc'[p] = "idle"
          /\ \A q \in Process : q # p => event'[q] = event[q] /\ pc'[q] = pc[q]
      BY <2>1, OneMoves DEF LedgerInv, LedgerTypes
    <2>4. ~event[p].outcome
      BY <1>3 DEF LedgerInv, Carries
    <2>5. ~event'[p].outcome
      BY <2>3, NoteTypes
    <2>6. Len(strategies') >= Len(strategies)
      BY <1>1 DEF LedgerInv, LedgerTypes
    <2>7. ~(pc'[p] \in {"setGroup", "insertEvent"})
      BY <2>3
    <2> QED BY <1>1, <2>2, <2>3, <2>4, <2>5, <2>6, <2>7, PlainStep
  <1> QED BY <1>2, <1>3

LEMMA NextKeeps ==
    ASSUME LedgerInv, NEW p \in Process,
           (\E id \in Ids : StartNext(p, id)) \/ ReadRecent(p) \/ ReadLocks(p)
    PROVE  LedgerInv'
  <1>1. /\ UNCHANGED <<strategies, strategyEvents, event, group, closes, lostCloses>>
        /\ pc[p] \in {"idle", "readRecent", "readLocks"}
        /\ \E l \in {"readRecent", "readLocks", "idle"} : Goto(p, l)
    BY DEF StartNext, ReadRecent, ReadLocks
  <1>2. LedgerTypes'
    BY <1>1 DEF LedgerInv, LedgerTypes, Goto
  <1>3. /\ pc'[p] \in {"readRecent", "readLocks", "idle"}
        /\ \A q \in Process : q # p => pc'[q] = pc[q]
    BY <1>1, OneMoves DEF LedgerInv
  <1>4. ~event[p].outcome
    BY <1>1 DEF LedgerInv, Carries
  <1> QED BY <1>1, <1>2, <1>3, <1>4, PlainStep DEF LedgerInv, LedgerTypes

-----------------------------------------------------------------------------
(* The three steps that move a close *)

(* The numbers that a balance is made of. *)
LEMMA BalanceParts ==
    ASSUME LedgerInv, NEW x \in 1..MaxStrategies
    PROVE  /\ closes[x] \in Nat /\ lostCloses[x] \in Nat
           /\ Outcomes(x) \in Nat /\ Cardinality(Closing(x)) \in Nat
           /\ closes[x] = Outcomes(x) + Cardinality(Closing(x)) + lostCloses[x]
  BY FiniteParts DEF LedgerInv, LedgerTypes, Balance

LEMMA CloseKeeps ==
    ASSUME LedgerInv, NEW p \in Process, NEW id \in Ids, CloseStrategy(p, id)
    PROVE  LedgerInv'
  <1> DEFINE e == [strategy |-> id, kind |-> "reflection", note |-> Unread,
                    outcome |-> TRUE, usage |-> NoUsage]
             row == [strategies[id] EXCEPT !.status = "closed", !.stamped = TRUE]
  <1>1. /\ pc[p] = "idle" /\ Goto(p, "checkStrategy") /\ event' = [event EXCEPT ![p] = e]
        /\ closes' = [closes EXCEPT ![id] = @ + 1]
        /\ UNCHANGED <<strategyEvents, group, lostCloses>>
    BY DEF CloseStrategy
  <1>2. strategies' = [strategies EXCEPT ![id] = row]
    BY DEF CloseStrategy
  <1>3. id \in 1..MaxStrategies /\ id \in Nat
    BY IdsBounded DEF LedgerInv
  <1>4. e \in Locals /\ e.strategy = id /\ e.outcome
    BY <1>3, NoteTypes DEF Locals, Kind
  <1>5. strategies' \in Seq(Strategy) /\ Len(strategies') = Len(strategies)
    <2>1. strategies[id] \in Strategy
      BY DEF LedgerInv, LedgerTypes, Ids
    <2>2. row \in Strategy
      BY <2>1 DEF Strategy, Status
    <2> QED BY <1>2, <2>2, RowRewritten DEF LedgerInv
  <1> HIDE DEF e, row
  <1>6. LedgerTypes' /\ Ids' = Ids
    BY <1>1, <1>3, <1>4, <1>5 DEF LedgerInv, LedgerTypes, Goto, Ids
  <1>7. /\ event'[p] = e /\ pc'[p] = "checkStrategy"
        /\ \A q \in Process : q # p => event'[q] = event[q] /\ pc'[q] = pc[q]
    BY <1>1, OneMoves DEF LedgerInv, LedgerTypes
  <1>8. ASSUME NEW q \in Process PROVE Carries(q)'
    BY <1>4, <1>6, <1>7 DEF LedgerInv, Carries
  <1>9. ~event[p].outcome
    BY <1>1 DEF LedgerInv, Carries
  <1>10. ASSUME NEW x \in 1..MaxStrategies PROVE Balance(x)'
    <2>1. Outcomes(x)' = Outcomes(x)
      BY <1>1 DEF Outcomes
    <2>2. CASE x = id
      <3>1. Closing(x)' = Closing(x) \cup {p} /\ p \notin Closing(x)
        BY <1>4, <1>7, <1>9, <2>2 DEF Closing
      <3>2. Cardinality(Closing(x)') = Cardinality(Closing(x)) + 1
        BY <3>1, FiniteParts, CountGains DEF LedgerInv
      <3>3. closes'[x] = closes[x] + 1 /\ lostCloses'[x] = lostCloses[x]
        BY <1>1, <1>3, <2>2 DEF LedgerInv, LedgerTypes
      <3> QED BY <2>1, <3>2, <3>3, BalanceParts DEF Balance
    <2>3. CASE x # id
      <3>1. Closing(x)' = Closing(x)
        BY <1>4, <1>7, <1>9, <2>3 DEF Closing
      <3>2. closes'[x] = closes[x] /\ lostCloses'[x] = lostCloses[x]
        BY <1>1, <2>3 DEF LedgerInv, LedgerTypes
      <3> QED BY <2>1, <3>1, <3>2 DEF LedgerInv, Balance
    <2> QED BY <2>2, <2>3
  <1> QED BY <1>6, <1>8, <1>10 DEF LedgerInv

(* p gives up its locals: it no longer counts among those that close. *)
LEMMA LettingGo ==
    ASSUME LedgerInv, NEW p \in Process, event' = [event EXCEPT ![p] = NoEvent],
           NEW x \in 1..MaxStrategies
    PROVE  /\ event[p].outcome /\ event[p].strategy = x =>
                 Cardinality(Closing(x)') = Cardinality(Closing(x)) - 1
           /\ ~(event[p].outcome /\ event[p].strategy = x) =>
                 Closing(x)' = Closing(x)
  <1>1. /\ ~event'[p].outcome
        /\ \A q \in Process : q # p => event'[q] = event[q]
    BY NoteTypes DEF LedgerInv, LedgerTypes
  <1>2. CASE event[p].outcome /\ event[p].strategy = x
    <2>1. p \in Closing(x) /\ Closing(x)' = Closing(x) \ {p}
      BY <1>1, <1>2 DEF Closing
    <2> QED BY <1>2, <2>1, FiniteParts, CountLoses DEF LedgerInv
  <1>3. CASE ~(event[p].outcome /\ event[p].strategy = x)
    BY <1>1, <1>3 DEF Closing
  <1> QED BY <1>2, <1>3

LEMMA InsertKeeps ==
    ASSUME LedgerInv, NEW p \in Process, InsertEvent(p) PROVE LedgerInv'
  <1> DEFINE e == event[p]
             n == Len(strategyEvents) + 1
  <1>1. /\ pc[p] = "insertEvent" /\ strategyEvents' = Append(strategyEvents, e)
        /\ Goto(p, "idle") /\ event' = [event EXCEPT ![p] = NoEvent]
        /\ UNCHANGED <<strategies, group, closes, lostCloses>>
    BY DEF InsertEvent
  <1>2. e \in StrategyEvent
    <2>1. e \in Locals /\ e.strategy \in Ids
      BY <1>1 DEF LedgerInv, LedgerTypes, Carries
    <2>2. e.strategy \in Nat \ {0}
      BY <2>1, IdsBounded DEF LedgerInv
    <2> QED BY <2>1, <2>2 DEF Locals, StrategyEvent
  <1>3. /\ DOMAIN strategyEvents' = DOMAIN strategyEvents \cup {n}
        /\ n \notin DOMAIN strategyEvents /\ strategyEvents'[n] = e
        /\ strategyEvents' \in Seq(StrategyEvent)
        /\ \A i \in DOMAIN strategyEvents : strategyEvents'[i] = strategyEvents[i]
    BY <1>1, <1>2, AppendKeeps, PositionsFinite DEF LedgerInv, LedgerTypes
  <1>4. LedgerTypes' /\ Ids' = Ids
    BY <1>1, <1>3, NoteTypes DEF LedgerInv, LedgerTypes, Goto, Ids
  <1>5. /\ event'[p] = NoEvent /\ pc'[p] = "idle"
        /\ \A q \in Process : q # p => event'[q] = event[q] /\ pc'[q] = pc[q]
    BY <1>1, OneMoves DEF LedgerInv, LedgerTypes
  <1>6. ASSUME NEW q \in Process PROVE Carries(q)'
    BY <1>4, <1>5, NoteTypes DEF LedgerInv, Carries
  <1>7. ASSUME NEW x \in 1..MaxStrategies PROVE Balance(x)'
    <2> DEFINE S == {i \in DOMAIN strategyEvents :
                       strategyEvents[i].strategy = x /\ strategyEvents[i].outcome}
               T == {i \in DOMAIN strategyEvents' :
                       strategyEvents'[i].strategy = x /\ strategyEvents'[i].outcome}
    <2>1. Outcomes(x) = Cardinality(S) /\ Outcomes(x)' = Cardinality(T)
      BY DEF Outcomes
    <2>2. IsFiniteSet(S) /\ Cardinality(S) \in Nat /\ n \notin S
      BY <1>3, <2>1, FiniteParts DEF LedgerInv
    <2>3. closes' = closes /\ lostCloses' = lostCloses
      BY <1>1
    <2>4. CASE e.outcome /\ e.strategy = x
      <3>1. T = S \cup {n}
        BY <1>3, <2>4
      <3>2. Cardinality(T) = Cardinality(S) + 1
        BY <2>2, <3>1, CountGains
      <3>3. Cardinality(Closing(x)') = Cardinality(Closing(x)) - 1
        BY <1>1, <2>4, LettingGo
      <3> QED BY <2>1, <2>2, <2>3, <3>2, <3>3, BalanceParts DEF Balance
    <2>5. CASE ~(e.outcome /\ e.strategy = x)
      <3>1. T = S
        BY <1>3, <2>5
      <3>2. Closing(x)' = Closing(x)
        BY <1>1, <2>5, LettingGo
      <3> QED BY <2>1, <2>3, <3>1, <3>2 DEF LedgerInv, Balance
    <2> QED BY <2>4, <2>5
  <1> QED BY <1>4, <1>6, <1>7 DEF LedgerInv

LEMMA AbortKeeps ==
    ASSUME LedgerInv, NEW p \in Process, Abort(p) PROVE LedgerInv'
  <1>1. /\ Goto(p, "idle") /\ event' = [event EXCEPT ![p] = NoEvent]
        /\ group' = [group EXCEPT ![p] = NoGroup]
        /\ lostCloses' = IF event[p].outcome
                         THEN [lostCloses EXCEPT ![event[p].strategy] = @ + 1]
                         ELSE lostCloses
        /\ UNCHANGED <<strategies, strategyEvents, closes>>
    BY DEF Abort
  <1>2. event[p].outcome => event[p].strategy \in 1..MaxStrategies
    BY IdsBounded DEF LedgerInv, Carries
  <1>3. \A x \in 1..MaxStrategies :
            lostCloses'[x] = IF event[p].outcome /\ event[p].strategy = x
                             THEN lostCloses[x] + 1 ELSE lostCloses[x]
    BY <1>1, <1>2 DEF LedgerInv, LedgerTypes
  <1>4. LedgerTypes' /\ Ids' = Ids
    <2>1. lostCloses' \in [1..MaxStrategies -> Nat]
      BY <1>1, <1>2 DEF LedgerInv, LedgerTypes
    <2> QED BY <1>1, <2>1, NoteTypes DEF LedgerInv, LedgerTypes, Goto, Ids
  <1>5. /\ event'[p] = NoEvent /\ pc'[p] = "idle"
        /\ \A q \in Process : q # p => event'[q] = event[q] /\ pc'[q] = pc[q]
    BY <1>1, OneMoves DEF LedgerInv, LedgerTypes
  <1>6. ASSUME NEW q \in Process PROVE Carries(q)'
    BY <1>4, <1>5, NoteTypes DEF LedgerInv, Carries
  <1>7. ASSUME NEW x \in 1..MaxStrategies PROVE Balance(x)'
    <2>1. Outcomes(x)' = Outcomes(x) /\ closes' = closes
      BY <1>1 DEF Outcomes
    <2>2. CASE event[p].outcome /\ event[p].strategy = x
      <3>1. Cardinality(Closing(x)') = Cardinality(Closing(x)) - 1
        BY <1>1, <2>2, LettingGo
      <3> QED BY <1>3, <2>1, <2>2, <3>1, BalanceParts DEF Balance
    <2>3. CASE ~(event[p].outcome /\ event[p].strategy = x)
      <3>1. Closing(x)' = Closing(x)
        BY <1>1, <2>3, LettingGo
      <3> QED BY <1>3, <2>1, <2>3, <3>1 DEF LedgerInv, Balance
    <2> QED BY <2>2, <2>3
  <1> QED BY <1>4, <1>6, <1>7 DEF LedgerInv

-----------------------------------------------------------------------------
LEMMA LedgerInvInit == LedgerInit => LedgerInv
  <1> SUFFICES ASSUME LedgerInit PROVE LedgerInv
    OBVIOUS
  <1> USE DEF LedgerInit
  <1>1. LedgerTypes
    BY NoteTypes, StrategyLedgerAssumption DEF LedgerTypes
  <1>2. \A p \in Process : Carries(p)
    BY NoteTypes DEF Carries
  <1>3. ASSUME NEW id \in 1..MaxStrategies PROVE Balance(id)
    <2>1. Closing(id) = {}
      BY NoteTypes DEF Closing
    <2>2. {e \in DOMAIN strategyEvents :
              strategyEvents[e].strategy = id /\ strategyEvents[e].outcome} = {}
      OBVIOUS
    <2> QED BY <2>1, <2>2, FS_EmptySet DEF Balance, Outcomes
  <1> QED BY <1>1, <1>2, <1>3 DEF LedgerInv

LEMMA LedgerInvStep ==
    ASSUME LedgerInv, [LedgerNext]_ledgerVars PROVE LedgerInv'
  <1>1. CASE UNCHANGED ledgerVars
    <2>1. LedgerTypes' /\ Ids' = Ids /\ event' = event /\ pc' = pc
      BY <1>1 DEF ledgerVars, LedgerInv, LedgerTypes, Ids
    <2>2. \A id \in 1..MaxStrategies : Balance(id)'
      BY <1>1, QuietBalance DEF ledgerVars
    <2> QED BY <2>1, <2>2 DEF LedgerInv, Carries
  <1> QED BY <1>1, CreateKeeps, RowKeeps, LogKeeps, CheckKeeps, NextKeeps, CloseKeeps,
             InsertKeeps, AbortKeeps DEF LedgerNext

(* The inductive invariant: a close is with its process, in the log, or    *)
(* lost, and only a process that closes carries an outcome.                *)
THEOREM LedgerInvAlways == LedgerSpec => []LedgerInv
  BY LedgerInvInit, LedgerInvStep, PTL DEF LedgerSpec

(* Every close of a strategy leads to one outcome event, or is cut short,  *)
(* however many processes close, reopen and log at once                    *)
(* (strategy.go:193-205, 212-236).                                         *)
THEOREM EveryCloseIsAccountedFor == LedgerSpec => []EveryCloseIsTraced
  <1>1. LedgerInv => EveryCloseIsTraced
    BY IdsBounded DEF LedgerInv, Balance, EveryCloseIsTraced
  <1> QED BY <1>1, LedgerInvAlways, PTL

-----------------------------------------------------------------------------
(* Wrap: the remainder that an int64 keeps *)

(* Division with a remainder, and that there is only one. *)
LEMMA Remainder ==
    ASSUME NEW n \in Int, NEW M \in Nat \ {0}
    PROVE  n % M \in 0..(M - 1) /\ \E k \in Int : n = (k * M) + (n % M)
  <1>1. n % M \in 0..(M - 1)
    OBVIOUS
  <1>2. n = ((n \div M) * M) + (n % M) /\ n \div M \in Int
    OBVIOUS
  <1> QED BY <1>1, <1>2

LEMMA RemainderIs ==
    ASSUME NEW M \in Nat \ {0}, NEW r \in 0..(M - 1), NEW k \in Int
    PROVE  ((k * M) + r) % M = r
  OBVIOUS

(* Wrap subtracts some multiple of 2^64 ... *)
LEMMA WrapShifts ==
    ASSUME NEW n \in Int
    PROVE  /\ Wrap(n) \in (-IntHalf)..(IntHalf - 1)
           /\ \E k \in Int : n = Wrap(n) + k * (2 * IntHalf)
  <1> DEFINE M == 2 * IntHalf
  <1>1. M \in Nat \ {0} /\ n + IntHalf \in Int /\ IntHalf \in Int
    BY GoIntAssumption
  <1>2. CASE n \in (-IntHalf)..(IntHalf - 1)
    <2>1. Wrap(n) = n /\ n = n + 0 * M
      BY <1>2, <1>1 DEF Wrap
    <2> QED BY <1>2, <2>1
  <1>3. CASE n \notin (-IntHalf)..(IntHalf - 1)
    <2>1. Wrap(n) = ((n + IntHalf) % M) - IntHalf
      BY <1>3 DEF Wrap
    <2> HIDE DEF M
    <2>2. /\ (n + IntHalf) % M \in 0..(M - 1)
          /\ \E k \in Int : n + IntHalf = (k * M) + ((n + IntHalf) % M)
      BY <1>1, Remainder
    <2>3. PICK k \in Int : n + IntHalf = (k * M) + ((n + IntHalf) % M)
      BY <2>2
    <2>4. k * M \in Int
      BY <1>1
    <2>5. n = Wrap(n) + (k * M)
      BY <1>1, <2>1, <2>2, <2>3, <2>4
    <2>6. Wrap(n) \in (-IntHalf)..(IntHalf - 1)
      BY <1>1, <2>1, <2>2 DEF M
    <2> QED BY <2>5, <2>6 DEF M
  <1> QED BY <1>2, <1>3

(* ... and nothing else in the range differs by one. *)
LEMMA WrapIs ==
    ASSUME NEW m \in (-IntHalf)..(IntHalf - 1), NEW k \in Int
    PROVE  Wrap(m + k * (2 * IntHalf)) = m
  <1> DEFINE M == 2 * IntHalf
             n == m + (k * M)
  <1>1. M \in Nat \ {0} /\ IntHalf \in Int /\ m \in Int /\ m + IntHalf \in 0..(M - 1)
    BY GoIntAssumption
  <1>2. k * M \in Int /\ n \in Int
    BY <1>1
  <1>3. CASE n \in (-IntHalf)..(IntHalf - 1)
    <2>1. -M < k * M /\ k * M < M
      BY <1>1, <1>2, <1>3
    <2>2. k = 0
      <3> HIDE DEF M
      <3> QED BY <1>1, <2>1
    <2> QED BY <1>3, <2>2, <1>1 DEF Wrap
  <1>4. CASE n \notin (-IntHalf)..(IntHalf - 1)
    <2>1. Wrap(n) = ((n + IntHalf) % M) - IntHalf
      BY <1>4 DEF Wrap
    <2>2. n + IntHalf = (k * M) + (m + IntHalf)
      BY <1>1, <1>2
    <2>3. ((k * M) + (m + IntHalf)) % M = m + IntHalf
      <3> HIDE DEF M
      <3> QED BY <1>1, RemainderIs
    <2>4. Wrap(n) = m
      <3> HIDE DEF M
      <3> QED BY <1>1, <2>1, <2>2, <2>3
    <2> QED BY <2>4
  <1> QED BY <1>3, <1>4

(* To wrap a sum as it grows is to wrap it at the end. *)
LEMMA WrapAdds ==
    ASSUME NEW a \in Int, NEW b \in Int
    PROVE  Wrap(Wrap(a) + b) = Wrap(a + b)
  <1> DEFINE M == 2 * IntHalf
  <1>1. PICK k \in Int : a = Wrap(a) + k * M
    BY WrapShifts
  <1>2. PICK j \in Int : Wrap(a) + b = Wrap(Wrap(a) + b) + j * M
    BY WrapShifts
  <1>3. /\ M \in Int /\ Wrap(a) \in Int
        /\ Wrap(Wrap(a) + b) \in (-IntHalf)..(IntHalf - 1) /\ Wrap(Wrap(a) + b) \in Int
    BY WrapShifts, GoIntAssumption
  <1> DEFINE w == Wrap(Wrap(a) + b)
  <1>4. a + b = w + (k + j) * M
    <2> HIDE DEF M, w
    <2>1. k * M \in Int /\ j * M \in Int /\ (k + j) * M = (k * M) + (j * M)
      BY <1>3
    <2> QED BY <1>1, <1>2, <1>3, <2>1 DEF w
  <1>5. Wrap(w + (k + j) * M) = w
    BY <1>3, WrapIs
  <1> QED BY <1>4, <1>5

-----------------------------------------------------------------------------
(* Notes: what is written and what is read back *)

Keys == {"harness", "tokens", "cost", "", "other"}

LEMMA FieldIs ==
    ASSUME NEW field \in Field
    PROVE  /\ field.key \in Keys
           /\ field.key = "harness" => field.name \in HarnessValue
           /\ field.key = "tokens" => field.amount \in Int
  BY DEF Field, Keys

(* The greatest position is chosen. *)
LEMMA LastCounts ==
    ASSUME NEW note \in Seq(Field), NEW key, NEW i \in Fields(note, key),
           \A j \in Fields(note, key) : j <= i
    PROVE  Last(note, key) = note[i]
  <1>1. Fields(note, key) \subseteq Nat
    BY DEF Fields
  <1>2. ASSUME NEW k \in Fields(note, key), \A j \in Fields(note, key) : j <= k
        PROVE  k = i
    BY <1>1, <1>2
  <1>3. (CHOOSE k \in Fields(note, key) : \A j \in Fields(note, key) : j <= k) = i
    BY <1>2
  <1> QED BY <1>3 DEF Last

LEMMA LastExists ==
    ASSUME NEW note \in Seq(Field), NEW key, Fields(note, key) # {}
    PROVE  \E i \in Fields(note, key) :
              /\ i \in 1..Len(note) /\ note[i] \in Field /\ note[i].key = key
              /\ \A j \in Fields(note, key) : j <= i
              /\ Last(note, key) = note[i]
  <1> DEFINE F == Fields(note, key)
  <1>1. /\ Len(note) \in Nat /\ F \subseteq Nat
        /\ \A j \in F : j <= Len(note) /\ j \in 1..Len(note) /\ note[j] \in Field /\ note[j].key = key
    BY DEF Fields
  <1> HIDE DEF F
  <1>2. PICK i \in F : \A j \in F : j <= i
    BY <1>1, GreatestElement DEF F
  <1>3. Last(note, key) = note[i]
    BY <1>2, LastCounts DEF F
  <1> QED BY <1>1, <1>2, <1>3 DEF F

-----------------------------------------------------------------------------
(* What the parser makes of any note *)

Parsed == [ok : BOOLEAN, harness : HarnessValue, tokens : Int, seen : SUBSET Keys]

LEMMA ParseFieldType ==
    /\ Unparsed \in Parsed
    /\ \A p \in Parsed, field \in Field : ParseField(p, field) \in Parsed
  <1>1. Unparsed \in Parsed
    BY DEF Unparsed, Parsed, HarnessValue
  <1>2. ASSUME NEW p \in Parsed, NEW field \in Field PROVE ParseField(p, field) \in Parsed
    <2>1. /\ field.key \in Keys
          /\ field.key = "harness" => field.name \in HarnessValue
          /\ field.key = "tokens" => field.amount \in Int
      BY FieldIs
    <2>2. Assign(p, field) \in Parsed
      BY <2>1 DEF Assign, Parsed
    <2>3. [p EXCEPT !.ok = FALSE] \in Parsed
      BY DEF Parsed
    <2> QED BY <2>2, <2>3 DEF ParseField
  <1> QED BY <1>1, <1>2

(* The rounds of the loop, and the refusals after it. *)
LEMMA ParseByLoop ==
    ASSUME NEW note \in Seq(Field)
    PROVE  \E f \in [0..Len(note) -> Parsed] :
              /\ f[0] = Unparsed
              /\ \A n \in 1..Len(note) : f[n] = ParseField(f[n - 1], note[n])
              /\ LET p == f[Len(note)]
                 IN  ParseResourceUsageNote(note) =
                        [p EXCEPT !.ok = @ /\ "harness" \in p.seen /\ p.harness # Empty
                                           /\ "tokens" \in p.seen]
  <1> DEFINE N == Len(note)
             step == [n \in 1..N |-> [v \in Parsed |-> ParseField(v, note[n])]]
             Rounds(f) == [n \in 0..N |-> IF n = 0 THEN Unparsed
                                          ELSE ParseField(f[n - 1], note[n])]
             Refused(p) == [p EXCEPT !.ok = @ /\ "harness" \in p.seen /\ p.harness # Empty
                                              /\ "tokens" \in p.seen]
  <1>1. N \in Nat /\ Unparsed \in Parsed /\ \A n \in 1..N : note[n] \in Field
    BY ParseFieldType
  <1>2. step \in [1..N -> [Parsed -> Parsed]]
    <2>1. ASSUME NEW n \in 1..N, NEW v \in Parsed PROVE ParseField(v, note[n]) \in Parsed
      BY <1>1, ParseFieldType
    <2> HIDE DEF N
    <2> QED BY <2>1
  <1>3. PICK f \in [0..N -> Parsed] : Loop(f, N, Unparsed, step)
    <2> HIDE DEF step, N
    <2> QED BY <1>1, <1>2, LoopExists
  <1>4. f[0] = Unparsed /\ \A n \in 1..N : f[n] = ParseField(f[n - 1], note[n])
    <2>1. ASSUME NEW n \in 1..N PROVE f[n] = ParseField(f[n - 1], note[n])
      <3>1. f[n] = step[n][f[n - 1]]
        BY <1>3 DEF Loop
      <3>2. f[n - 1] \in Parsed
        OBVIOUS
      <3> HIDE DEF N
      <3> QED BY <3>1, <3>2
    <2> QED BY <1>3, <2>1 DEF Loop
  <1>5. f = Rounds(f)
    <2>1. ASSUME NEW n \in 0..N PROVE f[n] = Rounds(f)[n]
      <3>1. n = 0 \/ n \in 1..N
        OBVIOUS
      <3> HIDE DEF N
      <3> QED BY <1>4, <3>1
    <2>2. Rounds(f) = [n \in 0..N |-> Rounds(f)[n]] /\ f = [n \in 0..N |-> f[n]]
      OBVIOUS
    <2> HIDE DEF Rounds
    <2> QED BY <2>1, <2>2
  <1>6. PICK g : g = Rounds(g) /\ ParseResourceUsageNote(note) = Refused(g[N])
    BY <1>5 DEF ParseResourceUsageNote
  <1> DEFINE T == {n \in 0..N : f[n] = g[n]}
  <1>7. \A n \in 0..N : n \in T
    <2>1. 0 \in T
      BY <1>1, <1>4, <1>6
    <2>2. ASSUME NEW n \in 1..N, n - 1 \in T PROVE n \in T
      <3>1. n \in 0..N /\ n # 0 /\ f[n - 1] = g[n - 1]
        BY <2>2
      <3>2. g[n] = ParseField(g[n - 1], note[n])
        <4> HIDE DEF N
        <4> QED BY <1>6, <3>1
      <3> QED BY <1>4, <3>1, <3>2
    <2> HIDE DEF T, N
    <2> QED BY <1>1, <2>1, <2>2, CountingUp
  <1>8. ParseResourceUsageNote(note) = Refused(f[N])
    BY <1>1, <1>6, <1>7
  <1> WITNESS f \in [0..N -> Parsed]
  <1> QED BY <1>4, <1>8

(* What the loop has made of the first n fields. *)
ReadUpTo(note, n, p) ==
    /\ p.ok <=> \A i \in 1..n : Legible(note[i])
    /\ p.ok => \A key : key \in p.seen <=> \E i \in 1..n : note[i].key = key
    /\ p.ok => \A i \in 1..n :
                  (note[i].key = "harness" /\ \A j \in (i + 1)..n : note[j].key # "harness")
                      => p.harness = note[i].name
    /\ p.ok => \A i \in 1..n :
                  (note[i].key = "tokens" /\ \A j \in (i + 1)..n : note[j].key # "tokens")
                      => p.tokens = note[i].amount

LEMMA OneMoreField ==
    ASSUME NEW note \in Seq(Field), NEW n \in 1..Len(note), NEW p \in Parsed,
           ReadUpTo(note, n - 1, p)
    PROVE  ReadUpTo(note, n, ParseField(p, note[n]))
  <1> DEFINE q == ParseField(p, note[n])
  <1>1. /\ n \in Nat \ {0} /\ \A i : i \in 1..n <=> i \in 1..(n - 1) \/ i = n
        /\ \A i \in 1..(n - 1) : n \in (i + 1)..n /\ i \in Int
        /\ \A i \in 1..(n - 1) : \A j : j \in (i + 1)..n <=> j \in (i + 1)..(n - 1) \/ j = n
        /\ \A j : ~(j \in (n + 1)..n)
    OBVIOUS
  <1>2. q \in Parsed
    BY ParseFieldType
  <1>3. CASE ~(p.ok /\ Legible(note[n]))
    <2>1. ~q.ok
      BY <1>3 DEF ParseField, Parsed
    <2>2. ~(\A i \in 1..n : Legible(note[i]))
      BY <1>1, <1>3 DEF ReadUpTo
    <2> HIDE DEF q
    <2>3. ReadUpTo(note, n, q)
      BY <2>1, <2>2 DEF ReadUpTo
    <2> QED BY <2>3 DEF q
  <1>4. CASE p.ok /\ Legible(note[n])
    <2>1. /\ q.ok /\ q.seen = p.seen \cup {note[n].key}
          /\ q.harness = IF note[n].key = "harness" THEN note[n].name ELSE p.harness
          /\ q.tokens = IF note[n].key = "tokens" THEN note[n].amount ELSE p.tokens
      BY <1>4 DEF ParseField, Assign, Parsed
    <2> HIDE DEF q
    <2>2. \A i \in 1..n : Legible(note[i])
      BY <1>1, <1>4 DEF ReadUpTo
    <2>3. \A key : key \in q.seen <=> \E i \in 1..n : note[i].key = key
      BY <1>1, <1>4, <2>1 DEF ReadUpTo
    <2>4. ASSUME NEW i \in 1..n, note[i].key = "harness",
                 \A j \in (i + 1)..n : note[j].key # "harness"
          PROVE  q.harness = note[i].name
      <3>1. CASE i = n
        BY <2>1, <2>4, <3>1
      <3>2. CASE i # n
        BY <1>1, <1>4, <2>1, <2>4, <3>2 DEF ReadUpTo
      <3> QED BY <3>1, <3>2
    <2>5. ASSUME NEW i \in 1..n, note[i].key = "tokens",
                 \A j \in (i + 1)..n : note[j].key # "tokens"
          PROVE  q.tokens = note[i].amount
      <3>1. CASE i = n
        BY <2>1, <2>5, <3>1
      <3>2. CASE i # n
        BY <1>1, <1>4, <2>1, <2>5, <3>2 DEF ReadUpTo
      <3> QED BY <3>1, <3>2
    <2>6. ReadUpTo(note, n, q)
      BY <2>1, <2>2, <2>3, <2>4, <2>5 DEF ReadUpTo
    <2> QED BY <2>6 DEF q
  <1> QED BY <1>3, <1>4

(* The parser accepts a note when it is a usage line as a whole, and makes *)
(* out the last harness and the last amount in it.                         *)
LEMMA ParseIs ==
    ASSUME NEW note \in Seq(Field), NEW name
    PROVE  LET p == ParseResourceUsageNote(note)
           IN  /\ p.ok /\ p.harness = name <=> SpeaksOf(note, name)
               /\ SpeaksOf(note, name) => p.tokens = Last(note, "tokens").amount
               /\ p.tokens \in Int
  <1> DEFINE N == Len(note)
             parsed == ParseResourceUsageNote(note)
  <1>1. PICK f \in [0..N -> Parsed] :
              /\ f[0] = Unparsed
              /\ \A n \in 1..N : f[n] = ParseField(f[n - 1], note[n])
              /\ parsed = [f[N] EXCEPT !.ok = @ /\ "harness" \in f[N].seen
                                                /\ f[N].harness # Empty
                                                /\ "tokens" \in f[N].seen]
    BY ParseByLoop
  <1> DEFINE T == {n \in 0..N : ReadUpTo(note, n, f[n])}
             p == f[N]
  <1>2. N \in Nat /\ N \in 0..N /\ DOMAIN note = 1..N
    OBVIOUS
  <1>3. \A n \in 0..N : n \in T
    <2>1. ReadUpTo(note, 0, Unparsed)
      BY DEF ReadUpTo, Unparsed
    <2>2. 0 \in T
      BY <1>1, <1>2, <2>1
    <2>3. ASSUME NEW n \in 1..N, n - 1 \in T PROVE n \in T
      <3>1. f[n - 1] \in Parsed /\ f[n] = ParseField(f[n - 1], note[n]) /\ n \in 0..N
        BY <1>1
      <3>2. ReadUpTo(note, n - 1, f[n - 1])
        BY <2>3
      <3> QED BY <3>1, <3>2, OneMoreField
    <2> HIDE DEF T, N
    <2> QED BY <1>2, <2>2, <2>3, CountingUp
  <1>4. p \in Parsed /\ ReadUpTo(note, N, p)
    BY <1>2, <1>3
  <1>5. /\ parsed.ok <=> /\ p.ok /\ "harness" \in p.seen /\ p.harness # Empty
                         /\ "tokens" \in p.seen
        /\ parsed.harness = p.harness /\ parsed.tokens = p.tokens
        /\ p.tokens \in Int /\ p.ok \in BOOLEAN
    BY <1>1, <1>4 DEF Parsed
  <1> HIDE DEF parsed, p, N
  <1>6. p.ok <=> \A i \in DOMAIN note : Legible(note[i])
    BY <1>2, <1>4 DEF ReadUpTo
  <1>7. ASSUME p.ok, NEW key PROVE key \in p.seen <=> Fields(note, key) # {}
    BY <1>2, <1>4, <1>7 DEF ReadUpTo, Fields
  <1>8. ASSUME p.ok, Fields(note, "harness") # {}
        PROVE  p.harness = Last(note, "harness").name
    <2>1. PICK i \in Fields(note, "harness") :
                /\ i \in 1..N /\ note[i].key = "harness"
                /\ \A j \in Fields(note, "harness") : j <= i
                /\ Last(note, "harness") = note[i]
      BY <1>8, LastExists DEF N
    <2>2. \A j \in (i + 1)..N : note[j].key # "harness"
      BY <1>2, <2>1 DEF Fields
    <2> QED BY <1>4, <1>8, <2>1, <2>2 DEF ReadUpTo
  <1>9. ASSUME p.ok, Fields(note, "tokens") # {}
        PROVE  p.tokens = Last(note, "tokens").amount
    <2>1. PICK i \in Fields(note, "tokens") :
                /\ i \in 1..N /\ note[i].key = "tokens"
                /\ \A j \in Fields(note, "tokens") : j <= i
                /\ Last(note, "tokens") = note[i]
      BY <1>9, LastExists DEF N
    <2>2. \A j \in (i + 1)..N : note[j].key # "tokens"
      BY <1>2, <2>1 DEF Fields
    <2> QED BY <1>4, <1>9, <2>1, <2>2 DEF ReadUpTo
  <1>10. parsed.ok /\ parsed.harness = name <=> SpeaksOf(note, name)
    BY <1>5, <1>6, <1>7, <1>8 DEF SpeaksOf
  <1>11. SpeaksOf(note, name) => parsed.tokens = Last(note, "tokens").amount
    BY <1>5, <1>6, <1>9 DEF SpeaksOf
  <1> QED BY <1>5, <1>10, <1>11 DEF parsed

-----------------------------------------------------------------------------
(* What a line of log-usage says *)

(* The shape of a note that log-usage writes. *)
LEMMA NoteShape ==
    ASSUME NEW flags \in UsageFlags
    PROVE  LET note == ResourceUsageNote(flags)
               rest == flags.harness.rest
               L == Len(rest)
           IN  /\ L \in Nat /\ DOMAIN rest = 1..L /\ flags.tokens \in Int
               /\ note \in Seq(Field) /\ DOMAIN note = 1..(IF flags.cost THEN L + 3 ELSE L + 2)
               /\ note[1] = [key |-> "harness", name |-> flags.harness.name]
               /\ \A i \in 1..L : note[i + 1] = rest[i]
               /\ note[L + 2] = [key |-> "tokens", amount |-> flags.tokens]
               /\ flags.cost => note[L + 3] = [key |-> "cost", number |-> TRUE]
  <1> DEFINE first == [key |-> "harness", name |-> flags.harness.name]
             amount == [key |-> "tokens", amount |-> flags.tokens]
             cost == [key |-> "cost", number |-> TRUE]
             rest == flags.harness.rest
  <1>1. /\ flags.harness.name \in HarnessValue /\ rest \in Seq(Field)
        /\ flags.tokens \in Int /\ flags.cost \in BOOLEAN
    BY GoIntAssumption DEF UsageFlags, HarnessArg, Note
  <1>2. first \in Field /\ amount \in Field /\ cost \in Field
    BY <1>1 DEF Field
  <1> HIDE DEF first, amount, cost, rest
  <1>3. ResourceUsageNote(flags) = <<first>> \o rest \o <<amount>>
                                      \o IF flags.cost THEN <<cost>> ELSE <<>>
    BY DEF ResourceUsageNote, first, amount, cost, rest
  <1> DEFINE upTo == <<first>> \o rest \o <<amount>>
             L == Len(rest)
  <1>4. /\ upTo \in Seq(Field) /\ L \in Nat /\ Len(upTo) = L + 2 /\ DOMAIN rest = 1..L
        /\ upTo[1] = first /\ \A i \in 1..L : upTo[i + 1] = rest[i]
        /\ upTo[L + 2] = amount
    BY <1>1, <1>2
  <1> HIDE DEF upTo, L
  <1>5. CASE flags.cost
    <2>1. ResourceUsageNote(flags) = upTo \o <<cost>>
      BY <1>3, <1>5 DEF upTo
    <2> HIDE DEF upTo
    <2> DEFINE note == upTo \o <<cost>>
    <2>2. /\ note \in Seq(Field) /\ Len(note) = L + 3 /\ note[L + 3] = cost
          /\ \A i \in 1..(L + 2) : note[i] = upTo[i]
      BY <1>2, <1>4
    <2>3. DOMAIN note = 1..(L + 3)
      BY <2>2
    <2> HIDE DEF note
    <2>4. /\ 1 \in 1..(L + 2) /\ L + 2 \in 1..(L + 2)
          /\ \A i \in 1..L : i + 1 \in 1..(L + 2)
      BY <1>4
    <2>5. note[1] = first /\ note[L + 2] = amount /\ \A i \in 1..L : note[i + 1] = rest[i]
      BY <1>4, <2>2, <2>4
    <2>6. ResourceUsageNote(flags) = note
      BY <2>1 DEF note
    <2> QED BY <1>1, <1>4, <1>5, <2>2, <2>3, <2>5, <2>6 DEF first, amount, cost, rest, L
  <1>6. CASE ~flags.cost
    <2>1. ResourceUsageNote(flags) = upTo \o <<>>
      BY <1>3, <1>6 DEF upTo
    <2>2. upTo \o <<>> = upTo
      BY <1>4
    <2>3. DOMAIN upTo = 1..(L + 2)
      BY <1>4
    <2> QED BY <1>1, <1>4, <1>6, <2>1, <2>2, <2>3 DEF first, amount, rest, L
  <1> QED BY <1>1, <1>5, <1>6

(* The amount is the last of its key, whatever the harness contains, and   *)
(* the line is accepted when the words of the harness are.                 *)
LEMMA AmountIsRead ==
    ASSUME NEW flags \in UsageFlags, flags.tokens >= 0
    PROVE  LET note == ResourceUsageNote(flags)
               rest == flags.harness.rest
           IN  /\ (\A i \in DOMAIN note : Legible(note[i])) <=> \A i \in DOMAIN rest : Legible(rest[i])
               /\ Fields(note, "tokens") # {}
               /\ Last(note, "tokens").amount = flags.tokens
  <1> DEFINE note == ResourceUsageNote(flags)
             rest == flags.harness.rest
             L == Len(rest)
  <1>1. /\ L \in Nat /\ DOMAIN rest = 1..L /\ flags.tokens \in Int
        /\ note \in Seq(Field) /\ DOMAIN note = 1..(IF flags.cost THEN L + 3 ELSE L + 2)
        /\ note[1] = [key |-> "harness", name |-> flags.harness.name]
        /\ \A i \in 1..L : note[i + 1] = rest[i]
        /\ note[L + 2] = [key |-> "tokens", amount |-> flags.tokens]
        /\ flags.cost => note[L + 3] = [key |-> "cost", number |-> TRUE]
    BY NoteShape
  <1>2. flags.tokens \in 0..(IntHalf - 1)
    BY GoIntAssumption DEF UsageFlags
  <1> HIDE DEF note, rest, L
  <1>3. /\ Legible(note[1]) /\ Legible(note[L + 2])
        /\ flags.cost => Legible(note[L + 3])
    BY <1>1, <1>2 DEF Legible
  <1>4. (\A i \in DOMAIN note : Legible(note[i])) <=> \A i \in DOMAIN rest : Legible(rest[i])
    <2>1. ASSUME \A i \in DOMAIN note : Legible(note[i]), NEW i \in DOMAIN rest
          PROVE  Legible(rest[i])
      <3>1. i + 1 \in DOMAIN note /\ note[i + 1] = rest[i]
        BY <1>1
      <3> QED BY <2>1, <3>1
    <2>2. ASSUME \A i \in DOMAIN rest : Legible(rest[i]), NEW i \in DOMAIN note
          PROVE  Legible(note[i])
      <3>1. \/ i = 1 \/ i = L + 2 \/ (i = L + 3 /\ flags.cost)
            \/ i - 1 \in DOMAIN rest /\ (i - 1) + 1 = i
        BY <1>1
      <3>2. i - 1 \in DOMAIN rest /\ (i - 1) + 1 = i => note[i] = rest[i - 1]
        BY <1>1
      <3> QED BY <1>3, <2>2, <3>1, <3>2
    <2> QED BY <2>1, <2>2
  <1>5. L + 2 \in Fields(note, "tokens") /\ \A j \in Fields(note, "tokens") : j <= L + 2
    <2>1. L + 2 \in DOMAIN note /\ note[L + 2].key = "tokens"
      BY <1>1
    <2>2. ASSUME NEW j \in Fields(note, "tokens") PROVE j <= L + 2
      <3>1. j \in DOMAIN note /\ note[j].key = "tokens"
        BY DEF Fields
      <3>2. flags.cost => j # L + 3
        BY <1>1, <3>1
      <3> QED BY <1>1, <3>1, <3>2
    <2> QED BY <2>1, <2>2 DEF Fields
  <1>6. Last(note, "tokens").amount = flags.tokens
    <2>1. Last(note, "tokens") = note[L + 2]
      BY <1>1, <1>5, LastCounts
    <2> QED BY <1>1, <2>1
  <1> QED BY <1>4, <1>5, <1>6 DEF note, rest

(* The name is the harness's own unless a later word of it names another. *)
LEMMA HarnessIsRead ==
    ASSUME NEW flags \in UsageFlags, NEW name
    PROVE  LET note == ResourceUsageNote(flags)
               rest == flags.harness.rest
               naming == {i \in DOMAIN rest : rest[i].key = "harness"}
           IN  /\ Fields(note, "harness") # {}
               /\ Last(note, "harness").name = name <=>
                     \/ naming = {} /\ name = flags.harness.name
                     \/ \E i \in naming : rest[i].name = name /\ \A j \in naming : j <= i
  <1> DEFINE note == ResourceUsageNote(flags)
             rest == flags.harness.rest
             L == Len(rest)
             naming == {i \in DOMAIN rest : rest[i].key = "harness"}
             F == Fields(note, "harness")
  <1>1. /\ L \in Nat /\ DOMAIN rest = 1..L
        /\ note \in Seq(Field) /\ DOMAIN note = 1..(IF flags.cost THEN L + 3 ELSE L + 2)
        /\ note[1] = [key |-> "harness", name |-> flags.harness.name]
        /\ \A i \in 1..L : note[i + 1] = rest[i]
        /\ note[L + 2] = [key |-> "tokens", amount |-> flags.tokens]
        /\ flags.cost => note[L + 3] = [key |-> "cost", number |-> TRUE]
    BY NoteShape
  <1> HIDE DEF note, rest, L
  <1>2. ASSUME NEW i PROVE i \in F <=> i = 1 \/ (i - 1 \in naming /\ i \in Int)
    <2>1. i \in F <=> i \in DOMAIN note /\ note[i].key = "harness"
      BY DEF Fields
    <2>2. CASE i \notin Int
      BY <1>1, <2>1, <2>2
    <2>3. CASE i \in Int /\ i # 1
      <3>1. i - 1 \in naming <=> i - 1 \in 1..L /\ rest[i - 1].key = "harness"
        BY <1>1
      <3>2. i - 1 \in 1..L => note[(i - 1) + 1] = rest[i - 1] /\ (i - 1) + 1 = i
        BY <1>1, <2>3
      <3>3. /\ i = L + 2 => note[i].key # "harness"
            /\ i = L + 3 /\ flags.cost => note[i].key # "harness"
        BY <1>1
      <3>4. i \in DOMAIN note <=> i - 1 \in 1..L \/ i = L + 2 \/ (i = L + 3 /\ flags.cost)
        BY <1>1, <2>3
      <3> HIDE DEF naming, F
      <3> QED BY <1>1, <2>1, <2>3, <3>1, <3>2, <3>3, <3>4
    <2>4. CASE i = 1
      BY <1>1, <2>1, <2>4
    <2> QED BY <2>2, <2>3, <2>4
  <1>3. naming \subseteq Nat /\ \A i \in naming : i <= L
    BY <1>1
  <1>4. \A i \in naming : i \in Int /\ note[i + 1] = rest[i]
    BY <1>1
  <1> HIDE DEF naming, F
  <1>5. 1 \in F
    BY <1>2
  <1>6. CASE naming = {}
    <2>1. \A j \in F : j <= 1
      BY <1>2, <1>6
    <2>2. Last(note, "harness") = note[1]
      BY <1>1, <1>5, <2>1, LastCounts DEF F
    <2>3. note[1].name = flags.harness.name
      BY <1>1
    <2> QED BY <1>5, <1>6, <2>2, <2>3 DEF note, rest, naming, F
  <1>7. CASE naming # {}
    <2>1. PICK m \in naming : \A j \in naming : j <= m
      BY <1>1, <1>3, <1>7, GreatestElement
    <2>2. m + 1 \in F /\ \A j \in F : j <= m + 1
      <3>1. m \in Nat /\ (m + 1) - 1 = m /\ m + 1 \in Int
        BY <1>3
      <3>2. m + 1 \in F
        BY <1>2, <3>1
      <3>3. ASSUME NEW j \in F PROVE j <= m + 1
        <4>1. CASE j = 1
          BY <3>1, <4>1
        <4>2. CASE j - 1 \in naming /\ j \in Int
          <5>1. j - 1 <= m
            BY <2>1, <4>2
          <5> QED BY <3>1, <4>2, <5>1
        <4> QED BY <1>2, <4>1, <4>2
      <3> QED BY <3>2, <3>3
    <2>3. Last(note, "harness") = note[m + 1]
      BY <1>1, <2>2, LastCounts DEF F
    <2>4. note[m + 1] = rest[m]
      BY <1>4
    <2>5. \A i \in naming : (\A j \in naming : j <= i) => i = m
      BY <1>3, <2>1
    <2>6. Last(note, "harness").name = name <=>
             \E i \in naming : rest[i].name = name /\ \A j \in naming : j <= i
      BY <2>1, <2>3, <2>4, <2>5
    <2> QED BY <1>5, <1>7, <2>6 DEF note, rest, naming, F
  <1> QED BY <1>6, <1>7

(* A line of log-usage speaks of the harness that it is booked under.      *)
LEMMA UsageIsRead ==
    ASSUME NEW flags \in UsageFlags, flags.tokens >= 0, NEW name
    PROVE  /\ SpeaksOf(ResourceUsageNote(flags), name) <=> Booked(flags.harness, name)
           /\ Last(ResourceUsageNote(flags), "tokens").amount = flags.tokens
  BY AmountIsRead, HarnessIsRead DEF SpeaksOf, Booked

-----------------------------------------------------------------------------
(* The total of `usage` and the sum of the amounts *)

(* What a process may log: under any kind any text, and for log-usage what *)
(* resourceUsageNote makes of its flags.                                   *)
Loggable(e) ==
    e.usage # NoUsage =>
       /\ e.kind = "resource_usage"
       /\ e.usage \in UsageFlags /\ e.usage.tokens >= 0
       /\ e.note = ResourceUsageNote(e.usage)

Kept == {e \in StrategyEvent : Loggable(e)}

(* An event adds to the printed total what it adds to the sum. *)
LEMMA OneEventAdds ==
    ASSUME NEW e \in Kept, NEW name \in HarnessValue, NEW sum \in Int
    PROVE  /\ Amount(e, name) \in Int
           /\ IF e.kind = "resource_usage"
              THEN AddUsage(Wrap(sum), e.note, name) = Wrap(sum + Amount(e, name))
              ELSE Amount(e, name) = 0
  <1> DEFINE amount == IF e.kind = "resource_usage" /\ SpeaksOf(e.note, name)
                       THEN Last(e.note, "tokens").amount ELSE 0
  <1>1. Amount(e, name) = amount
    <2>1. CASE e.usage = NoUsage
      BY <2>1 DEF Amount
    <2>2. CASE e.usage # NoUsage
      <3>1. /\ e.kind = "resource_usage" /\ e.usage \in UsageFlags /\ e.usage.tokens >= 0
            /\ e.note = ResourceUsageNote(e.usage)
        BY <2>2 DEF Kept, Loggable
      <3>2. /\ SpeaksOf(e.note, name) <=> Booked(e.usage.harness, name)
            /\ Last(e.note, "tokens").amount = e.usage.tokens
        BY <3>1, UsageIsRead
      <3> QED BY <2>2, <3>1, <3>2 DEF Amount
    <2> QED BY <2>1, <2>2
  <1> DEFINE p == ParseResourceUsageNote(e.note)
  <1>2. /\ p.ok /\ p.harness = name <=> SpeaksOf(e.note, name)
        /\ SpeaksOf(e.note, name) => p.tokens = Last(e.note, "tokens").amount
        /\ p.tokens \in Int
    <2>1. e.note \in Seq(Field)
      BY DEF Kept, StrategyEvent, Note
    <2> HIDE DEF p
    <2> QED BY <2>1, ParseIs DEF p
  <1>3. AddUsage(Wrap(sum), e.note, name) =
            IF p.ok /\ p.harness = name THEN Wrap(Wrap(sum) + p.tokens) ELSE Wrap(sum)
    BY DEF AddUsage
  <1> HIDE DEF p
  <1>4. amount \in Int
    BY <1>2
  <1>5. CASE e.kind = "resource_usage"
    <2>1. CASE SpeaksOf(e.note, name)
      <3>1. AddUsage(Wrap(sum), e.note, name) = Wrap(Wrap(sum) + p.tokens) /\ amount = p.tokens
        BY <1>2, <1>3, <1>5, <2>1
      <3> HIDE DEF amount
      <3>2. Wrap(Wrap(sum) + p.tokens) = Wrap(sum + p.tokens)
        BY <1>2, WrapAdds
      <3> QED BY <1>1, <1>4, <1>5, <3>1, <3>2
    <2>2. CASE ~SpeaksOf(e.note, name)
      <3>1. AddUsage(Wrap(sum), e.note, name) = Wrap(sum) /\ amount = 0
        BY <1>2, <1>3, <2>2
      <3>2. sum + 0 = sum
        OBVIOUS
      <3> HIDE DEF amount
      <3> QED BY <1>1, <1>4, <1>5, <3>1, <3>2
    <2> QED BY <2>1, <2>2
  <1>6. CASE e.kind # "resource_usage"
    BY <1>1, <1>4, <1>6
  <1> QED BY <1>5, <1>6

(* The loop that adds up amounts. *)
LEMMA SpentByLoop ==
    ASSUME NEW events \in Seq(Kept), NEW name \in HarnessValue
    PROVE  \E s \in [0..Len(events) -> Int] :
              /\ s[0] = 0
              /\ \A n \in 1..Len(events) : s[n] = s[n - 1] + Amount(events[n], name)
              /\ SpentIn(events, name) = s[Len(events)]
  <1> DEFINE N == Len(events)
             step == [n \in 1..N |-> [v \in Int |-> v + Amount(events[n], name)]]
             Rounds(f) == [n \in 0..N |-> IF n = 0 THEN 0
                                          ELSE f[n - 1] + Amount(events[n], name)]
  <1>1. N \in Nat /\ \A n \in 1..N : events[n] \in Kept
    OBVIOUS
  <1>2. \A n \in 1..N : Amount(events[n], name) \in Int
    <2>1. 0 \in Int
      OBVIOUS
    <2> QED BY <1>1, <2>1, OneEventAdds
  <1>3. step \in [1..N -> [Int -> Int]]
    BY <1>2
  <1>4. PICK s \in [0..N -> Int] : Loop(s, N, 0, step)
    <2>1. N \in Nat /\ 0 \in Int
      OBVIOUS
    <2> HIDE DEF step, N
    <2> QED BY <1>3, <2>1, LoopExists
  <1>5. s[0] = 0 /\ \A n \in 1..N : s[n] = s[n - 1] + Amount(events[n], name)
    <2>1. ASSUME NEW n \in 1..N PROVE s[n] = s[n - 1] + Amount(events[n], name)
      <3>1. s[n] = step[n][s[n - 1]]
        <4> HIDE DEF step, N
        <4> QED BY <1>4 DEF Loop
      <3>2. s[n - 1] \in Int
        OBVIOUS
      <3> QED BY <3>1, <3>2
    <2> QED BY <1>4, <2>1 DEF Loop
  <1> HIDE DEF step
  <1>6. s = Rounds(s)
    <2>1. \A n \in 0..N : s[n] = Rounds(s)[n]
      <3>1. ASSUME NEW n \in 0..N PROVE s[n] = Rounds(s)[n]
        <4>1. n = 0 \/ n \in 1..N
          OBVIOUS
        <4> HIDE DEF N
        <4> QED BY <1>5, <4>1
      <3> QED BY <3>1
    <2>2. Rounds(s) = [n \in 0..N |-> Rounds(s)[n]] /\ s = [n \in 0..N |-> s[n]]
      OBVIOUS
    <2> HIDE DEF Rounds
    <2> QED BY <2>1, <2>2
  <1>7. PICK g : g = Rounds(g) /\ SpentIn(events, name) = g[N]
    BY <1>6 DEF SpentIn
  <1> DEFINE T == {n \in 0..N : s[n] = g[n]}
  <1>8. \A n \in 0..N : n \in T
    <2>1. 0 \in T
      BY <1>1, <1>5, <1>7
    <2>2. ASSUME NEW n \in 1..N, n - 1 \in T PROVE n \in T
      <3>1. n \in 0..N /\ n # 0 /\ s[n - 1] = g[n - 1]
        BY <2>2
      <3>2. g[n] = g[n - 1] + Amount(events[n], name)
        <4> HIDE DEF N
        <4> QED BY <1>7, <3>1
      <3> QED BY <1>5, <3>1, <3>2
    <2> HIDE DEF T, N
    <2> QED BY <1>1, <2>1, <2>2, CountingUp
  <1>9. SpentIn(events, name) = s[N]
    BY <1>1, <1>7, <1>8
  <1> WITNESS s \in [0..N -> Int]
  <1> QED BY <1>5, <1>9

(* What `usage` prints is the sum, in 64 bits. *)
LEMMA TotalIsTheSum ==
    ASSUME NEW events \in Seq(Kept), NEW name \in HarnessValue
    PROVE  TotalIn(events, name) = Wrap(SpentIn(events, name))
  <1> DEFINE N == Len(events)
             Rounds(f) == [n \in 0..N |->
                             IF n = 0 THEN 0
                             ELSE IF events[n].kind = "resource_usage"
                                  THEN AddUsage(f[n - 1], events[n].note, name)
                             ELSE f[n - 1]]
  <1>1. N \in Nat /\ \A n \in 1..N : events[n] \in Kept
    OBVIOUS
  <1>2. PICK s \in [0..N -> Int] :
              /\ s[0] = 0
              /\ \A n \in 1..N : s[n] = s[n - 1] + Amount(events[n], name)
              /\ SpentIn(events, name) = s[N]
    BY SpentByLoop
  <1>3. ASSUME NEW n \in 1..N
        PROVE  IF events[n].kind = "resource_usage"
               THEN AddUsage(Wrap(s[n - 1]), events[n].note, name) = Wrap(s[n])
               ELSE s[n] = s[n - 1]
    <2>1. s[n - 1] \in Int /\ s[n] = s[n - 1] + Amount(events[n], name)
      BY <1>2
    <2>2. events[n] \in Kept
      BY <1>1
    <2> HIDE DEF N
    <2>3. /\ Amount(events[n], name) \in Int
          /\ IF events[n].kind = "resource_usage"
             THEN AddUsage(Wrap(s[n - 1]), events[n].note, name)
                      = Wrap(s[n - 1] + Amount(events[n], name))
             ELSE Amount(events[n], name) = 0
      BY <2>1, <2>2, OneEventAdds
    <2> QED BY <2>1, <2>3
  <1> DEFINE w == [n \in 0..N |-> Wrap(s[n])]
  <1>4. Wrap(0) = 0
    BY GoIntAssumption DEF Wrap
  <1>5. w = Rounds(w)
    <2>1. ASSUME NEW n \in 0..N PROVE w[n] = Rounds(w)[n]
      <3>1. CASE n = 0
        BY <1>2, <1>4, <3>1
      <3>2. CASE n # 0
        <4>1. n \in 1..N /\ n - 1 \in 0..N
          BY <3>2
        <4>2. w[n] = Wrap(s[n]) /\ w[n - 1] = Wrap(s[n - 1])
          BY <4>1
        <4> HIDE DEF w, N
        <4> QED BY <1>3, <3>2, <4>1, <4>2
      <3> QED BY <3>1, <3>2
    <2>2. Rounds(w) = [n \in 0..N |-> Rounds(w)[n]] /\ w = [n \in 0..N |-> w[n]]
      OBVIOUS
    <2> HIDE DEF Rounds, w
    <2> QED BY <2>1, <2>2
  <1>6. PICK g : g = Rounds(g) /\ TotalIn(events, name) = g[N]
    <2> HIDE DEF w
    <2> QED BY <1>5 DEF TotalIn
  <1> DEFINE T == {n \in 0..N : w[n] = g[n]}
  <1>7. \A n \in 0..N : n \in T
    <2>1. 0 \in T
      BY <1>1, <1>2, <1>4, <1>6
    <2>2. ASSUME NEW n \in 1..N, n - 1 \in T PROVE n \in T
      <3>1. n \in 0..N /\ n - 1 \in 0..N /\ n # 0 /\ w[n - 1] = g[n - 1]
        BY <2>2
      <3>2. w[n] = Wrap(s[n]) /\ w[n - 1] = Wrap(s[n - 1])
        BY <3>1
      <3>3. g[n] = IF events[n].kind = "resource_usage"
                   THEN AddUsage(g[n - 1], events[n].note, name) ELSE g[n - 1]
        <4> HIDE DEF N, w
        <4> QED BY <1>6, <3>1
      <3> HIDE DEF w, N
      <3> QED BY <1>3, <3>1, <3>2, <3>3
    <2> HIDE DEF T, N
    <2> QED BY <1>1, <2>1, <2>2, CountingUp
  <1>8. w[N] = g[N] /\ w[N] = Wrap(s[N])
    BY <1>1, <1>7
  <1> QED BY <1>2, <1>6, <1>8

-----------------------------------------------------------------------------
(* Reads of the log *)

(* f holds what has been found after each round of the loop of EventsIn. *)
Finding(f, log, id) ==
    /\ f[0] = <<>>
    /\ \A n \in 1..Len(log) :
          f[n] = IF log[n].strategy = id THEN Append(f[n - 1], log[n]) ELSE f[n - 1]
    /\ EventsIn(log, id) = f[Len(log)]

(* The loop ends, and goes through sequences of events only. *)
LEMMA EventsByLoop ==
    ASSUME NEW E, NEW log \in Seq(E), NEW id
    PROVE  \E f \in [0..Len(log) -> Seq(E)] : Finding(f, log, id)
  <1> DEFINE N == Len(log)
             X == Seq(E)
             step == [n \in 1..N |-> [v \in X |->
                        IF log[n].strategy = id THEN Append(v, log[n]) ELSE v]]
             Rounds(f) == [n \in 0..N |->
                             IF n = 0 THEN <<>>
                             ELSE IF log[n].strategy = id THEN Append(f[n - 1], log[n])
                             ELSE f[n - 1]]
  <1>1. N \in Nat /\ <<>> \in X /\ \A n \in 1..N : log[n] \in E
    OBVIOUS
  <1>2. step \in [1..N -> [X -> X]]
    <2>1. ASSUME NEW n \in 1..N, NEW v \in X
          PROVE  (IF log[n].strategy = id THEN Append(v, log[n]) ELSE v) \in X
      BY <1>1
    <2> HIDE DEF N, X
    <2> QED BY <2>1
  <1>3. PICK f \in [0..N -> X] : Loop(f, N, <<>>, step)
    <2> HIDE DEF step, N, X
    <2> QED BY <1>1, <1>2, LoopExists
  <1>4. /\ f[0] = <<>>
        /\ \A n \in 1..N :
              f[n] = IF log[n].strategy = id THEN Append(f[n - 1], log[n]) ELSE f[n - 1]
    <2>1. ASSUME NEW n \in 1..N
          PROVE  f[n] = IF log[n].strategy = id THEN Append(f[n - 1], log[n]) ELSE f[n - 1]
      <3>1. f[n] = step[n][f[n - 1]]
        BY <1>3 DEF Loop
      <3>2. f[n - 1] \in X
        OBVIOUS
      <3> HIDE DEF N, X
      <3> QED BY <3>1, <3>2
    <2> QED BY <1>3, <2>1 DEF Loop
  <1>5. f = Rounds(f)
    <2>1. \A n \in 0..N : f[n] = Rounds(f)[n]
      <3>1. ASSUME NEW n \in 0..N PROVE f[n] = Rounds(f)[n]
        <4>1. n = 0 \/ n \in 1..N
          OBVIOUS
        <4> HIDE DEF X, N
        <4> QED BY <1>4, <4>1
      <3> QED BY <3>1
    <2>2. Rounds(f) = [n \in 0..N |-> Rounds(f)[n]] /\ f = [n \in 0..N |-> f[n]]
      OBVIOUS
    <2> HIDE DEF Rounds
    <2> QED BY <2>1, <2>2
  <1>6. PICK g : g = Rounds(g) /\ EventsIn(log, id) = g[N]
    BY <1>5 DEF EventsIn
  <1>7. \A n \in 0..N : f[n] = g[n]
    <2>1. f[0] = g[0]
      <3>1. g[0] = <<>>
        BY <1>1, <1>6
      <3> QED BY <3>1, <1>4
    <2>2. ASSUME NEW n \in 1..N, f[n - 1] = g[n - 1] PROVE f[n] = g[n]
      <3>1. n \in 0..N /\ n # 0
        OBVIOUS
      <3>2. g[n] = IF log[n].strategy = id THEN Append(g[n - 1], log[n]) ELSE g[n - 1]
        <4> HIDE DEF N, X
        <4> QED BY <1>6, <3>1
      <3> HIDE DEF X, N
      <3> QED BY <1>4, <2>2, <3>2
    <2> DEFINE T == {n \in 0..N : f[n] = g[n]}
    <2>3. 0 \in T
      BY <1>1, <2>1
    <2>4. ASSUME NEW n \in 1..N, n - 1 \in T PROVE n \in T
      <3>1. n \in 0..N /\ f[n - 1] = g[n - 1]
        BY <2>4
      <3> QED BY <2>2, <3>1
    <2>5. \A n \in 0..N : n \in T
      <3> HIDE DEF T, N
      <3> QED BY <1>1, <2>3, <2>4, CountingUp
    <2> QED BY <2>5
  <1>8. EventsIn(log, id) = f[N]
    BY <1>1, <1>6, <1>7
  <1> WITNESS f \in [0..N -> X]
  <1> QED BY <1>4, <1>8 DEF Finding

LEMMA EventsType ==
    ASSUME NEW E, NEW log \in Seq(E), NEW id
    PROVE  EventsIn(log, id) \in Seq(E)
  <1>1. Len(log) \in 0..Len(log)
    OBVIOUS
  <1> QED BY <1>1, EventsByLoop DEF Finding

(* One more row in the table is at most one more in a strategy's log.      *)
LEMMA EventsOneMore ==
    ASSUME NEW E, NEW log \in Seq(E), NEW longer \in Seq(E), NEW id,
           Len(longer) = Len(log) + 1, \A n \in 1..Len(log) : longer[n] = log[n]
    PROVE  LET e == longer[Len(log) + 1]
           IN  EventsIn(longer, id) =
                   IF e.strategy = id THEN Append(EventsIn(log, id), e) ELSE EventsIn(log, id)
  <1>1. PICK f \in [0..Len(log) -> Seq(E)] : Finding(f, log, id)
    BY EventsByLoop
  <1>2. PICK g \in [0..Len(longer) -> Seq(E)] : Finding(g, longer, id)
    BY EventsByLoop
  <1>3. Len(log) \in Nat
    OBVIOUS
  <1> DEFINE T == {n \in 0..Len(log) : f[n] = g[n]}
  <1>4. \A n \in 0..Len(log) : n \in T
    <2>1. ASSUME NEW n \in 1..Len(log), n - 1 \in T PROVE n \in T
      <3>1. n \in 0..Len(log) /\ n \in 1..Len(longer) /\ longer[n] = log[n]
        BY <1>3
      <3> QED BY <1>1, <1>2, <2>1, <3>1 DEF Finding
    <2>2. 0 \in T
      BY <1>1, <1>2, <1>3 DEF Finding
    <2> HIDE DEF T
    <2> QED BY <1>3, <2>1, <2>2, CountingUp
  <1>5. f[Len(log)] = g[Len(log)] /\ Len(longer) \in 1..Len(longer)
    BY <1>3, <1>4
  <1> QED BY <1>1, <1>2, <1>3, <1>5 DEF Finding

(* What the second read of `strategy next` selects. *)
LEMMA RecentIs ==
    ASSUME NEW E, NEW all \in Seq(E)
    PROVE  /\ RecentStart(all) \in Nat \ {0}
           /\ \A i \in 1..Len(all) :
                 i >= RecentStart(all) <=>
                    /\ i > Len(all) - RecentCap
                    /\ \A j \in (i + 1)..Len(all) : all[j].kind # "step_completed"
  <1> DEFINE N == Len(all)
             completed == {i \in DOMAIN all : all[i].kind = "step_completed"}
             start == IF completed = {} THEN 1
                      ELSE CHOOSE i \in completed : \A j \in completed : j <= i
             capped == N - RecentCap + 1
  <1>1. N \in Nat /\ DOMAIN all = 1..N /\ RecentCap \in Nat \ {0} /\ capped \in Int
    BY StrategyLedgerAssumption
  <1>2. RecentStart(all) = IF start < capped THEN capped ELSE start
    BY DEF RecentStart
  <1>3. \A i \in completed : i \in 1..N
    BY <1>1
  <1>4. start \in Nat \ {0} /\ \A i \in 1..N : i >= start <=> \A j \in (i + 1)..N : j \notin completed
    <2> HIDE DEF completed, N
    <2>1. CASE completed = {}
      BY <1>1, <2>1
    <2>2. CASE completed # {}
      <3>1. completed \subseteq Nat /\ \A i \in completed : i <= N
        BY <1>1, <1>3
      <3>2. PICK m \in completed : \A j \in completed : j <= m
        BY <1>1, <2>2, <3>1, GreatestElement
      <3>3. start \in completed /\ \A j \in completed : j <= start
        BY <2>2, <3>2
      <3>4. start \in 1..N
        BY <1>3, <3>3
      <3> HIDE DEF start
      <3>5. ASSUME NEW i \in 1..N, i >= start, NEW j \in (i + 1)..N PROVE j \notin completed
        BY <1>1, <3>3, <3>4, <3>5
      <3>6. ASSUME NEW i \in 1..N, ~(i >= start) PROVE start \in (i + 1)..N
        BY <1>1, <3>4, <3>6
      <3> QED BY <3>3, <3>4, <3>5, <3>6
    <2> QED BY <2>1, <2>2
  <1>5. ASSUME NEW i \in 1..N
        PROVE  (\A j \in (i + 1)..N : j \notin completed)
                  <=> \A j \in (i + 1)..N : all[j].kind # "step_completed"
    BY <1>1
  <1>6. capped >= 1 => capped \in Nat \ {0}
    BY <1>1
  <1> HIDE DEF completed, start, capped
  <1>7. RecentStart(all) \in Nat \ {0}
    BY <1>1, <1>2, <1>4, <1>6
  <1>8. ASSUME NEW i \in 1..N
        PROVE  i >= RecentStart(all) <=> i > N - RecentCap /\ i >= start
    BY <1>1, <1>2, <1>4 DEF capped
  <1> QED BY <1>4, <1>5, <1>7, <1>8

-----------------------------------------------------------------------------
(* The log and the recaps *)

(* A recap fits the log of its strategy: the first read saw no more of it  *)
(* than there is, the second what was there at that moment.                *)
Fits(label, r, log) ==
    /\ label \in {"readRecent", "readLocks"} => r.total <= Len(log)
    /\ label = "readLocks" =>
          /\ r.total <= r.to /\ r.to <= Len(log)
          /\ \A i \in 1..r.to :
                i \in r.from..r.to <=>
                   /\ i > r.to - RecentCap
                   /\ \A j \in (i + 1)..r.to : log[j].kind # "step_completed"

Recap == [strategy : Nat, total : Nat, from : Nat \ {0}, to : Nat]

LogInv ==
    /\ strategyEvents \in Seq(Kept)
    /\ \A e \in DOMAIN strategyEvents : strategyEvents[e].strategy \in Ids
    /\ \A p \in Process : Loggable(event[p])
    /\ recap \in [Process -> Recap]
    /\ \A p \in Process : Fits(pc[p], recap[p], EventsOf(recap[p].strategy))

LEMMA NotesAreLoggable ==
    /\ Loggable(NoEvent)
    /\ \A e : e.usage = NoUsage => Loggable(e)
    /\ \A id, outcome : \A flags \in UsageFlags :
          flags.tokens >= 0 =>
          Loggable([strategy |-> id, kind |-> "resource_usage",
                    note |-> ResourceUsageNote(flags), outcome |-> outcome, usage |-> flags])
  BY DEF Loggable, NoEvent

LEMMA EventsOfType ==
    ASSUME LogInv, NEW id PROVE EventsOf(id) \in Seq(Kept) /\ Len(EventsOf(id)) \in Nat
  <1>1. EventsOf(id) \in Seq(Kept)
    BY EventsType DEF LogInv, EventsOf
  <1> QED BY <1>1

(* A longer log does not disturb a recap. *)
LEMMA FitsStays ==
    ASSUME NEW E, NEW log \in Seq(E), NEW longer \in Seq(E), Len(log) <= Len(longer),
           \A n \in 1..Len(log) : longer[n] = log[n],
           NEW label, NEW r \in Recap, Fits(label, r, log)
    PROVE  Fits(label, r, longer)
  <1>1. Len(log) \in Nat /\ Len(longer) \in Nat /\ r.total \in Nat /\ r.to \in Nat
    BY DEF Recap
  <1>2. label \in {"readRecent", "readLocks"} => r.total <= Len(longer)
    BY <1>1 DEF Fits
  <1>3. ASSUME label = "readLocks"
        PROVE  /\ r.total <= r.to /\ r.to <= Len(longer)
               /\ \A i \in 1..r.to : \A j \in (i + 1)..r.to : longer[j] = log[j]
    BY <1>1, <1>3 DEF Fits
  <1> QED BY <1>2, <1>3 DEF Fits

(* A step that writes no event and touches no recap. *)
LEMMA QuietLog ==
    ASSUME LedgerInv, LogInv, LedgerInv', UNCHANGED <<strategyEvents, recap>>,
           Len(strategies') >= Len(strategies),
           \A q \in Process :
              /\ pc'[q] = pc[q] \/ pc'[q] \notin {"readRecent", "readLocks"}
              /\ Loggable(event'[q])
    PROVE  LogInv'
  <1>1. Ids \subseteq Ids'
    BY StrategiesGrow DEF LedgerInv
  <1>2. ASSUME NEW q \in Process PROVE Fits(pc[q], recap[q], EventsOf(recap[q].strategy))'
    <2>1. EventsOf(recap[q].strategy)' = EventsOf(recap[q].strategy)
      BY DEF EventsOf
    <2>2. CASE pc'[q] = pc[q]
      BY <2>1, <2>2 DEF LogInv, Fits
    <2>3. CASE pc'[q] \notin {"readRecent", "readLocks"}
      BY <2>3 DEF Fits
    <2> QED BY <2>2, <2>3
  <1> QED BY <1>1, <1>2 DEF LogInv

(* The steps on the way to an event, and those on a strategy's row. *)
LEMMA QuietKeepsLog ==
    ASSUME LedgerInv, LogInv, LedgerInv', NEW p \in Process,
           \/ \E g \in Group \cup {NoGroup} : CreateStrategy(p, g)
           \/ SetStrategyGroup(p)
           \/ \E id \in AnyId, kind \in KindArg, note \in LogNote : StartLog(p, id, kind, note)
           \/ \E id \in AnyId, flags \in UsageArg : StartLogUsage(p, id, flags)
           \/ \E id \in Ids : CloseStrategy(p, id)
           \/ CheckStrategy(p)
    PROVE  LogInv'
  <1>1. /\ event \in [Process -> Locals]
        /\ pc \in [Process -> {"idle", "setGroup", "checkStrategy", "insertEvent",
                               "readRecent", "readLocks"}]
        /\ Len(strategies) \in Nat
    BY DEF LedgerInv, LedgerTypes
  <1>2. Loggable(NoEvent) /\ \A q \in Process : Loggable(event[q])
    BY NotesAreLoggable DEF LogInv
  <1>3. CASE \E g \in Group \cup {NoGroup} : CreateStrategy(p, g)
    <2>1. PICK g \in Group \cup {NoGroup} : CreateStrategy(p, g)
      BY <1>3
    <2>2. /\ UNCHANGED <<strategyEvents, recap>> /\ Len(strategies') = Len(strategies) + 1
          /\ pc' = pc \/ pc' = [pc EXCEPT ![p] = "setGroup"]
          /\ event' = event \/ event' = [event EXCEPT ![p].strategy = Len(strategies')]
      BY <2>1 DEF CreateStrategy, Goto, LedgerInv, LedgerTypes
    <2>3. ASSUME NEW q \in Process
          PROVE  /\ event'[q].note = event[q].note /\ event'[q].kind = event[q].kind
                 /\ event'[q].usage = event[q].usage
      BY <1>1, <2>2 DEF Locals
    <2>4. \A q \in Process : Loggable(event'[q])
      BY <1>2, <2>3 DEF Loggable
    <2>5. \A q \in Process : pc'[q] = pc[q] \/ pc'[q] \notin {"readRecent", "readLocks"}
      BY <1>1, <2>2
    <2> QED BY <1>1, <2>2, <2>4, <2>5, QuietLog
  <1>4. ASSUME NEW l \in {"idle", "checkStrategy", "insertEvent"}, NEW e, Loggable(e),
               Goto(p, l), event' = [event EXCEPT ![p] = e] \/ event' = event,
               UNCHANGED <<strategyEvents, recap>>, Len(strategies') = Len(strategies)
        PROVE  LogInv'
    <2>1. \A q \in Process : Loggable(event'[q])
      BY <1>1, <1>2, <1>4
    <2>2. \A q \in Process : pc'[q] = pc[q] \/ pc'[q] \notin {"readRecent", "readLocks"}
      BY <1>1, <1>4 DEF Goto
    <2>3. Len(strategies') >= Len(strategies)
      BY <1>1, <1>4
    <2> QED BY <1>4, <2>1, <2>2, <2>3, QuietLog
  <1>5. CASE SetStrategyGroup(p)
    <2>1. Len(strategies') = Len(strategies)
      BY <1>5 DEF SetStrategyGroup, LedgerInv, LedgerTypes
    <2> QED BY <1>2, <1>4, <1>5, <2>1 DEF SetStrategyGroup
  <1>6. ASSUME NEW e, Loggable(e), StartEvent(p, e) PROVE LogInv'
    BY <1>4, <1>6 DEF StartEvent
  <1>7. CASE \E id \in AnyId, kind \in KindArg, note \in LogNote : StartLog(p, id, kind, note)
    BY <1>6, <1>7, NotesAreLoggable DEF StartLog
  <1>8. CASE \E id \in AnyId, flags \in UsageArg : StartLogUsage(p, id, flags)
    BY <1>6, <1>8, NotesAreLoggable, StrategyLedgerAssumption DEF StartLogUsage
  <1>9. CASE \E id \in Ids : CloseStrategy(p, id)
    <2>1. PICK id \in Ids : CloseStrategy(p, id)
      BY <1>9
    <2>2. Len(strategies') = Len(strategies)
      BY <2>1 DEF CloseStrategy, LedgerInv, LedgerTypes
    <2> QED BY <1>4, <2>1, <2>2, NotesAreLoggable DEF CloseStrategy
  <1>10. CASE CheckStrategy(p)
    BY <1>2, <1>4, <1>10 DEF CheckStrategy
  <1> QED BY <1>3, <1>5, <1>7, <1>8, <1>9, <1>10

-----------------------------------------------------------------------------
(* The event itself, and the steps of `strategy next`. *)

LEMMA InsertKeepsLog ==
    ASSUME LedgerInv, LogInv, LedgerInv', NEW p \in Process, InsertEvent(p)
    PROVE  LogInv'
  <1> DEFINE e == event[p]
             n == Len(strategyEvents) + 1
  <1>1. /\ pc[p] = "insertEvent" /\ strategyEvents' = Append(strategyEvents, e)
        /\ pc' = [pc EXCEPT ![p] = "idle"] /\ event' = [event EXCEPT ![p] = NoEvent]
        /\ UNCHANGED <<strategies, recap>>
    BY DEF InsertEvent, Goto
  <1>2. e \in Kept /\ e.strategy \in Ids
    <2>1. e \in Locals /\ e.strategy \in Ids /\ Loggable(e)
      BY <1>1 DEF LedgerInv, LedgerTypes, Carries, LogInv
    <2>2. e.strategy \in Nat \ {0}
      BY <2>1, IdsBounded DEF LedgerInv
    <2> QED BY <2>1, <2>2 DEF Locals, StrategyEvent, Kept
  <1> HIDE DEF e
  <1>3. strategyEvents \in Seq(Kept)
    BY DEF LogInv
  <1>4. /\ strategyEvents' \in Seq(Kept) /\ Len(strategyEvents') = Len(strategyEvents) + 1
        /\ DOMAIN strategyEvents' = DOMAIN strategyEvents \cup {n}
        /\ strategyEvents'[n] = e
        /\ \A i \in 1..Len(strategyEvents) : strategyEvents'[i] = strategyEvents[i]
        /\ DOMAIN strategyEvents = 1..Len(strategyEvents)
    BY <1>1, <1>2, <1>3
  <1>5. Ids' = Ids
    BY <1>1 DEF Ids
  <1>6. \A i \in DOMAIN strategyEvents' : strategyEvents'[i].strategy \in Ids'
    BY <1>2, <1>4, <1>5 DEF LogInv
  <1>7. \A q \in Process : Loggable(event'[q])
    BY <1>1, NotesAreLoggable DEF LogInv, LedgerInv, LedgerTypes
  <1>8. ASSUME NEW q \in Process PROVE Fits(pc[q], recap[q], EventsOf(recap[q].strategy))'
    <2> DEFINE id == recap[q].strategy
               log == EventsOf(id)
               longer == EventsIn(strategyEvents', id)
    <2>1. EventsOf(recap[q].strategy)' = longer
      BY <1>1 DEF EventsOf
    <2>2. log \in Seq(Kept) /\ longer \in Seq(Kept)
      BY <1>4, EventsOfType, EventsType
    <2>3. longer = IF e.strategy = id THEN Append(log, e) ELSE log
      <3>1. longer = IF strategyEvents'[n].strategy = id
                     THEN Append(EventsIn(strategyEvents, id), strategyEvents'[n])
                     ELSE EventsIn(strategyEvents, id)
        <4> HIDE DEF id
        <4> QED BY <1>3, <1>4, EventsOneMore
      <3>2. EventsIn(strategyEvents, id) = log
        BY DEF EventsOf
      <3> QED BY <1>4, <3>1, <3>2
    <2> HIDE DEF longer, log, id
    <2>4. Len(log) <= Len(longer) /\ \A i \in 1..Len(log) : longer[i] = log[i]
      BY <1>2, <2>2, <2>3
    <2>5. recap[q] \in Recap /\ Fits(pc[q], recap[q], log)
      BY DEF LogInv, log, id
    <2>6. Fits(pc[q], recap[q], longer)
      BY <2>2, <2>4, <2>5, FitsStays
    <2>7. CASE q = p
      <3>1. pc'[q] = "idle"
        BY <1>1, <2>7 DEF LedgerInv, LedgerTypes
      <3> QED BY <3>1 DEF Fits
    <2>8. CASE q # p
      <3>1. pc'[q] = pc[q] /\ recap'[q] = recap[q]
        BY <1>1, <2>8 DEF LedgerInv, LedgerTypes
      <3> QED BY <2>1, <2>6, <3>1
    <2> QED BY <2>7, <2>8
  <1> QED BY <1>1, <1>4, <1>6, <1>7, <1>8 DEF LogInv

(* Only p's recap and label change. *)
LEMMA RecapSteps ==
    ASSUME LedgerInv, LogInv, LedgerInv', NEW p \in Process, NEW l, NEW r \in Recap,
           UNCHANGED <<strategies, strategyEvents>>,
           \A q \in Process : Loggable(event'[q]),
           Goto(p, l), recap' = [recap EXCEPT ![p] = r],
           Fits(l, r, EventsOf(r.strategy))
    PROVE  LogInv'
  <1>1. recap' \in [Process -> Recap] /\ Ids' = Ids
    BY DEF LogInv, Ids
  <1>2. ASSUME NEW q \in Process PROVE Fits(pc[q], recap[q], EventsOf(recap[q].strategy))'
    <2>1. \A id : EventsOf(id)' = EventsOf(id)
      BY DEF EventsOf
    <2>2. CASE q = p
      <3>1. pc'[q] = l /\ recap'[q] = r
        BY <2>2, OneMoves DEF LogInv, LedgerInv
      <3>2. EventsOf(recap[q].strategy)' = EventsOf(r.strategy)
        BY <3>1 DEF EventsOf
      <3> QED BY <3>1, <3>2
    <2>3. CASE q # p
      <3>1. pc'[q] = pc[q] /\ recap'[q] = recap[q]
        BY <2>3, OneMoves DEF LogInv, LedgerInv
      <3>2. EventsOf(recap[q].strategy)' = EventsOf(recap[q].strategy)
        BY <3>1 DEF EventsOf
      <3> QED BY <3>1, <3>2 DEF LogInv
    <2> QED BY <2>2, <2>3
  <1> QED BY <1>1, <1>2 DEF LogInv

LEMMA NoRecapFits ==
    ASSUME LogInv
    PROVE  NoRecap \in Recap /\ Fits("idle", NoRecap, EventsOf(NoRecap.strategy))
  BY DEF NoRecap, Recap, UnknownId, Fits

LEMMA NextKeepsLog ==
    ASSUME LedgerInv, LogInv, LedgerInv', NEW p \in Process,
           \/ \E id \in Ids : StartNext(p, id)
           \/ ReadRecent(p)
           \/ ReadLocks(p)
           \/ Abort(p)
    PROVE  LogInv'
  <1>1. \A q \in Process : Loggable(event[q])
    BY DEF LogInv
  <1>2. CASE \E id \in Ids : StartNext(p, id)
    <2>1. PICK id \in Ids : StartNext(p, id)
      BY <1>2
    <2> DEFINE n == Len(EventsOf(id))
               r == [NoRecap EXCEPT !.strategy = id, !.total = n]
    <2>2. /\ recap' = [recap EXCEPT ![p] = r] /\ Goto(p, "readRecent")
          /\ UNCHANGED <<strategies, strategyEvents, event>>
      BY <2>1 DEF StartNext
    <2>3. id \in Nat /\ n \in Nat /\ NoRecap \in Recap
      BY IdsBounded, EventsOfType, NoRecapFits DEF LedgerInv
    <2>4. r \in Recap /\ Fits("readRecent", r, EventsOf(r.strategy))
      <3>1. r \in Recap /\ r.strategy = id /\ r.total = n
        <4> HIDE DEF n
        <4> QED BY <2>3 DEF Recap
      <3>2. r.total <= Len(EventsOf(r.strategy))
        <4> HIDE DEF r
        <4> QED BY <2>3, <3>1
      <3> QED BY <3>1, <3>2 DEF Fits
    <2> HIDE DEF r
    <2> QED BY <1>1, <2>2, <2>4, RecapSteps
  <1>3. CASE ReadRecent(p)
    <2> DEFINE id == recap[p].strategy
               all == EventsOf(id)
               r == [recap[p] EXCEPT !.from = RecentStart(all), !.to = Len(all)]
    <2>1. /\ recap' = [recap EXCEPT ![p] = r] /\ Goto(p, "readLocks")
          /\ UNCHANGED <<strategies, strategyEvents, event>> /\ pc[p] = "readRecent"
      BY <1>3 DEF ReadRecent
    <2>2. recap[p] \in Recap /\ all \in Seq(Kept) /\ Len(all) \in Nat
      BY EventsOfType DEF LogInv
    <2>3. recap[p].total <= Len(all)
      BY <2>1 DEF LogInv, Fits
    <2>4. /\ RecentStart(all) \in Nat \ {0}
          /\ \A i \in 1..Len(all) :
                i >= RecentStart(all) <=>
                   /\ i > Len(all) - RecentCap
                   /\ \A j \in (i + 1)..Len(all) : all[j].kind # "step_completed"
      BY <2>2, RecentIs
    <2>5. /\ r \in Recap /\ r.strategy = id /\ r.total = recap[p].total
          /\ r.from = RecentStart(all) /\ r.to = Len(all)
      BY <2>2, <2>4 DEF Recap
    <2> HIDE DEF r, all
    <2>6. \A i \in 1..r.to : i \in r.from..r.to <=> i >= RecentStart(all)
      BY <2>2, <2>4, <2>5
    <2>7. Fits("readLocks", r, all)
      BY <2>2, <2>3, <2>4, <2>5, <2>6 DEF Fits
    <2>8. Fits("readLocks", r, EventsOf(r.strategy))
      BY <2>5, <2>7 DEF all
    <2> QED BY <1>1, <2>1, <2>5, <2>8, RecapSteps
  <1>4. CASE ReadLocks(p)
    BY <1>1, <1>4, NoRecapFits, RecapSteps DEF ReadLocks
  <1>5. CASE Abort(p)
    <2>1. \A q \in Process : Loggable(event'[q])
      BY <1>1, <1>5, NotesAreLoggable DEF Abort, LedgerInv, LedgerTypes
    <2> QED BY <1>5, <2>1, NoRecapFits, RecapSteps DEF Abort
  <1> QED BY <1>2, <1>3, <1>4, <1>5

-----------------------------------------------------------------------------
LEMMA LogInvInit == LedgerInit => LogInv
  <1> SUFFICES ASSUME LedgerInit PROVE LogInv
    OBVIOUS
  <1> USE DEF LedgerInit
  <1>1. strategyEvents \in Seq(Kept) /\ DOMAIN strategyEvents = {}
    OBVIOUS
  <1>2. NoRecap \in Recap
    BY DEF NoRecap, Recap, UnknownId
  <1>3. \A p \in Process : pc[p] = "idle" /\ event[p] = NoEvent
    OBVIOUS
  <1>4. \A p \in Process : Fits(pc[p], recap[p], EventsOf(recap[p].strategy))
    BY <1>3 DEF Fits
  <1> QED BY <1>1, <1>2, <1>3, <1>4, NotesAreLoggable DEF LogInv

LEMMA LogInvStep ==
    ASSUME LedgerInv, LogInv, LedgerInv', [LedgerNext]_ledgerVars PROVE LogInv'
  <1>1. CASE UNCHANGED ledgerVars
    <2>1. Len(strategies') >= Len(strategies)
      BY <1>1 DEF ledgerVars, LedgerInv, LedgerTypes
    <2>2. UNCHANGED <<strategyEvents, recap, pc, event>>
      BY <1>1 DEF ledgerVars
    <2>3. \A q \in Process : pc'[q] = pc[q] /\ Loggable(event'[q])
      BY <2>2 DEF LogInv
    <2> QED BY <2>1, <2>2, <2>3, QuietLog
  <1>2. CASE \E id \in Ids, status \in {"active", "observing"} : SetStrategyStatus(id, status)
    <2>1. PICK id \in Ids, status \in {"active", "observing"} : SetStrategyStatus(id, status)
      BY <1>2
    <2>2. Len(strategies') >= Len(strategies)
      BY <2>1 DEF SetStrategyStatus, LedgerInv, LedgerTypes
    <2>3. UNCHANGED <<strategyEvents, recap, pc, event>>
      BY <2>1 DEF SetStrategyStatus
    <2>4. \A q \in Process : pc'[q] = pc[q] /\ Loggable(event'[q])
      BY <2>3 DEF LogInv
    <2> QED BY <2>2, <2>3, <2>4, QuietLog
  <1> QED BY <1>1, <1>2, QuietKeepsLog, InsertKeepsLog, NextKeepsLog DEF LedgerNext

(* The inductive invariant of the log and of what is read from it: every   *)
(* event in the table is of a strategy that exists; its note is any text,  *)
(* but the one resourceUsageNote makes of the flags if log-usage wrote it; *)
(* what processes are about to log is so too, and each recap fits its      *)
(* strategy's log.                                                         *)
THEOREM LogInvAlways == LedgerSpec => [](LedgerInv /\ LogInv)
  <1>1. LedgerInv /\ LogInv /\ [LedgerNext]_ledgerVars => (LedgerInv /\ LogInv)'
    BY LedgerInvStep, LogInvStep
  <1> QED BY <1>1, LedgerInvInit, LogInvInit, PTL DEF LedgerSpec

(* Tables and locals hold what they are meant to hold, and every event is  *)
(* of a strategy that exists (strategy.go:64-101, 212-236).                 *)
THEOREM LedgerTypeCorrect == LedgerSpec => []LedgerTypeOK
  <1>1. LedgerInv /\ LogInv => LedgerTypeOK
    BY DEF LedgerInv, LedgerTypes, LogInv, Locals, Recap, Ids, LedgerTypeOK
  <1> QED BY <1>1, LogInvAlways, PTL

(* What `strategy next` prints as recent is the end of the log after the   *)
(* last completed step, RecentCap events at the most, although it reads    *)
(* the log twice and others write between the reads                        *)
(* (strategy.go:286-309, 845-866).                                         *)
THEOREM RecapsAreRecent == LedgerSpec => []RecapIsRecent
  <1>1. LogInv => RecapIsRecent
    BY DEF LogInv, Fits, RecapIsRecent
  <1> QED BY <1>1, LogInvAlways, PTL

(* `strategy usage` prints, for each harness name, the sum of the amounts  *)
(* that log-usage was given for it and of those that notes typed into      *)
(* `strategy log` state in the same format, reduced to 64 bits, and none   *)
(* under the empty name, whatever texts are logged                         *)
(* (strategy.go:353-397, 585-606, 669-742).                                *)
THEOREM UsageIsAddedUp == LedgerSpec => []UsageAddsUp
  <1>1. ASSUME LogInv PROVE UsageAddsUp
    <2>1. \A id \in Ids : EventsOf(id) \in Seq(Kept)
      BY <1>1, EventsOfType
    <2> QED BY <2>1, TotalIsTheSum DEF UsageAddsUp
  <1> QED BY <1>1, LogInvAlways, PTL
=============================================================================
