--------------------------- MODULE StrategyLedger ---------------------------
(***************************************************************************)
(* strategy.go: the tables strategies and strategy_events, and the         *)
(* commands create, activate, observe, log, close and next, each in a      *)
(* process of its own.  As in LockProtocol one action is one SQL statement *)
(* and what follows it up to the next.                                     *)
(*                                                                         *)
(* Names, theses and times are left out, and so are notes other than those *)
(* of resource_usage events, which nothing reads but a person.  An event   *)
(* knows whether its note is the outcome passed to `strategy close`, and   *)
(* the flags if `strategy log-usage` wrote it; no action reads either.     *)
(* The index of a sequence is the row's id; neither table ever loses a     *)
(* row.                                                                    *)
(***************************************************************************)
EXTENDS UsageNotes, FiniteSets

CONSTANTS
    Process,        \* slots in which one command runs at a time
    Group,          \* values of -group
    NoGroup,        \* group_name NULL
    KindArg,        \* values of -kind, unknown ones included
    LogNote,        \* values of -note of `strategy log`: any text
    UsageArg,       \* flags of `strategy log-usage`
    NoUsage,        \* the flags of an event that log-usage did not write
    RecentCap,      \* recentEventsCap: 10 in strategy.go
    MaxStrategies,  \* bound: strategies ever created
    MaxEvents,      \* bound: events ever logged
    MaxCloses       \* bound: `strategy close` commands

ASSUME StrategyLedgerAssumption ==
    /\ RecentCap \in Nat \ {0}
    /\ MaxStrategies \in Nat
    /\ MaxEvents \in Nat
    /\ MaxCloses \in Nat
    /\ NoGroup \notin Group
    /\ LogNote \subseteq Note
    /\ UsageArg \subseteq UsageFlags
    /\ NoUsage \notin UsageFlags
    /\ IsFiniteSet(Process)

Status == {"planning", "active", "observing", "closed"}

(* The event kinds that matter here; reflection stands for step_started,   *)
(* finding and decision too.                                               *)
Kind == {"step_completed", "reflection", "resource_usage"}

Strategy == [status : Status, stamped : BOOLEAN, group : Group \cup {NoGroup}]

StrategyEvent == [strategy : Nat \ {0}, kind : Kind, note : Note,
                  outcome : BOOLEAN, usage : UsageFlags \cup {NoUsage}]

(* An id with no row, such as a mistyped one. *)
UnknownId == 0

VARIABLES
    strategies,     \* table strategies; stamped: closed_at is not NULL
    strategyEvents, \* table strategy_events
    pc,             \* next statement of the command in each slot
    event,          \* the event a command is about to log, by process
    group,          \* the group a `strategy create` is about to set
    recap,          \* locals of `strategy next`, by process
    closes,         \* history: status writes of CloseStrategy, by strategy
    lostCloses      \* history: those whose event was lost to an abort

ledgerVars == <<strategies, strategyEvents, pc, event, group, recap, closes, lostCloses>>

(* The note of an event that no `usage` looks at. *)
Unread == <<>>

NoEvent == [strategy |-> UnknownId, kind |-> "reflection", note |-> Unread,
            outcome |-> FALSE, usage |-> NoUsage]

(* total: events of the strategy at the first read of `strategy next`;     *)
(* from..to: the positions it prints as recent, as of the second read.     *)
NoRecap == [strategy |-> UnknownId, total |-> 0, from |-> 1, to |-> 0]

LedgerTypeOK ==
    /\ strategies \in Seq(Strategy)
    /\ strategyEvents \in Seq(StrategyEvent)
    /\ \A e \in DOMAIN strategyEvents : strategyEvents[e].strategy \in DOMAIN strategies
    /\ pc \in [Process -> {"idle", "setGroup", "checkStrategy", "insertEvent", "readRecent", "readLocks"}]
    /\ event \in [Process -> [strategy : Nat, kind : Kind, note : Note,
                              outcome : BOOLEAN, usage : UsageFlags \cup {NoUsage}]]
    /\ group \in [Process -> Group \cup {NoGroup}]
    /\ recap \in [Process -> [strategy : Nat, total : Nat, from : Nat \ {0}, to : Nat]]
    /\ closes \in [1..MaxStrategies -> Nat]
    /\ lostCloses \in [1..MaxStrategies -> Nat]

LedgerInit ==
    /\ strategies = <<>>
    /\ strategyEvents = <<>>
    /\ pc = [p \in Process |-> "idle"]
    /\ event = [p \in Process |-> NoEvent]
    /\ group = [p \in Process |-> NoGroup]
    /\ recap = [p \in Process |-> NoRecap]
    /\ closes = [id \in 1..MaxStrategies |-> 0]
    /\ lostCloses = [id \in 1..MaxStrategies |-> 0]

Ids == DOMAIN strategies
AnyId == Ids \cup {UnknownId}

Goto(p, label) == pc' = [pc EXCEPT ![p] = label]

-----------------------------------------------------------------------------
(* create, activate, observe *)

(* The group is written by a second statement. *)
CreateStrategy(p, g) ==
    /\ pc[p] = "idle"
    /\ Len(strategies) < MaxStrategies
    /\ strategies' = Append(strategies,
            [status |-> "planning", stamped |-> FALSE, group |-> NoGroup])
    /\ \/ g = NoGroup /\ UNCHANGED <<pc, event, group>>
       \/ /\ g # NoGroup
          /\ Goto(p, "setGroup")
          /\ group' = [group EXCEPT ![p] = g]
          /\ event' = [event EXCEPT ![p].strategy = Len(strategies')]
    /\ UNCHANGED <<strategyEvents, recap, closes, lostCloses>>

SetStrategyGroup(p) ==
    /\ pc[p] = "setGroup"
    /\ strategies' = [strategies EXCEPT ![event[p].strategy].group = group[p]]
    /\ Goto(p, "idle")
    /\ group' = [group EXCEPT ![p] = NoGroup]
    /\ event' = [event EXCEPT ![p] = NoEvent]
    /\ UNCHANGED <<strategyEvents, recap, closes, lostCloses>>

(* Mutant: the subcommand's verb is stored for the status it stands for. *)
SetStrategyStatusToVerb(id, status) ==
    /\ strategies' = [strategies EXCEPT ![id].status =
                         IF status = "active" THEN "activate" ELSE "observe"]
    /\ UNCHANGED <<strategyEvents, pc, event, group, recap, closes, lostCloses>>

(* Any strategy, a closed one too; closed_at keeps its stamp.  An unknown  *)
(* id changes no row and is reported.                                      *)
SetStrategyStatus(id, status) ==
    /\ strategies' = [strategies EXCEPT ![id].status = status]
    /\ UNCHANGED <<strategyEvents, pc, event, group, recap, closes, lostCloses>>

-----------------------------------------------------------------------------
(* log, log-usage and close *)

StartEvent(p, e) ==
    /\ pc[p] = "idle"
    /\ Goto(p, "checkStrategy")
    /\ event' = [event EXCEPT ![p] = e]
    /\ UNCHANGED <<strategies, strategyEvents, group, recap, closes, lostCloses>>

(* Any text may be logged under any kind, resource_usage included.         *)
StartLog(p, id, kind, note) ==
    /\ kind \in Kind
    /\ StartEvent(p, [strategy |-> id, kind |-> kind,
                      note |-> IF kind = "resource_usage" THEN note ELSE Unread,
                      outcome |-> FALSE, usage |-> NoUsage])

(* A negative amount is refused before the store is opened. *)
StartLogUsage(p, id, flags) ==
    /\ flags.tokens >= 0
    /\ StartEvent(p, [strategy |-> id, kind |-> "resource_usage",
                      note |-> ResourceUsageNote(flags),
                      outcome |-> FALSE, usage |-> flags])

(* The status and closed_at first, the event by LogStrategyEvent after.    *)
CloseStrategy(p, id) ==
    /\ pc[p] = "idle"
    /\ closes[id] < MaxCloses
    /\ strategies' = [strategies EXCEPT ![id].status = "closed", ![id].stamped = TRUE]
    /\ Goto(p, "checkStrategy")
    /\ event' = [event EXCEPT ![p] =
            [strategy |-> id, kind |-> "reflection", note |-> Unread,
             outcome |-> TRUE, usage |-> NoUsage]]
    /\ closes' = [closes EXCEPT ![id] = @ + 1]
    /\ UNCHANGED <<strategyEvents, group, recap, lostCloses>>

(* Mutant: a closed strategy takes no more events. *)
CheckStrategyOpen(p) ==
    LET open == event[p].strategy \in Ids /\ strategies[event[p].strategy].status # "closed" IN
    /\ pc[p] = "checkStrategy"
    /\ \/ open /\ Goto(p, "insertEvent") /\ UNCHANGED event
       \/ ~open /\ Goto(p, "idle") /\ event' = [event EXCEPT ![p] = NoEvent]
    /\ UNCHANGED <<strategies, strategyEvents, group, recap, closes, lostCloses>>

(* LogStrategyEvent: GetStrategy ... *)
CheckStrategy(p) ==
    LET exists == event[p].strategy \in Ids IN
    /\ pc[p] = "checkStrategy"
    /\ \/ exists /\ Goto(p, "insertEvent") /\ UNCHANGED event
       \/ ~exists /\ Goto(p, "idle") /\ event' = [event EXCEPT ![p] = NoEvent]
    /\ UNCHANGED <<strategies, strategyEvents, group, recap, closes, lostCloses>>

(* ... then the INSERT. *)
InsertEvent(p) ==
    /\ pc[p] = "insertEvent"
    /\ Len(strategyEvents) < MaxEvents
    /\ strategyEvents' = Append(strategyEvents, event[p])
    /\ Goto(p, "idle")
    /\ event' = [event EXCEPT ![p] = NoEvent]
    /\ UNCHANGED <<strategies, group, recap, closes, lostCloses>>

-----------------------------------------------------------------------------
(* next *)

(* ListStrategyEvents: the strategy's events by rowid.  Like the other     *)
(* passes over a log below, this is a loop one can prove about.            *)
EventsIn(log, id) ==
    LET found[n \in 0..Len(log)] ==
            IF n = 0 THEN <<>>
            ELSE IF log[n].strategy = id THEN Append(found[n - 1], log[n])
            ELSE found[n - 1]
    IN  found[Len(log)]

EventsOf(id) == EventsIn(strategyEvents, id)

(* Mutant: the recap starts after the completed step. *)
RecentStartExclusive(all) ==
    LET completed == {i \in DOMAIN all : all[i].kind = "step_completed"}
        start == IF completed = {} THEN 1
                 ELSE (CHOOSE i \in completed : \A j \in completed : j <= i) + 1
        capped == Len(all) - RecentCap + 1
    IN  IF start < capped THEN capped ELSE start

(* RecentStrategyEvents: where the recent events begin. *)
RecentStart(all) ==
    LET completed == {i \in DOMAIN all : all[i].kind = "step_completed"}
        start == IF completed = {} THEN 1
                 ELSE CHOOSE i \in completed : \A j \in completed : j <= i
        capped == Len(all) - RecentCap + 1
    IN  IF start < capped THEN capped ELSE start

(* `strategy next` lists the events for their number, then once more, in   *)
(* RecentStrategyEvents, for the recent ones.                              *)
StartNext(p, id) ==
    /\ pc[p] = "idle"
    /\ Goto(p, "readRecent")
    /\ recap' = [recap EXCEPT ![p] = [NoRecap EXCEPT !.strategy = id,
                                                     !.total = Len(EventsOf(id))]]
    /\ UNCHANGED <<strategies, strategyEvents, event, group, closes, lostCloses>>

ReadRecent(p) ==
    LET all == EventsOf(recap[p].strategy) IN
    /\ pc[p] = "readRecent"
    /\ Goto(p, "readLocks")
    /\ recap' = [recap EXCEPT ![p].from = RecentStart(all), ![p].to = Len(all)]
    /\ UNCHANGED <<strategies, strategyEvents, event, group, closes, lostCloses>>

(* The recap is printed, ListLocks is read and printed, and that is all.   *)
ReadLocks(p) ==
    /\ pc[p] = "readLocks"
    /\ Goto(p, "idle")
    /\ recap' = [recap EXCEPT ![p] = NoRecap]
    /\ UNCHANGED <<strategies, strategyEvents, event, group, closes, lostCloses>>

-----------------------------------------------------------------------------
(* usage *)

(* cmdStrategyUsage: one read of the log, one pass over it. *)
TotalIn(events, name) ==
    LET total[n \in 0..Len(events)] ==
            IF n = 0 THEN 0
            ELSE IF events[n].kind = "resource_usage"
                 THEN AddUsage(total[n - 1], events[n].note, name)
            ELSE total[n - 1]
    IN  total[Len(events)]

-----------------------------------------------------------------------------
(* A kill or a failing statement. *)
Abort(p) ==
    /\ pc[p] # "idle"
    /\ Goto(p, "idle")
    /\ lostCloses' = IF event[p].outcome
                     THEN [lostCloses EXCEPT ![event[p].strategy] = @ + 1]
                     ELSE lostCloses
    /\ event' = [event EXCEPT ![p] = NoEvent]
    /\ group' = [group EXCEPT ![p] = NoGroup]
    /\ recap' = [recap EXCEPT ![p] = NoRecap]
    /\ UNCHANGED <<strategies, strategyEvents, closes>>

-----------------------------------------------------------------------------
LedgerNext ==
    \/ \E p \in Process :
          \/ \E g \in Group \cup {NoGroup} : CreateStrategy(p, g)
          \/ SetStrategyGroup(p)
          \/ \E id \in AnyId, kind \in KindArg, note \in LogNote :
                StartLog(p, id, kind, note)
          \/ \E id \in AnyId, flags \in UsageArg : StartLogUsage(p, id, flags)
          \/ \E id \in Ids : CloseStrategy(p, id)
          \/ CheckStrategy(p)
          \/ InsertEvent(p)
          \/ \E id \in Ids : StartNext(p, id)
          \/ ReadRecent(p)
          \/ ReadLocks(p)
          \/ Abort(p)
    \/ \E id \in Ids, status \in {"active", "observing"} : SetStrategyStatus(id, status)

LedgerSpec == LedgerInit /\ [][LedgerNext]_ledgerVars

-----------------------------------------------------------------------------
(* Properties *)

Outcomes(id) ==
    Cardinality({e \in DOMAIN strategyEvents :
                    strategyEvents[e].strategy = id /\ strategyEvents[e].outcome})

Closing(id) == {p \in Process : event[p].strategy = id /\ event[p].outcome}

(* "a strategy never goes quiet with just a status flip and no trace of    *)
(* why" (strategy.go:191-192), as far as it holds: every status write of   *)
(* CloseStrategy is matched by one outcome event, unless the process is    *)
(* still between the two statements or was stopped there.  Closing twice,  *)
(* closing concurrently, reopening and logging to a closed strategy do not *)
(* disturb it.                                                             *)
EveryCloseIsTraced ==
    \A id \in Ids :
        closes[id] = Outcomes(id) + Cardinality(Closing(id)) + lostCloses[id]

(* What `strategy next` prints is what strategy.go:286-309 says: an event  *)
(* is recent when it is among the last RecentCap and no step was completed *)
(* after it, in the log as it stood at one moment, whoever logged events   *)
(* since the command began.                                                *)
RecapIsRecent ==
    \A p \in Process :
        LET r == recap[p]
            log == EventsOf(r.strategy)
        IN  pc[p] = "readLocks" =>
               /\ r.total <= r.to
               /\ \A i \in 1..r.to :
                     i \in r.from..r.to <=>
                        /\ i > r.to - RecentCap
                        /\ \A j \in (i + 1)..r.to : log[j].kind # "step_completed"

(* What an event adds to the tokens of a harness: of a line of log-usage   *)
(* the amount its caller gave, and of a note that was typed into           *)
(* `strategy log` the amount it states, if it is in the same format.       *)
Amount(e, name) ==
    IF e.usage # NoUsage
    THEN IF Booked(e.usage.harness, name) THEN e.usage.tokens ELSE 0
    ELSE IF e.kind = "resource_usage" /\ SpeaksOf(e.note, name)
         THEN Last(e.note, "tokens").amount ELSE 0

SpentIn(events, name) ==
    LET spent[n \in 0..Len(events)] ==
            IF n = 0 THEN 0 ELSE spent[n - 1] + Amount(events[n], name)
    IN  spent[Len(events)]

(* `usage` adds up what was recorded: every amount given to log-usage,     *)
(* unless its -harness has a word that cannot be read after a blank, once  *)
(* and under one name; and every note of plain `strategy log` that is in   *)
(* log-usage's format, which the program cannot tell from one of           *)
(* log-usage.  Prose, unknown fields, refused amounts or costs and an      *)
(* empty harness keep a note out (strategy.go:353-391, strategy_test.go:   *)
(* 469-479), and nothing is ever booked under the empty name.  The one way *)
(* a total is not the sum is that it exceeds an int64 (strategy.go:716).   *)
UsageAddsUp ==
    \A id \in Ids :
        LET events == EventsOf(id)
        IN  \A name \in HarnessValue : TotalIn(events, name) = Wrap(SpentIn(events, name))

-----------------------------------------------------------------------------
(* Claims of the repository that the code does not keep *)

(* The heading of the recap reads "no step_completed logged yet - this is  *)
(* the full log" (strategy.go:864) when as many events are recent as there *)
(* are in all; then none of them is a completed step.                      *)
HeadingIsTrue ==
    \A p \in Process :
        LET r == recap[p]
            log == EventsOf(r.strategy)
        IN  pc[p] = "readLocks" /\ r.total > 0 /\ r.to - r.from + 1 = r.total =>
               \A i \in r.from..r.to : log[i].kind # "step_completed"
=============================================================================
