----------------------------- MODULE Collection -----------------------------
(***************************************************************************)
(* The heartbeat of one account (account.py, tiers.py): a batch serves the *)
(* due tiers in order, each tier collects every followed child, publishes   *)
(* the snapshots and fires the changes the detector saw (delta.py).         *)
(*                                                                         *)
(* A unit of work (one tier, one child) reads its priority, makes sure of a *)
(* session, passes the quiet hours of the limiter and places its requests:  *)
(* one step each, with time, the button and reloads in between.  Between    *)
(* two units the event loop is not given up.  The other layers of the       *)
(* limiter may defer a unit for any delay: RateLimiter says when they do.   *)
(* The session is the lazy one of SessionManager, without its expiries.     *)
(***************************************************************************)
EXTENDS FetchScheduler

CONSTANTS
    Children,         \* the followed children, in the order they are collected
    EventTiers,       \* tiers whose changes are announced
    FirstAttempts,    \* _FIRST_COLLECTION_ATTEMPTS
    PresumedDead,     \* PRESUMED_DEAD_AFTER_SECONDS
    DayLength, NightStart,   \* quiet hours run from NightStart to the day's end
    Grace,            \* BATCH_GRACE_SECONDS
    RetryDelays,      \* delays the limiter may ask for
    MayFail,          \* FALSE: no unit of work fails, none but quiet hours defers
    StartTimes,       \* the hours at which Home Assistant may start
    MaxClock,         \* bound on time
    MaxFailures,      \* bound on the failures of one tier
    MaxReloads        \* bound on reloads

Roster == {Children[i] : i \in DOMAIN Children}
NoTier == "none"

ASSUME CollectionAssumption ==
    /\ Children \in Seq(Roster) /\ Children # <<>>
    /\ \A i, j \in DOMAIN Children : Children[i] = Children[j] => i = j
    /\ EventTiers \subseteq Tiers /\ NoTier \notin Tiers
    /\ {FirstAttempts, PresumedDead, DayLength, NightStart, Grace} \subseteq Nat
    /\ 0 < PresumedDead /\ 0 < DayLength /\ NightStart <= DayLength
    /\ RetryDelays \subseteq Nat /\ StartTimes \subseteq Nat
    /\ MayFail \in BOOLEAN
    /\ {MaxClock, MaxFailures, MaxReloads} \subseteq Nat

VARIABLES
    batchStart,      \* when the running batch began, or None
    running,         \* the tier being collected, or NoTier
    queue,           \* the due tiers the batch has not reached
    todo,            \* the children of the running tier not collected yet
    phase,           \* of the unit of work: "idle", "connect", "check", "placed"
    pass,            \* the priority its collection read
    events,          \* children whose change the running tier has detected
    lastSuccess,     \* of the held session, or None when none is held
    data,            \* (tier, child) pairs with a snapshot
    primed,          \* pairs the detector has seen once
    news,            \* pairs for which the school published something unseen
    failedAt,        \* history, per tier: its last failure, until a press is armed
    early,           \* history, per tier: its last collection ahead of its deadline
    nightCost,       \* history, per tier: failed collections that had a first collection's pass
    reloads

unitVars == <<running, queue, todo, phase, pass, events>>
dataVars == <<data, primed, news>>
historyVars == <<failedAt, early, nightCost>>
vars == <<clock, lastCollected, notBefore, boosted, servedAt, failures, batchStart, running,
          queue, todo, phase, pass, events, lastSuccess, data, primed, news, failedAt,
          early, nightCost, reloads>>

EventPairs == EventTiers \X Roster

-----------------------------------------------------------------------------
(* Priorities and quiet hours.                                             *)

Quiet(now) == now % DayLength >= NightStart
UntilDawn == DayLength - (clock % DayLength)

\* A batch begun before the quiet hours may finish in them, for a while.
BatchMayFinish ==
    batchStart # None /\ ~Quiet(batchStart) /\ clock - batchStart <= Grace

\* _priority_for: a first collection that has not failed too often is critical.
PassOf_UntilItWorks(t, c) ==
    IF <<t, c>> \notin data THEN "critical"
    ELSE IF boosted[t] THEN "gesture" ELSE "declared"
PassOf(t, c) ==
    IF <<t, c>> \notin data /\ failures[t] < FirstAttempts THEN "critical"
    ELSE IF boosted[t] THEN "gesture" ELSE "declared"

Admissible == Quiet(clock) => pass # "declared" \/ BatchMayFinish
SessionDue == lastSuccess = None \/ clock - lastSuccess >= PresumedDead

\* The pass the next unit reads: evaluated in the state a step leads to.
NextPass == IF todo = <<>> THEN "declared" ELSE PassOf(running, Head(todo))

-----------------------------------------------------------------------------
(* The batch.                                                              *)

\* The unit is over for its tier: the batch goes on with the next one, or ends.
Proceed_LeavesTheBatchOpen ==
    /\ events' = {}
    /\ queue' = IF queue = <<>> THEN <<>> ELSE Tail(queue)
    /\ running' = IF queue = <<>> THEN NoTier ELSE Head(queue)
    /\ todo' = IF queue = <<>> THEN <<>> ELSE Children
    /\ phase' = IF queue = <<>> THEN "idle" ELSE "connect"
    /\ pass' = NextPass'
    /\ UNCHANGED batchStart
Proceed ==
    /\ events' = {}
    /\ queue' = IF queue = <<>> THEN <<>> ELSE Tail(queue)
    /\ running' = IF queue = <<>> THEN NoTier ELSE Head(queue)
    /\ todo' = IF queue = <<>> THEN <<>> ELSE Children
    /\ phase' = IF queue = <<>> THEN "idle" ELSE "connect"
    /\ pass' = NextPass'
    /\ batchStart' = IF queue = <<>> THEN None ELSE batchStart

\* _async_tick, _async_run_batch: a heartbeat while a batch runs is skipped.
Heartbeat ==
    /\ running = NoTier
    /\ Due # {}
    /\ \E order \in DueOrders : running' = order[1] /\ queue' = Tail(order)
    /\ todo' = Children
    /\ phase' = "connect"
    /\ batchStart' = clock
    /\ UNCHANGED <<clock, schedulerVars, events, lastSuccess, dataVars, historyVars, reloads>>
    /\ pass' = NextPass'

\* The button and the refresh service; the heartbeat they wake is a Heartbeat.
Refresh(targets) ==
    /\ Press(targets)
    /\ failedAt' = [t \in Tiers |->
                      IF t \in targets /\ BoostAllowed(t) THEN None ELSE failedAt[t]]
    /\ UNCHANGED <<clock, batchStart, unitVars, lastSuccess, dataVars, early, nightCost, reloads>>

-----------------------------------------------------------------------------
(* A unit of work: the session first, the limiter after it.                *)

HoldSession ==
    /\ phase = "connect" /\ ~SessionDue
    /\ phase' = "check"
    /\ UNCHANGED <<clock, schedulerVars, batchStart, running, queue, todo, pass, events,
                   lastSuccess, dataVars, historyVars, reloads>>

\* A login is not subject to quiet hours.
LogIn ==
    /\ phase = "connect" /\ SessionDue
    /\ lastSuccess' = clock
    /\ phase' = "check"
    /\ UNCHANGED <<clock, schedulerVars, batchStart, running, queue, todo, pass, events,
                   dataVars, historyVars, reloads>>

Admit ==
    /\ phase = "check" /\ Admissible
    /\ phase' = "placed"
    /\ UNCHANGED <<clock, schedulerVars, batchStart, running, queue, todo, pass, events,
                   lastSuccess, dataVars, historyVars, reloads>>

\* TierDeferred by quiet hours: the rest of the tier is left for later.
QuietHoursRefuse ==
    /\ phase = "check" /\ ~Admissible
    /\ Defer(running, UntilDawn)
    /\ UNCHANGED data
    /\ Proceed
    /\ UNCHANGED <<clock, lastSuccess, primed, news, historyVars, reloads>>

\* TierDeferred by any other layer of the limiter.
LimiterDefers(delay) ==
    /\ MayFail
    /\ phase \in {"check", "placed"}
    /\ Defer(running, delay)
    /\ UNCHANGED data
    /\ Proceed
    /\ UNCHANGED <<clock, lastSuccess, primed, news, historyVars, reloads>>

\* Any other exception: a login the limiter or the server refuses, a login or a
\* call that is lost, an answer that cannot be read.
UnitFails(delay) ==
    /\ MayFail
    /\ phase = "placed" \/ (phase = "connect" /\ SessionDue)
    /\ failures[running] < MaxFailures
    /\ lastSuccess' \in IF phase = "connect" THEN {None} ELSE {lastSuccess, None}
    /\ MarkFailed(running, delay)
    /\ failedAt' = [failedAt EXCEPT ![running] = clock]
    /\ nightCost' = IF phase = "placed" /\ pass = "critical"
                    THEN [nightCost EXCEPT ![running] = @ + 1]
                    ELSE nightCost
    /\ UNCHANGED data
    /\ Proceed
    /\ UNCHANGED <<clock, primed, news, early, reloads>>

-----------------------------------------------------------------------------
(* The answer: the detector, the publication, and the events at the end.   *)

Answered(c) ==
    /\ phase = "placed" /\ c = Head(todo)
    /\ lastSuccess' = clock
    /\ data' = data \union {<<running, c>>}
    /\ primed' = primed \union {<<running, c>>}
    /\ news' = news \ {<<running, c>>}

Detected(c) == <<running, c>> \in primed \intersect news

CollectChild(c) ==
    /\ Answered(c)
    /\ Len(todo) > 1
    /\ events' = IF Detected(c) THEN events \union {c} ELSE events
    /\ UNCHANGED <<schedulerVars, running, queue>>
    /\ todo' = Tail(todo)
    /\ phase' = "connect"
    /\ pass' = NextPass'
    /\ UNCHANGED <<clock, batchStart, historyVars, reloads>>

\* Every event of the tier is fired, the last child's with them.
CollectLastChild(c) ==
    /\ Answered(c)
    /\ Len(todo) = 1
    /\ MarkCollected(running)
    /\ failedAt' = [failedAt EXCEPT ![running] = None]
    /\ early' = IF DeadlinePassed(running) THEN early ELSE [early EXCEPT ![running] = clock]
    /\ Proceed
    /\ UNCHANGED <<clock, nightCost, reloads>>

-----------------------------------------------------------------------------
(* The environment.                                                        *)

\* An options change: async_unload, async_setup and its login.  The detector
\* starts again; a child the new login does not pair loses its snapshots.
Restart(kept, restored) ==
    /\ data' = kept
    /\ Restore(restored)
    /\ primed' = {} /\ news' = {}
    /\ batchStart' = None /\ running' = NoTier /\ queue' = <<>> /\ todo' = <<>>
    /\ phase' = "idle" /\ pass' = "declared" /\ events' = {}
    /\ lastSuccess' = clock
    /\ failedAt' = [t \in Tiers |-> None] /\ early' = [t \in Tiers |-> None]
    /\ nightCost' = [t \in Tiers |-> 0]
    /\ reloads' = reloads + 1
    /\ UNCHANGED clock

Reload_KeepsDeadlines(paired) ==
    /\ reloads < MaxReloads
    /\ LET kept == {pair \in data : pair[2] \in paired}
       IN  Restart(kept, Tiers)
Reload(paired) ==
    /\ reloads < MaxReloads
    /\ LET kept == {pair \in data : pair[2] \in paired}
       IN  Restart(kept, {t \in Tiers : \A c \in Roster : <<t, c>> \in kept})

\* The school publishes a mark, a lesson change, a message.
SchoolPublishes(pair) ==
    /\ pair \notin news
    /\ news' = news \union {pair}
    /\ UNCHANGED <<clock, schedulerVars, batchStart, unitVars, lastSuccess, data, primed,
                   historyVars, reloads>>

Tick ==
    /\ clock < MaxClock
    /\ clock' = clock + 1
    /\ UNCHANGED <<schedulerVars, batchStart, unitVars, lastSuccess, dataVars, historyVars,
                   reloads>>

-----------------------------------------------------------------------------
Init ==
    /\ clock \in StartTimes
    /\ SchedulerInit
    /\ batchStart = None /\ running = NoTier /\ queue = <<>> /\ todo = <<>>
    /\ phase = "idle" /\ pass = "declared" /\ events = {}
    /\ lastSuccess = clock
    /\ data = {} /\ primed = {} /\ news = {}
    /\ failedAt = [t \in Tiers |-> None] /\ early = [t \in Tiers |-> None]
    /\ nightCost = [t \in Tiers |-> 0]
    /\ reloads = 0

BatchStep ==
    \/ Heartbeat
    \/ HoldSession \/ LogIn
    \/ Admit \/ QuietHoursRefuse
    \/ \E d \in RetryDelays : LimiterDefers(d) \/ UnitFails(d)
    \/ \E c \in Roster : CollectChild(c) \/ CollectLastChild(c)

Next ==
    \/ BatchStep
    \/ \E targets \in SUBSET Enabled : targets # {} /\ Refresh(targets)
    \/ \E paired \in SUBSET Roster : Reload(paired)
    \/ \E pair \in EventPairs : SchoolPublishes(pair)
    \/ Tick

Spec == Init /\ [][Next]_vars

-----------------------------------------------------------------------------
(* Properties.                                                             *)

\* Type correctness, and what a batch is: it is open exactly while a tier is
\* being collected, the tiers it still has to serve are distinct and never the
\* one being served, and only announced children of that tier have events.
TypeOK ==
    /\ clock \in Nat /\ batchStart \in Nat \union {None}
    /\ running \in Enabled \union {NoTier}
    /\ phase \in {"idle", "connect", "check", "placed"}
    /\ pass \in {"critical", "gesture", "declared"}
    /\ {lastCollected[t] : t \in Tiers} \union {servedAt[t] : t \in Tiers}
          \union {lastSuccess, batchStart} \subseteq 0 .. clock \union {None}
    /\ boosted \in [Tiers -> BOOLEAN] /\ failures \in [Tiers -> 0 .. MaxFailures]
    /\ notBefore \in [Tiers -> Nat]
    /\ data \union primed \subseteq Tiers \X Roster
    /\ (running = NoTier) = (batchStart = None) /\ (running = NoTier) = (phase = "idle")
    /\ (running = NoTier) = (todo = <<>>) /\ (running = NoTier => queue = <<>>)
    /\ \A i, j \in DOMAIN queue :
          queue[i] \in Enabled \ {running} /\ (i # j => queue[i] # queue[j])
    /\ events \subseteq Roster \ {todo[i] : i \in DOMAIN todo}

\* A tier answers at most one collection ahead of its deadline per interval,
\* however often the button is pressed and whenever: before a batch, while the
\* tier is in flight, after a deferral (scheduler.request, "at most one boost
\* per tier per interval").
EarlyOncePerInterval ==
    [][\A t \in Tiers :
         early'[t] # early[t] /\ early[t] # None /\ early'[t] # None
            => early'[t] >= early[t] + Interval[t]]_vars

\* A tier that failed is not collected again before its share of the interval
\* has passed, whatever the limiter advised and whatever the other tiers do,
\* unless a person asks (scheduler.mark_failed).
FailedTierPaced ==
    [][\A t \in Tiers :
         running' = t /\ running # t /\ failedAt[t] # None
            => clock >= failedAt[t] + RetryFloor(t)]_vars

\* A tier that cannot succeed costs its first-collection pass FirstAttempts
\* collections at most, over every night until a reload (tiers._priority_for).
PassBounded == \A t \in Tiers : nightCost[t] <= FirstAttempts

\* A tier is only told to wait for its next deadline when every child has its
\* snapshot: schedule and data cross a reload together or not at all
\* (account._restore_snapshots).
DeadlineHasData ==
    \A t \in Tiers : lastCollected[t] # None => \A c \in Roster : <<t, c>> \in data
=============================================================================
