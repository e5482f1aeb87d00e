--------------------------- MODULE FetchScheduler ---------------------------
(***************************************************************************)
(* When each tier of data is due (scheduler.py): its deadline, the earliest *)
(* retry after a deferral or a failure, and the boost a person may give it. *)
(* The tiers' plans are constants: an options change reloads the entry.     *)
(* Counters kept for diagnostics only are left out.                         *)
(***************************************************************************)
EXTENDS Integers, Sequences, FiniteSets

CONSTANTS
    Tiers,
    Enabled,             \* the tiers switched on
    Interval,            \* per tier, in ticks
    Rank,                \* per tier: PRIORITY_RANK of its declared priority
    TieBreak,            \* per tier: its place in the order of tier names
    RetriesPerInterval   \* _RETRIES_PER_INTERVAL

ASSUME SchedulerAssumption ==
    /\ IsFiniteSet(Tiers) /\ Enabled \subseteq Tiers
    /\ Interval \in [Tiers -> Nat \ {0}]
    /\ Rank \in [Tiers -> 0 .. 3]
    /\ TieBreak \in [Tiers -> Nat]
    /\ \A t, u \in Tiers : TieBreak[t] = TieBreak[u] => t = u
    /\ RetriesPerInterval \in Nat \ {0}

VARIABLES
    clock,
    lastCollected,   \* per tier, or None
    notBefore,
    boosted,
    servedAt,        \* boost_served_at, or None
    failures         \* consecutive failed collections

schedulerVars == <<lastCollected, notBefore, boosted, servedAt, failures>>

None == -1
Longest(a, b) == IF a >= b THEN a ELSE b
Shortest(a, b) == IF a <= b THEN a ELSE b

-----------------------------------------------------------------------------
(* due: which tiers should run, and in which order.                        *)

DeadlinePassed(t) ==
    lastCollected[t] = None \/ clock - lastCollected[t] >= Interval[t]
Due ==
    {t \in Enabled : clock >= notBefore[t] /\ (DeadlinePassed(t) \/ boosted[t])}

\* A tier never collected is more overdue than any other.
Overdue(t) ==
    IF lastCollected[t] = None THEN clock + 1 ELSE clock - lastCollected[t] - Interval[t]

\* A boost is worth one rank, and never the rank of the session.
BoostedRank(t) == IF boosted[t] THEN Longest(1, Rank[t] - 1) ELSE Rank[t]

Before(t, u) ==
    \/ BoostedRank(t) < BoostedRank(u)
    \/ /\ BoostedRank(t) = BoostedRank(u)
       /\ \/ Overdue(t) > Overdue(u)
          \/ Overdue(t) = Overdue(u) /\ TieBreak[t] < TieBreak[u]

\* Ties are broken by name: there is one such order.
DueOrders ==
    {order \in [1 .. Cardinality(Due) -> Due] :
        \A i, j \in DOMAIN order : i < j => Before(order[i], order[j])}

-----------------------------------------------------------------------------
(* Outcomes of a collection.                                               *)

MarkCollected_ForgetsTheBoost(t) ==
    /\ UNCHANGED servedAt
    /\ lastCollected' = [lastCollected EXCEPT ![t] = clock]
    /\ notBefore' = [notBefore EXCEPT ![t] = 0]
    /\ boosted' = [boosted EXCEPT ![t] = FALSE]
    /\ failures' = [failures EXCEPT ![t] = 0]
MarkCollected(t) ==
    /\ servedAt' = [servedAt EXCEPT ![t] = IF boosted[t] THEN clock ELSE @]
    /\ lastCollected' = [lastCollected EXCEPT ![t] = clock]
    /\ notBefore' = [notBefore EXCEPT ![t] = 0]
    /\ boosted' = [boosted EXCEPT ![t] = FALSE]
    /\ failures' = [failures EXCEPT ![t] = 0]

\* The deadline moves by the limiter's delay, by one interval at most.
PushBack(t, retryAfter) ==
    /\ notBefore' = [notBefore EXCEPT ![t] = clock + Shortest(retryAfter, Interval[t])]
    /\ boosted' = [boosted EXCEPT ![t] = FALSE]
    /\ UNCHANGED <<lastCollected, servedAt>>

Defer(t, retryAfter) == PushBack(t, retryAfter) /\ UNCHANGED failures

\* A failing tier waits a share of its own interval at least, whatever the
\* limiter says: in ticks, the share is rounded up.
RetryFloor(t) == (Interval[t] + RetriesPerInterval - 1) \div RetriesPerInterval
MarkFailed_NoFloor(t, retryAfter) ==
    /\ failures' = [failures EXCEPT ![t] = @ + 1]
    /\ PushBack(t, retryAfter)
MarkFailed(t, retryAfter) ==
    /\ failures' = [failures EXCEPT ![t] = @ + 1]
    /\ PushBack(t, Longest(retryAfter, RetryFloor(t)))

\* request: a person asks; refused while a boost was served within the interval.
BoostAllowed(t) ==
    t \in Enabled /\ (servedAt[t] = None \/ clock - servedAt[t] >= Interval[t])
Press(targets) ==
    LET armed == {t \in targets : BoostAllowed(t)}
    IN  /\ boosted' = [t \in Tiers |-> boosted[t] \/ t \in armed]
        /\ notBefore' = [t \in Tiers |-> IF t \in armed THEN 0 ELSE notBefore[t]]
        /\ UNCHANGED <<lastCollected, servedAt, failures>>

\* A new scheduler, given the deadlines of the tiers whose data came back.
Restore(tiers) ==
    /\ lastCollected' = [t \in Tiers |-> IF t \in tiers THEN lastCollected[t] ELSE None]
    /\ notBefore' = [t \in Tiers |-> 0]
    /\ boosted' = [t \in Tiers |-> FALSE]
    /\ servedAt' = [t \in Tiers |-> None]
    /\ failures' = [t \in Tiers |-> 0]

SchedulerInit ==
    /\ lastCollected = [t \in Tiers |-> None]
    /\ notBefore = [t \in Tiers |-> 0]
    /\ boosted = [t \in Tiers |-> FALSE]
    /\ servedAt = [t \in Tiers |-> None]
    /\ failures = [t \in Tiers |-> 0]
=============================================================================
