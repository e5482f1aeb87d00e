-------------------------- MODULE CollectionProofs --------------------------
(***************************************************************************)
(* What the heartbeat promises, for every number of tiers and children,    *)
(* every plan and every day: proofs for Collection and FetchScheduler.     *)
(***************************************************************************)
EXTENDS Collection, SequenceTheorems, FiniteSetTheorems, TLAPS

OnItsTurn(t) == running = t \/ \E i \in DOMAIN queue : queue[i] = t

Times == Nat \union {None}

\* Types, and the batch: a unit of work is under way for a tier that the batch
\* does not reach again, and no tier is in the queue twice.
Shape ==
    /\ clock \in Nat
    /\ lastCollected \in [Tiers -> Times] /\ servedAt \in [Tiers -> Times]
    /\ failedAt \in [Tiers -> Times] /\ early \in [Tiers -> Times]
    /\ notBefore \in [Tiers -> Int] /\ boosted \in [Tiers -> BOOLEAN]
    /\ failures \in [Tiers -> Nat] /\ nightCost \in [Tiers -> Nat]
    /\ phase = "idle" => running = NoTier /\ queue = <<>>
    /\ phase # "idle" => running \in Tiers /\ todo \in Seq(Roster) /\ todo # <<>>
    /\ queue \in Seq(Tiers)
    /\ \A i, j \in DOMAIN queue : queue[i] = queue[j] => i = j
    /\ \A i \in DOMAIN queue : queue[i] # running

\* A tier in the batch is overdue or boosted, and has waited for its failure.
TurnInv ==
    \A t \in Tiers : OnItsTurn(t) =>
        /\ DeadlinePassed(t) \/ boosted[t]
        /\ failedAt[t] # None => clock >= failedAt[t] + RetryFloor(t)

\* A boost is armed an interval after the last one served, and an early
\* collection is a boost served.
BoostInv ==
    \A t \in Tiers :
        /\ boosted[t] => servedAt[t] = None \/ clock - servedAt[t] >= Interval[t]
        /\ early[t] # None => servedAt[t] # None /\ early[t] <= servedAt[t]

\* The floor of a failure is in the schedule until it has passed.
PaceInv ==
    \A t \in Tiers : failedAt[t] # None =>
        \/ notBefore[t] >= failedAt[t] + RetryFloor(t)
        \/ clock >= failedAt[t] + RetryFloor(t)

\* What has a deadline has its data, and a running tier lacks no child but those
\* it still has to collect.
DataInv ==
    /\ DeadlineHasData
    /\ phase # "idle" =>
        \A c \in Roster : <<running, c>> \in data \/ \E i \in DOMAIN todo : todo[i] = c

\* The pass of a first collection is for a tier that lacks the child's data and has
\* failed less than FirstAttempts times; what it has cost is in the failures,
\* or the tier has all its data and never asks again.
PassInv ==
    /\ phase # "idle" /\ pass = "critical" =>
        <<running, Head(todo)>> \notin data /\ failures[running] < FirstAttempts
    /\ \A t \in Tiers :
        /\ nightCost[t] <= FirstAttempts
        /\ nightCost[t] <= failures[t] \/ \A c \in Roster : <<t, c>> \in data

-----------------------------------------------------------------------------
(* The batch.                                                              *)

\* The tail of a sequence, by its elements.
LEMMA Tails ==
    ASSUME NEW S, NEW s \in Seq(S), s # <<>>
    PROVE  /\ Head(s) = s[1] /\ Head(s) \in S /\ 1 \in DOMAIN s
           /\ Tail(s) \in Seq(S)
           /\ DOMAIN Tail(s) = 1 .. Len(s) - 1
           /\ \A i \in DOMAIN Tail(s) : i + 1 \in DOMAIN s /\ Tail(s)[i] = s[i + 1]
           /\ Len(s) \in Nat /\ DOMAIN s = 1 .. Len(s)
<1>1. Len(s) \in Nat /\ DOMAIN s = 1 .. Len(s) /\ Len(s) # 0
  BY LenProperties, EmptySeq
<1> QED BY <1>1, HeadTailProperties, LenProperties

\* What the constants are.
LEMMA Constants ==
    /\ Roster # {} /\ Children \in Seq(Roster) /\ Children # <<>>
    /\ Head(Children) \in Roster
    /\ \A c \in Roster : \E i \in DOMAIN Children : Children[i] = c
    /\ Enabled \subseteq Tiers /\ NoTier \notin Tiers /\ Interval \in [Tiers -> Nat \ {0}]
    /\ FirstAttempts \in Nat /\ RetryDelays \subseteq Nat
    /\ RetriesPerInterval \in Nat \ {0}
<1>1. Children \in Seq(Roster) /\ Children # <<>>
  BY CollectionAssumption
<1>2. Head(Children) \in Roster
  BY <1>1, Tails
<1> QED BY <1>1, <1>2, CollectionAssumption, SchedulerAssumption DEF Roster

\* A batch serves tiers that are due, each once.
LEMMA HeartbeatTidy ==
    ASSUME Shape, Heartbeat
    PROVE  /\ running' \in Due /\ queue' \in Seq(Tiers)
           /\ \A i, j \in DOMAIN queue' : queue'[i] = queue'[j] => i = j
           /\ \A i \in DOMAIN queue' : queue'[i] \in Due /\ queue'[i] # running'
           /\ phase' = "connect" /\ todo' = Children
<1>1. PICK order \in DueOrders : running' = order[1] /\ queue' = Tail(order)
  BY DEF Heartbeat
<1>2. IsFiniteSet(Due) /\ Due # {} /\ Due \subseteq Tiers
  <2>1. Due \subseteq Tiers
    BY Constants DEF Due
  <2> QED BY <2>1, SchedulerAssumption, FS_Subset DEF Heartbeat
<1> DEFINE n == Cardinality(Due)
<1>3. n \in Nat /\ n >= 1
  BY <1>2, FS_CardinalityType, FS_EmptySet
<1>4. order \in [1 .. n -> Due]
      /\ \A i, j \in DOMAIN order : i < j => Before(order[i], order[j])
  BY <1>1 DEF DueOrders
<1>5. ASSUME NEW t \in Tiers PROVE ~Before(t, t)
  <2>1. /\ Rank[t] \in 0 .. 3 /\ Interval[t] \in Nat /\ TieBreak[t] \in Nat
    BY SchedulerAssumption
  <2>2. clock \in Nat /\ lastCollected[t] \in Nat \union {None} /\ boosted[t] \in BOOLEAN
    BY DEF Shape, Times
  <2>3. BoostedRank(t) \in Int
    BY <2>1 DEF BoostedRank, Longest
  <2>4. Overdue(t) \in Int
    BY <2>1, <2>2 DEF Overdue
  <2> QED BY <2>1, <2>3, <2>4 DEF Before
<1> HIDE DEF n
<1>6. ASSUME NEW i \in 1 .. n, NEW j \in 1 .. n, order[i] = order[j] PROVE i = j
  <2>1. order[i] \in Tiers
    BY <1>2, <1>4
  <2>2. ~(i < j) /\ ~(j < i)
    BY <1>3, <1>4, <1>5, <1>6, <2>1
  <2> QED BY <1>3, <2>2
<1>7. order \in Seq(Due) /\ Len(order) = n /\ order # <<>>
  <2>1. order \in Seq(Due)
    BY <1>3, <1>4, SeqDef
  <2>2. Len(order) = n
    BY <1>3, <1>4, <2>1, LenProperties
  <2> QED BY <1>3, <2>1, <2>2, EmptySeq
<1>8. /\ Tail(order) \in Seq(Due) /\ DOMAIN Tail(order) = 1 .. n - 1
      /\ \A i \in DOMAIN Tail(order) : i + 1 \in 1 .. n /\ Tail(order)[i] = order[i + 1]
      /\ order[1] \in Due
  BY <1>3, <1>4, <1>7, Tails
<1>9. queue' \in Seq(Tiers)
  <2>1. Tail(order) \in [1 .. n - 1 -> Due]
    BY <1>8, LenProperties
  <2>2. Tail(order) \in [1 .. n - 1 -> Tiers] /\ n - 1 \in Nat
    BY <1>2, <1>3, <2>1
  <2>3. Tail(order) \in Seq(Tiers)
    BY <2>2, SeqDef
  <2> QED BY <1>1, <2>3
<1>10. \A i, j \in DOMAIN queue' : queue'[i] = queue'[j] => i = j
  <2> SUFFICES ASSUME NEW i \in DOMAIN queue', NEW j \in DOMAIN queue', queue'[i] = queue'[j]
               PROVE  i = j
    OBVIOUS
  <2>1. order[i + 1] = order[j + 1] /\ i + 1 \in 1 .. n /\ j + 1 \in 1 .. n
    BY <1>1, <1>8
  <2>2. i + 1 = j + 1 /\ i \in Int /\ j \in Int
    BY <1>1, <1>3, <1>6, <1>8, <2>1
  <2> QED BY <2>2
<1>11. \A i \in DOMAIN queue' : queue'[i] \in Due /\ queue'[i] # running'
  <2> SUFFICES ASSUME NEW i \in DOMAIN queue'
               PROVE  queue'[i] \in Due /\ queue'[i] # running'
    OBVIOUS
  <2>1. queue'[i] = order[i + 1] /\ i + 1 \in 1 .. n /\ i \in 1 .. n - 1
    BY <1>1, <1>8
  <2>2. 1 \in 1 .. n /\ i + 1 # 1
    BY <1>3, <2>1
  <2>3. order[i + 1] # order[1]
    BY <1>6, <2>1, <2>2
  <2> QED BY <1>1, <1>4, <2>1, <2>3
<1> QED BY <1>1, <1>8, <1>9, <1>10, <1>11 DEF Heartbeat

\* What follows the running tier in the batch was already waiting in it.
LEMMA ProceedTidy ==
    ASSUME Shape, phase # "idle", Proceed
    PROVE  /\ phase' = "idle" => running' = NoTier /\ queue' = <<>>
           /\ phase' # "idle" => running' \in Tiers /\ todo' = Children
           /\ queue' \in Seq(Tiers)
           /\ \A i, j \in DOMAIN queue' : queue'[i] = queue'[j] => i = j
           /\ \A i \in DOMAIN queue' : queue'[i] # running'
           /\ \A t \in Tiers : OnItsTurn(t)' => OnItsTurn(t) /\ t # running
<1>1. CASE queue = <<>>
  <2>1. queue' = <<>> /\ running' = NoTier /\ phase' = "idle"
    BY <1>1 DEF Proceed
  <2>2. DOMAIN queue' = {}
    BY <2>1, EmptySeq
  <2>3. queue' \in Seq(Tiers)
    BY <1>1, <2>1 DEF Shape
  <2> QED BY <2>1, <2>2, <2>3, Constants DEF OnItsTurn
<1>2. CASE queue # <<>>
  <2>1. /\ queue' = Tail(queue) /\ running' = Head(queue)
        /\ phase' = "connect" /\ todo' = Children
    BY <1>2 DEF Proceed
  <2>2. /\ queue \in Seq(Tiers)
        /\ \A i, j \in DOMAIN queue : queue[i] = queue[j] => i = j
        /\ \A i \in DOMAIN queue : queue[i] # running
    BY DEF Shape
  <2>3. /\ Head(queue) = queue[1] /\ Head(queue) \in Tiers /\ 1 \in DOMAIN queue
        /\ Tail(queue) \in Seq(Tiers) /\ DOMAIN Tail(queue) = 1 .. Len(queue) - 1
        /\ \A i \in DOMAIN Tail(queue) : i + 1 \in DOMAIN queue /\ Tail(queue)[i] = queue[i + 1]
        /\ Len(queue) \in Nat
    BY <1>2, <2>2, Tails
  <2>4. \A i, j \in DOMAIN queue' : queue'[i] = queue'[j] => i = j
    <3> SUFFICES ASSUME NEW i \in DOMAIN queue', NEW j \in DOMAIN queue', queue'[i] = queue'[j]
                 PROVE  i = j
      OBVIOUS
    <3>1. i + 1 = j + 1 /\ i \in Int /\ j \in Int
      BY <2>1, <2>2, <2>3
    <3> QED BY <3>1
  <2>5. \A i \in DOMAIN queue' : queue'[i] # running'
    <3> SUFFICES ASSUME NEW i \in DOMAIN queue' PROVE queue'[i] # running'
      OBVIOUS
    <3>1. i + 1 \in DOMAIN queue /\ queue'[i] = queue[i + 1] /\ i + 1 # 1
      BY <2>1, <2>3
    <3> QED BY <2>1, <2>2, <2>3, <3>1
  <2>6. ASSUME NEW t \in Tiers, OnItsTurn(t)' PROVE \E i \in DOMAIN queue : queue[i] = t
    <3>1. CASE running' = t
      BY <2>1, <2>3, <3>1
    <3>2. CASE \E i \in DOMAIN queue' : queue'[i] = t
      BY <2>1, <2>3, <3>2
    <3> QED BY <2>6, <3>1, <3>2 DEF OnItsTurn
  <2> QED BY <2>1, <2>2, <2>3, <2>4, <2>5, <2>6 DEF OnItsTurn
<1> QED BY <1>1, <1>2

\* The floor of a failing tier is a share of its interval: a whole one at most.
LEMMA Floors ==
    ASSUME NEW t \in Tiers
    PROVE  RetryFloor(t) \in Int /\ RetryFloor(t) <= Interval[t]
<1> DEFINE p == RetriesPerInterval  a == Interval[t] + p - 1  q == a \div p
<1>1. p \in Nat \ {0} /\ Interval[t] \in Nat \ {0}
  BY Constants
<1>2. \A x \in Int, y \in Nat \ {0} : x \div y \in Int /\ y * (x \div y) <= x
  BY Z3
<1>3. a \in Int
  BY <1>1
<1>4. q \in Int /\ p * q <= a
  BY <1>1, <1>2, <1>3
<1> HIDE DEF q
<1>5. q <= Interval[t]
  <2>1. \A m, n \in Int : m <= n => p * m <= p * n
    BY <1>1, Z3
  <2>2. CASE Interval[t] + 1 <= q
    <3>1. p * (Interval[t] + 1) <= p * q /\ p * (Interval[t] + 1) = p * Interval[t] + p
      BY <1>1, <1>4, <2>1, <2>2
    <3>2. \A m \in Nat, r \in Nat \ {0} : m <= r * m
      BY Z3
    <3>3. Interval[t] <= p * Interval[t] /\ p * Interval[t] \in Int
      BY <1>1, <3>2
    <3> QED BY <1>1, <1>4, <3>1, <3>3
  <2> QED BY <1>1, <1>4, <2>2
<1> QED BY <1>4, <1>5 DEF RetryFloor, q

-----------------------------------------------------------------------------
(* The kinds of steps.                                                     *)

\* A deferral or a failure: the rest of the tier is left for later.
Delayed ==
    /\ phase # "idle" /\ Proceed
    /\ UNCHANGED <<clock, lastCollected, servedAt, early, data>>
    /\ boosted' = [boosted EXCEPT ![running] = FALSE]
    /\ \E w \in Int :
        /\ notBefore' = [notBefore EXCEPT ![running] = w]
        /\ \/ UNCHANGED <<failedAt, failures, nightCost>>
           \/ /\ w >= clock + RetryFloor(running)
              /\ failedAt' = [failedAt EXCEPT ![running] = clock]
              /\ failures' = [failures EXCEPT ![running] = @ + 1]
              /\ \/ UNCHANGED nightCost
                 \/ /\ pass = "critical"
                    /\ nightCost' = [nightCost EXCEPT ![running] = @ + 1]

\* Steps that leave the schedule, the batch and the data alone.
Idle ==
    /\ UNCHANGED <<clock, schedulerVars, running, queue, todo, pass, data, historyVars>>
    /\ phase' = phase \/ (phase # "idle" /\ phase' # "idle")

\* The delays that the scheduler adds up are whole numbers.
LEMMA Delays ==
    ASSUME Shape, NEW t \in Tiers
    PROVE  /\ UntilDawn \in Int
           /\ \A r \in Int : clock + Shortest(r, Interval[t]) \in Int
           /\ \A r \in Int : clock + Shortest(Longest(r, RetryFloor(t)), Interval[t]) \in Int
           /\ \A r \in Int : clock + Shortest(Longest(r, RetryFloor(t)), Interval[t])
                                >= clock + RetryFloor(t)
<1>1. clock \in Nat /\ Interval[t] \in Nat /\ DayLength \in Nat \ {0}
  BY Constants, CollectionAssumption DEF Shape
<1>2. \A x \in Int, y \in Nat \ {0} : x % y \in Int
  BY Z3
<1>3. UntilDawn \in Int
  BY <1>1, <1>2 DEF UntilDawn
<1> QED BY <1>1, <1>3, Floors DEF Shortest, Longest

\* A deferral or a failure is a Delayed step.
LEMMA Delaying ==
    ASSUME Shape,
           \/ QuietHoursRefuse
           \/ \E d \in RetryDelays : LimiterDefers(d) \/ UnitFails(d)
    PROVE  Delayed
<1>1. CASE QuietHoursRefuse
  <2>1. running \in Tiers /\ phase # "idle"
    BY <1>1 DEF QuietHoursRefuse, Shape
  <2> DEFINE w == clock + Shortest(UntilDawn, Interval[running])
  <2>2. w \in Int
    BY <2>1, Delays
  <2> QED BY <1>1, <2>1, <2>2 DEF QuietHoursRefuse, Defer, PushBack, Delayed, historyVars
<1>2. ASSUME NEW d \in RetryDelays, LimiterDefers(d) PROVE Delayed
  <2>1. running \in Tiers /\ phase # "idle" /\ d \in Int
    BY <1>2, Constants DEF LimiterDefers, Shape
  <2> DEFINE w == clock + Shortest(d, Interval[running])
  <2>2. w \in Int
    BY <2>1, Delays
  <2> QED BY <1>2, <2>1, <2>2 DEF LimiterDefers, Defer, PushBack, Delayed, historyVars
<1>3. ASSUME NEW d \in RetryDelays, UnitFails(d) PROVE Delayed
  <2>1. running \in Tiers /\ phase # "idle" /\ d \in Int
    BY <1>3, Constants DEF UnitFails, Shape
  <2> DEFINE w == clock + Shortest(Longest(d, RetryFloor(running)), Interval[running])
  <2>2. w \in Int /\ w >= clock + RetryFloor(running)
    BY <2>1, Delays
  <2>3. /\ notBefore' = [notBefore EXCEPT ![running] = w]
        /\ boosted' = [boosted EXCEPT ![running] = FALSE]
        /\ UNCHANGED <<lastCollected, servedAt>>
        /\ failures' = [failures EXCEPT ![running] = @ + 1]
    BY <1>3 DEF UnitFails, MarkFailed, PushBack
  <2>4. /\ failedAt' = [failedAt EXCEPT ![running] = clock]
        /\ UNCHANGED <<data, clock, early>> /\ Proceed
        /\ \/ UNCHANGED nightCost
           \/ pass = "critical" /\ nightCost' = [nightCost EXCEPT ![running] = @ + 1]
    BY <1>3 DEF UnitFails
  <2> HIDE DEF w
  <2> QED BY <2>1, <2>2, <2>3, <2>4 DEF Delayed
<1> QED BY <1>1, <1>2, <1>3

\* Every step is one of eight kinds.
LEMMA Kinds ==
    ASSUME Shape, [Next]_vars
    PROVE  \/ Heartbeat \/ Delayed \/ Idle \/ Tick
           \/ \E targets \in SUBSET Enabled : Refresh(targets)
           \/ \E c \in Roster : CollectChild(c) \/ CollectLastChild(c)
           \/ \E paired \in SUBSET Roster : Reload(paired)
<1>1. CASE HoldSession \/ LogIn \/ Admit
  BY <1>1 DEF HoldSession, LogIn, Admit, Idle, dataVars
<1>2. CASE \E pair \in EventPairs : SchoolPublishes(pair)
  BY <1>2 DEF SchoolPublishes, Idle, unitVars
<1>3. CASE UNCHANGED vars
  BY <1>3 DEF vars, Idle, schedulerVars, historyVars
<1> QED BY <1>1, <1>2, <1>3, Delaying DEF Next, BatchStep

\* The answer to a unit of work is for the running tier and the child at hand.
LEMMA AnswersShape ==
    ASSUME Shape, NEW c \in Roster, CollectChild(c) \/ CollectLastChild(c)
    PROVE  /\ phase # "idle" /\ running \in Tiers /\ c = Head(todo)
           /\ todo \in Seq(Roster) /\ todo # <<>>
           /\ data' = data \union {<<running, c>>}
           /\ clock' = clock /\ nightCost' = nightCost
BY DEF Shape, CollectChild, CollectLastChild, Answered, historyVars

\* A child collected leaves the schedule as it is.
LEMMA ChildShape ==
    ASSUME Shape, NEW c \in Roster, CollectChild(c)
    PROVE  /\ UNCHANGED <<schedulerVars, running, queue, historyVars>>
           /\ todo' = Tail(todo) /\ Len(todo) > 1 /\ phase' = "connect"
           /\ pass' = NextPass'
           /\ todo' \in Seq(Roster) /\ todo' # <<>>
<1>1. /\ UNCHANGED <<schedulerVars, running, queue, historyVars>>
      /\ todo' = Tail(todo) /\ Len(todo) > 1 /\ phase' = "connect" /\ pass' = NextPass'
      /\ todo \in Seq(Roster) /\ todo # <<>>
  BY AnswersShape DEF CollectChild
<1>2. Tail(todo) \in Seq(Roster) /\ Len(Tail(todo)) = Len(todo) - 1 /\ Len(todo) \in Nat
  BY <1>1, HeadTailProperties, LenProperties
<1>3. Len(<<>>) = 0
  BY EmptySeq
<1>4. Tail(todo) # <<>>
  <2> SUFFICES ASSUME Tail(todo) = <<>> PROVE FALSE
    OBVIOUS
  <2>1. Len(todo) - 1 = 0
    BY <1>2, <1>3
  <2> QED BY <1>1, <1>2, <2>1
<1> QED BY <1>1, <1>2, <1>4

-----------------------------------------------------------------------------
(* The steps.                                                              *)

\* The schedule keeps its types, and the batch its order.
LEMMA ShapeStep ==
    ASSUME Shape, [Next]_vars
    PROVE  Shape'
<1>c. None \in Times /\ clock \in Times /\ 0 \in Int /\ 0 \in Nat
  BY DEF Shape, Times
<1>1. CASE Heartbeat
  <2>1. UNCHANGED <<clock, schedulerVars, historyVars>>
    BY <1>1 DEF Heartbeat
  <2>2. running' \in Tiers /\ \A i \in DOMAIN queue' : queue'[i] # running'
    BY <1>1, HeartbeatTidy, Constants DEF Due
  <2> QED BY <1>1, <2>1, <2>2, HeartbeatTidy, Constants DEF Shape, schedulerVars, historyVars
<1>2. CASE Delayed
  <2>1. phase # "idle" /\ Proceed /\ running \in Tiers
    BY <1>2 DEF Delayed, Shape
  <2>2. /\ clock' \in Nat
        /\ lastCollected' \in [Tiers -> Times] /\ servedAt' \in [Tiers -> Times]
        /\ failedAt' \in [Tiers -> Times] /\ early' \in [Tiers -> Times]
        /\ notBefore' \in [Tiers -> Int] /\ boosted' \in [Tiers -> BOOLEAN]
    <3>1. /\ clock' \in Nat /\ boosted' \in [Tiers -> BOOLEAN]
          /\ lastCollected' \in [Tiers -> Times] /\ servedAt' \in [Tiers -> Times]
          /\ early' \in [Tiers -> Times]
      BY <1>2 DEF Delayed, Shape
    <3>2. notBefore' \in [Tiers -> Int]
      BY <1>2 DEF Delayed, Shape
    <3>3. failedAt' = failedAt \/ failedAt' = [failedAt EXCEPT ![running] = clock]
      BY <1>2 DEF Delayed
    <3>4. failedAt' \in [Tiers -> Times]
      BY <1>c, <3>3 DEF Shape
    <3> QED BY <3>1, <3>2, <3>4
  <2>3. failures' \in [Tiers -> Nat] /\ nightCost' \in [Tiers -> Nat]
    <3>1. /\ failures' = failures \/ failures' = [failures EXCEPT ![running] = @ + 1]
          /\ nightCost' = nightCost \/ nightCost' = [nightCost EXCEPT ![running] = @ + 1]
      BY <1>2 DEF Delayed
    <3>2. failures' \in [Tiers -> Nat]
      BY <2>1, <3>1 DEF Shape
    <3>3. nightCost' \in [Tiers -> Nat]
      BY <2>1, <3>1 DEF Shape
    <3> QED BY <3>2, <3>3
  <2> QED BY <2>1, <2>2, <2>3, ProceedTidy, Constants DEF Shape
<1>3. CASE Idle
  BY <1>3 DEF Idle, Shape, schedulerVars, historyVars
<1>4. CASE Tick
  BY <1>4 DEF Tick, Shape, schedulerVars, historyVars, unitVars
<1>5. ASSUME NEW targets \in SUBSET Enabled, Refresh(targets) PROVE Shape'
  <2>1. /\ notBefore' \in [Tiers -> Int] /\ boosted' \in [Tiers -> BOOLEAN]
        /\ failedAt' \in [Tiers -> Times]
    BY <1>5, <1>c DEF Refresh, Press, Shape
  <2>2. UNCHANGED <<clock, lastCollected, servedAt, failures, early, nightCost, unitVars>>
    BY <1>5 DEF Refresh, Press
  <2> QED BY <2>1, <2>2 DEF Shape, unitVars
<1>6. ASSUME NEW c \in Roster, CollectChild(c) PROVE Shape'
  <2>1. clock' = clock
    BY <1>6, AnswersShape
  <2> QED BY <1>6, <2>1, AnswersShape, ChildShape DEF Shape, schedulerVars, historyVars
<1>7. ASSUME NEW c \in Roster, CollectLastChild(c) PROVE Shape'
  <2>1. phase # "idle" /\ Proceed /\ running \in Tiers /\ clock' = clock /\ nightCost' = nightCost
    BY <1>7, AnswersShape DEF CollectLastChild
  <2>2. /\ lastCollected' \in [Tiers -> Times] /\ servedAt' \in [Tiers -> Times]
        /\ failedAt' \in [Tiers -> Times] /\ early' \in [Tiers -> Times]
        /\ notBefore' \in [Tiers -> Int] /\ boosted' \in [Tiers -> BOOLEAN]
        /\ failures' \in [Tiers -> Nat]
    BY <1>7, <1>c, <2>1 DEF CollectLastChild, MarkCollected, Shape
  <2> QED BY <2>1, <2>2, ProceedTidy, Constants DEF Shape
<1>8. ASSUME NEW paired \in SUBSET Roster, Reload(paired) PROVE Shape'
  <2>1. /\ lastCollected' \in [Tiers -> Times] /\ servedAt' \in [Tiers -> Times]
        /\ failedAt' \in [Tiers -> Times] /\ early' \in [Tiers -> Times]
        /\ notBefore' \in [Tiers -> Int] /\ boosted' \in [Tiers -> BOOLEAN]
        /\ failures' \in [Tiers -> Nat] /\ nightCost' \in [Tiers -> Nat]
    BY <1>8, <1>c DEF Reload, Restart, Restore, Shape
  <2>2. queue' = <<>> /\ phase' = "idle" /\ running' = NoTier /\ clock' = clock
    BY <1>8 DEF Reload, Restart
  <2>3. queue' \in Seq(Tiers) /\ DOMAIN queue' = {}
    BY <2>2, EmptySeq
  <2> QED BY <2>1, <2>2, <2>3 DEF Shape
<1> QED BY <1>1, <1>2, <1>3, <1>4, <1>5, <1>6, <1>7, <1>8, Kinds

\* The other tiers of the batch are left as they are by the one being served.
LEMMA OthersKeep ==
    ASSUME Shape, Delayed \/ \E c \in Roster : CollectLastChild(c),
           NEW t \in Tiers, t # running
    PROVE  /\ clock' = clock /\ lastCollected'[t] = lastCollected[t]
           /\ boosted'[t] = boosted[t] /\ failedAt'[t] = failedAt[t]
           /\ notBefore'[t] = notBefore[t] /\ servedAt'[t] = servedAt[t]
           /\ early'[t] = early[t] /\ failures'[t] = failures[t]
           /\ nightCost'[t] = nightCost[t]
<1>1. CASE Delayed
  BY <1>1 DEF Delayed, Shape
<1>2. ASSUME NEW c \in Roster, CollectLastChild(c)
      PROVE  /\ clock' = clock /\ lastCollected'[t] = lastCollected[t]
             /\ boosted'[t] = boosted[t] /\ failedAt'[t] = failedAt[t]
             /\ notBefore'[t] = notBefore[t] /\ servedAt'[t] = servedAt[t]
             /\ early'[t] = early[t] /\ failures'[t] = failures[t]
             /\ nightCost'[t] = nightCost[t]
  BY <1>2, AnswersShape DEF CollectLastChild, MarkCollected, Shape
<1> QED BY <1>1, <1>2

\* A tier in the batch stays overdue or boosted, and past its floor.
LEMMA TurnStep ==
    ASSUME Shape, TurnInv, PaceInv, [Next]_vars
    PROVE  TurnInv'
<1> SUFFICES ASSUME NEW t \in Tiers, OnItsTurn(t)'
             PROVE  /\ DeadlinePassed(t)' \/ boosted'[t]
                    /\ failedAt'[t] # None => clock' >= failedAt'[t] + RetryFloor(t)
  BY DEF TurnInv, RetryFloor
<1>a. /\ clock \in Nat /\ Interval[t] \in Nat /\ RetryFloor(t) \in Int
      /\ lastCollected[t] \in Times /\ failedAt[t] \in Times /\ notBefore[t] \in Int
      /\ boosted[t] \in BOOLEAN
  BY Constants, Floors DEF Shape
<1>1. CASE Heartbeat
  <2>1. t \in Due
    BY <1>1, HeartbeatTidy DEF OnItsTurn
  <2>2. UNCHANGED <<clock, schedulerVars, historyVars>>
    BY <1>1 DEF Heartbeat
  <2>3. clock >= notBefore[t] /\ (DeadlinePassed(t) \/ boosted[t])
    BY <2>1 DEF Due
  <2>4. failedAt[t] # None => clock >= failedAt[t] + RetryFloor(t)
    BY <1>a, <2>3 DEF PaceInv, Times, None
  <2> QED BY <2>2, <2>3, <2>4 DEF DeadlinePassed, schedulerVars, historyVars
<1>2. CASE Delayed \/ \E c \in Roster : CollectLastChild(c)
  <2>1. phase # "idle" /\ Proceed
    BY <1>2, AnswersShape DEF Delayed, CollectLastChild
  <2>2. OnItsTurn(t) /\ t # running
    BY <2>1, ProceedTidy
  <2> QED BY <1>2, <2>2, OthersKeep DEF TurnInv, DeadlinePassed
<1>3. CASE Idle
  <2>1. UNCHANGED <<clock, lastCollected, boosted, failedAt, running, queue>>
    BY <1>3 DEF Idle, schedulerVars, historyVars
  <2> QED BY <2>1 DEF TurnInv, DeadlinePassed, OnItsTurn
<1>4. CASE Tick
  <2>1. UNCHANGED <<lastCollected, boosted, failedAt, running, queue>> /\ clock' = clock + 1
    BY <1>4 DEF Tick, schedulerVars, historyVars, unitVars
  <2>2. /\ DeadlinePassed(t) \/ boosted[t]
        /\ failedAt[t] # None => clock >= failedAt[t] + RetryFloor(t)
    BY <2>1 DEF TurnInv, OnItsTurn
  <2> QED BY <1>a, <2>1, <2>2 DEF DeadlinePassed, Times, None
<1>5. ASSUME NEW targets \in SUBSET Enabled, Refresh(targets)
      PROVE  /\ DeadlinePassed(t)' \/ boosted'[t]
             /\ failedAt'[t] # None => clock' >= failedAt'[t] + RetryFloor(t)
  <2>1. /\ UNCHANGED <<clock, lastCollected, running, queue>>
        /\ boosted[t] => boosted'[t]
        /\ failedAt'[t] \in {None, failedAt[t]}
    BY <1>5 DEF Refresh, Press, unitVars
  <2>2. /\ DeadlinePassed(t) \/ boosted[t]
        /\ failedAt[t] # None => clock >= failedAt[t] + RetryFloor(t)
    BY <2>1 DEF TurnInv, OnItsTurn
  <2> QED BY <2>1, <2>2 DEF DeadlinePassed
<1>6. ASSUME NEW c \in Roster, CollectChild(c)
      PROVE  /\ DeadlinePassed(t)' \/ boosted'[t]
             /\ failedAt'[t] # None => clock' >= failedAt'[t] + RetryFloor(t)
  <2>1. UNCHANGED <<clock, lastCollected, boosted, failedAt, running, queue>>
    BY <1>6, AnswersShape, ChildShape DEF schedulerVars, historyVars
  <2> QED BY <2>1 DEF TurnInv, DeadlinePassed, OnItsTurn
<1>7. ASSUME NEW paired \in SUBSET Roster, Reload(paired) PROVE FALSE
  <2>1. running' = NoTier /\ queue' = <<>>
    BY <1>7 DEF Reload, Restart
  <2>2. DOMAIN queue' = {}
    BY <2>1, EmptySeq
  <2> QED BY <2>1, <2>2, Constants DEF OnItsTurn
<1> QED BY <1>1, <1>2, <1>3, <1>4, <1>5, <1>6, <1>7, Kinds

\* A boost waits an interval after the last one served.
LEMMA BoostStep ==
    ASSUME Shape, TurnInv, BoostInv, [Next]_vars
    PROVE  BoostInv'
<1> DEFINE Goal(t) ==
             /\ boosted[t] => servedAt[t] = None \/ clock - servedAt[t] >= Interval[t]
             /\ early[t] # None => servedAt[t] # None /\ early[t] <= servedAt[t]
<1>g. ASSUME NEW t \in Tiers PROVE Goal(t)
  BY DEF BoostInv
<1> SUFFICES ASSUME NEW t \in Tiers PROVE Goal(t)'
  BY DEF BoostInv
<1>a. /\ clock \in Nat /\ Interval[t] \in Nat \ {0}
      /\ servedAt[t] \in Times /\ early[t] \in Times /\ boosted[t] \in BOOLEAN
  BY Constants DEF Shape
<1>1. CASE Heartbeat \/ Idle \/ \E c \in Roster : CollectChild(c)
  <2>1. UNCHANGED <<clock, boosted, servedAt, early>>
    BY <1>1, AnswersShape, ChildShape DEF Heartbeat, Idle, schedulerVars, historyVars
  <2> QED BY <1>g, <2>1
<1>2. CASE Delayed
  <2>1. UNCHANGED <<clock, servedAt, early>> /\ (boosted'[t] => boosted[t])
    BY <1>2 DEF Delayed, Shape
  <2> QED BY <1>g, <2>1
<1>3. CASE Tick
  <2>1. UNCHANGED <<boosted, servedAt, early>> /\ clock' = clock + 1
    BY <1>3 DEF Tick, schedulerVars, historyVars
  <2> QED BY <1>a, <1>g, <2>1 DEF Times, None
<1>4. ASSUME NEW targets \in SUBSET Enabled, Refresh(targets) PROVE Goal(t)'
  <2>1. /\ UNCHANGED <<clock, servedAt, early>>
        /\ boosted'[t] => boosted[t] \/ BoostAllowed(t)
    BY <1>4 DEF Refresh, Press
  <2> QED BY <1>g, <2>1 DEF BoostAllowed
<1>5. ASSUME NEW c \in Roster, CollectLastChild(c) PROVE Goal(t)'
  <2>1. CASE t # running
    BY <1>5, <1>g, <2>1, OthersKeep
  <2>2. CASE t = running
    <3>1. /\ boosted'[t] = FALSE
          /\ servedAt'[t] = IF boosted[t] THEN clock ELSE servedAt[t]
          /\ early'[t] = IF DeadlinePassed(t) THEN early[t] ELSE clock
      BY <1>5, <2>2, AnswersShape DEF CollectLastChild, MarkCollected, Shape
    <3>2. DeadlinePassed(t) \/ boosted[t]
      BY <2>2 DEF TurnInv, OnItsTurn
    <3>3. CASE boosted[t]
      <4>1. servedAt'[t] = clock /\ early'[t] \in {early[t], clock}
        BY <3>1, <3>3
      <4>2. early[t] # None => early[t] <= clock
        BY <1>a, <1>g, <3>3 DEF Times, None
      <4> QED BY <1>a, <3>1, <4>1, <4>2 DEF None
    <3>4. CASE ~boosted[t]
      <4>1. servedAt'[t] = servedAt[t] /\ early'[t] = early[t]
        BY <3>1, <3>2, <3>4
      <4> QED BY <1>g, <3>1, <4>1
    <3> QED BY <3>3, <3>4
  <2> QED BY <2>1, <2>2
<1>6. ASSUME NEW paired \in SUBSET Roster, Reload(paired) PROVE Goal(t)'
  BY <1>6 DEF Reload, Restart, Restore
<1> QED BY <1>1, <1>2, <1>3, <1>4, <1>5, <1>6, Kinds

\* The floor of a failure is never lowered but by a person or a success.
LEMMA PaceStep ==
    ASSUME Shape, TurnInv, PaceInv, [Next]_vars
    PROVE  PaceInv'
<1> DEFINE Goal(t) == failedAt[t] # None =>
             \/ notBefore[t] >= failedAt[t] + RetryFloor(t)
             \/ clock >= failedAt[t] + RetryFloor(t)
<1>g. ASSUME NEW t \in Tiers PROVE Goal(t)
  BY DEF PaceInv
<1> SUFFICES ASSUME NEW t \in Tiers PROVE Goal(t)'
  BY DEF PaceInv
<1>a. /\ clock \in Nat /\ RetryFloor(t) \in Int /\ RetryFloor(t)' = RetryFloor(t)
      /\ failedAt[t] \in Times /\ notBefore[t] \in Int
  BY Floors DEF Shape, RetryFloor
<1>1. CASE Heartbeat \/ Idle \/ \E c \in Roster : CollectChild(c)
  <2>1. UNCHANGED <<clock, notBefore, failedAt>>
    BY <1>1, AnswersShape, ChildShape DEF Heartbeat, Idle, schedulerVars, historyVars
  <2> QED BY <1>a, <1>g, <2>1
<1>2. CASE Delayed
  <2>1. CASE t # running
    BY <1>2, <1>a, <1>g, <2>1, OthersKeep
  <2>2. CASE t = running
    <3>1. clock' = clock /\ OnItsTurn(t)
      BY <1>2, <2>2 DEF Delayed, OnItsTurn
    <3>2. PICK w \in Int : notBefore'[t] = w
                           /\ \/ failedAt'[t] = failedAt[t]
                              \/ w >= clock + RetryFloor(t) /\ failedAt'[t] = clock
      BY <1>2, <2>2 DEF Delayed, Shape
    <3>3. CASE failedAt'[t] = failedAt[t]
      BY <1>a, <3>1, <3>3 DEF TurnInv
    <3>4. CASE w >= clock + RetryFloor(t) /\ failedAt'[t] = clock
      BY <1>a, <3>1, <3>2, <3>4
    <3> QED BY <3>2, <3>3, <3>4
  <2> QED BY <2>1, <2>2
<1>3. CASE Tick
  <2>1. UNCHANGED <<notBefore, failedAt>> /\ clock' = clock + 1
    BY <1>3 DEF Tick, schedulerVars, historyVars
  <2> QED BY <1>a, <1>g, <2>1 DEF Times, None
<1>4. ASSUME NEW targets \in SUBSET Enabled, Refresh(targets) PROVE Goal(t)'
  <2>1. /\ clock' = clock
        /\ \/ failedAt'[t] = None
           \/ failedAt'[t] = failedAt[t] /\ notBefore'[t] = notBefore[t]
    <3>1. CASE t \in targets /\ BoostAllowed(t)
      BY <1>4, <3>1 DEF Refresh
    <3>2. CASE ~(t \in targets /\ BoostAllowed(t))
      BY <1>4, <3>2 DEF Refresh, Press
    <3> QED BY <3>1, <3>2
  <2> QED BY <1>a, <1>g, <2>1
<1>5. ASSUME NEW c \in Roster, CollectLastChild(c) PROVE Goal(t)'
  <2>1. CASE t # running
    BY <1>5, <1>a, <1>g, <2>1, OthersKeep
  <2>2. CASE t = running
    BY <1>5, <2>2 DEF CollectLastChild, Shape
  <2> QED BY <2>1, <2>2
<1>6. ASSUME NEW paired \in SUBSET Roster, Reload(paired) PROVE Goal(t)'
  BY <1>6 DEF Reload, Restart, Restore
<1> QED BY <1>1, <1>2, <1>3, <1>4, <1>5, <1>6, Kinds

\* A tier that ends with its last child has them all.
LEMMA LastChildCompletes ==
    ASSUME Shape, DataInv, NEW c \in Roster, CollectLastChild(c)
    PROVE  \A d \in Roster : <<running, d>> \in data'
<1>1. /\ phase # "idle" /\ c = Head(todo) /\ todo \in Seq(Roster) /\ todo # <<>>
      /\ data' = data \union {<<running, c>>} /\ Len(todo) = 1
  BY AnswersShape DEF CollectLastChild
<1>2. DOMAIN todo = {1} /\ Head(todo) = todo[1]
  <2>1. DOMAIN todo = 1 .. Len(todo) /\ Head(todo) = todo[1]
    BY <1>1, Tails
  <2> QED BY <1>1, <2>1
<1> QED BY <1>1, <1>2 DEF DataInv

\* Data and deadline go together, in a collection as across a reload.
LEMMA DataStep ==
    ASSUME Shape, DataInv, [Next]_vars
    PROVE  DataInv'
<1> DEFINE Owed == phase # "idle" =>
             \A c \in Roster : <<running, c>> \in data \/ \E i \in DOMAIN todo : todo[i] = c
<1>g. DeadlineHasData /\ Owed
  BY DEF DataInv
<1> SUFFICES DeadlineHasData' /\ Owed'
  BY DEF DataInv
<1>1. CASE Heartbeat
  <2>1. data' = data /\ lastCollected' = lastCollected /\ todo' = Children
    BY <1>1 DEF Heartbeat, dataVars, schedulerVars
  <2>2. DeadlineHasData'
    BY <1>g, <2>1 DEF DeadlineHasData
  <2> QED BY <2>1, <2>2, Constants
<1>2. CASE Delayed
  <2>1. data' = data /\ lastCollected' = lastCollected /\ phase # "idle" /\ Proceed
    BY <1>2 DEF Delayed
  <2>2. DeadlineHasData'
    BY <1>g, <2>1 DEF DeadlineHasData
  <2> QED BY <2>1, <2>2, ProceedTidy, Constants
<1>3. CASE Idle \/ Tick \/ \E targets \in SUBSET Enabled : Refresh(targets)
  <2>1. /\ UNCHANGED <<data, lastCollected, running, todo>>
        /\ phase' = phase \/ (phase # "idle" /\ phase' # "idle")
    BY <1>3 DEF Idle, Tick, Refresh, Press, dataVars, unitVars, schedulerVars
  <2> QED BY <1>g, <2>1 DEF DeadlineHasData
<1>4. ASSUME NEW c \in Roster, CollectChild(c) PROVE DeadlineHasData' /\ Owed'
  <2>1. /\ lastCollected' = lastCollected /\ running' = running /\ todo' = Tail(todo)
        /\ data' = data \union {<<running, c>>} /\ c = Head(todo) /\ phase # "idle"
        /\ todo \in Seq(Roster) /\ todo # <<>>
    BY <1>4, AnswersShape, ChildShape DEF schedulerVars
  <2>2. DeadlineHasData'
    BY <1>g, <2>1 DEF DeadlineHasData
  <2>3. ASSUME NEW d \in Roster PROVE <<running', d>> \in data' \/ \E i \in DOMAIN todo' : todo'[i] = d
    <3>1. CASE <<running, d>> \in data
      BY <2>1, <3>1
    <3>2. ASSUME NEW i \in DOMAIN todo, todo[i] = d
          PROVE <<running', d>> \in data' \/ \E j \in DOMAIN todo' : todo'[j] = d
      <4>1. /\ Head(todo) = todo[1] /\ DOMAIN todo = 1 .. Len(todo) /\ Len(todo) \in Nat
            /\ DOMAIN Tail(todo) = 1 .. Len(todo) - 1
            /\ \A j \in DOMAIN Tail(todo) : Tail(todo)[j] = todo[j + 1]
        BY <2>1, Tails
      <4>2. CASE i = 1
        BY <2>1, <3>2, <4>1, <4>2
      <4>3. CASE i # 1
        <5>1. i - 1 \in DOMAIN Tail(todo) /\ (i - 1) + 1 = i
          BY <4>1, <4>3
        <5>2. Tail(todo)[i - 1] = d
          BY <3>2, <4>1, <5>1
        <5> QED BY <2>1, <5>1, <5>2
      <4> QED BY <4>2, <4>3
    <3> QED BY <1>g, <2>1, <3>1, <3>2
  <2> QED BY <2>2, <2>3
<1>5. ASSUME NEW c \in Roster, CollectLastChild(c) PROVE DeadlineHasData' /\ Owed'
  <2>1. /\ phase # "idle" /\ Proceed /\ data' = data \union {<<running, c>>}
        /\ lastCollected' = [lastCollected EXCEPT ![running] = clock]
    BY <1>5, AnswersShape DEF CollectLastChild, MarkCollected
  <2>2. DeadlineHasData'
    <3> SUFFICES ASSUME NEW t \in Tiers, lastCollected'[t] # None, NEW d \in Roster
                 PROVE  <<t, d>> \in data'
      BY DEF DeadlineHasData, None
    <3>1. CASE t = running
      BY <1>5, <3>1, LastChildCompletes
    <3>2. CASE t # running
      BY <1>g, <2>1, <3>2 DEF DeadlineHasData, Shape
    <3> QED BY <3>1, <3>2
  <2> QED BY <2>1, <2>2, ProceedTidy, Constants
<1>6. ASSUME NEW paired \in SUBSET Roster, Reload(paired) PROVE DeadlineHasData' /\ Owed'
  <2> DEFINE kept == {pair \in data : pair[2] \in paired}
             whole == {t \in Tiers : \A c \in Roster : <<t, c>> \in kept}
  <2>1. /\ data' = kept /\ phase' = "idle"
        /\ lastCollected' = [t \in Tiers |-> IF t \in whole THEN lastCollected[t] ELSE None]
    BY <1>6 DEF Reload, Restart, Restore
  <2>2. DeadlineHasData'
    BY <2>1 DEF DeadlineHasData
  <2> QED BY <2>1, <2>2
<1> QED BY <1>1, <1>2, <1>3, <1>4, <1>5, <1>6, Kinds

\* What first collections cost is counted by their failures.
LEMMA PassStep ==
    ASSUME Shape, DataInv, PassInv, [Next]_vars
    PROVE  PassInv'
<1> DEFINE Held == phase # "idle" /\ pass = "critical" =>
                 <<running, Head(todo)>> \notin data /\ failures[running] < FirstAttempts
           Cost(t) == /\ nightCost[t] <= FirstAttempts
                      /\ nightCost[t] <= failures[t] \/ \A c \in Roster : <<t, c>> \in data
<1>g. Held /\ \A t \in Tiers : Cost(t)
  BY DEF PassInv
<1> SUFFICES Held' /\ \A t \in Tiers : Cost(t)'
  BY DEF PassInv
<1>p. ASSUME pass' = NextPass' PROVE Held'
  BY <1>p DEF NextPass, PassOf
<1>1. CASE Heartbeat
  <2>1. UNCHANGED <<data, failures, nightCost>> /\ pass' = NextPass'
    BY <1>1 DEF Heartbeat, dataVars, schedulerVars, historyVars
  <2> QED BY <1>g, <1>p, <2>1
<1>2. CASE Delayed
  <2>1. data' = data /\ pass' = NextPass' /\ running \in Tiers /\ phase # "idle"
    BY <1>2 DEF Delayed, Proceed, Shape
  <2>2. ASSUME NEW t \in Tiers PROVE Cost(t)'
    <3>1. CASE t # running
      BY <1>2, <1>g, <2>1, <3>1, OthersKeep
    <3>2. CASE t = running /\ UNCHANGED <<failures, nightCost>>
      BY <1>g, <2>1, <3>2
    <3>3. CASE t = running /\ ~UNCHANGED <<failures, nightCost>>
      <4>1. /\ failures'[t] = failures[t] + 1
            /\ nightCost'[t] = nightCost[t] \/ (pass = "critical" /\ nightCost'[t] = nightCost[t] + 1)
        BY <1>2, <3>3 DEF Delayed, Shape
      <4>2. failures[t] \in Nat /\ nightCost[t] \in Nat /\ FirstAttempts \in Nat
        BY Constants DEF Shape
      <4>3. CASE nightCost'[t] = nightCost[t]
        BY <1>g, <2>1, <4>1, <4>2, <4>3
      <4>4. CASE pass = "critical" /\ nightCost'[t] = nightCost[t] + 1
        <5>1. <<t, Head(todo)>> \notin data /\ failures[t] < FirstAttempts
          BY <1>g, <2>1, <3>3, <4>4
        <5>2. Head(todo) \in Roster
          BY <2>1, Tails DEF Shape
        <5>3. nightCost[t] <= failures[t]
          BY <1>g, <5>1, <5>2
        <5> QED BY <4>1, <4>2, <4>4, <5>1, <5>3
      <4> QED BY <4>1, <4>3, <4>4
    <3> QED BY <3>1, <3>2, <3>3
  <2> QED BY <1>p, <2>1, <2>2
<1>3. CASE Idle \/ Tick \/ \E targets \in SUBSET Enabled : Refresh(targets)
  <2>1. /\ UNCHANGED <<data, failures, nightCost, running, todo, pass>>
        /\ phase' # "idle" => phase # "idle"
    BY <1>3 DEF Idle, Tick, Refresh, Press, dataVars, unitVars, schedulerVars, historyVars
  <2> QED BY <1>g, <2>1
<1>4. ASSUME NEW c \in Roster, CollectChild(c) PROVE Held' /\ \A t \in Tiers : Cost(t)'
  <2>1. /\ pass' = NextPass' /\ data' = data \union {<<running, c>>}
        /\ failures' = failures /\ nightCost' = nightCost
    BY <1>4, AnswersShape, ChildShape DEF schedulerVars, historyVars
  <2> QED BY <1>g, <1>p, <2>1
<1>5. ASSUME NEW c \in Roster, CollectLastChild(c) PROVE Held' /\ \A t \in Tiers : Cost(t)'
  <2>1. /\ pass' = NextPass' /\ data' = data \union {<<running, c>>}
        /\ nightCost' = nightCost
    BY <1>5, AnswersShape DEF CollectLastChild, Proceed
  <2>2. ASSUME NEW t \in Tiers PROVE Cost(t)'
    <3>1. CASE t # running
      BY <1>5, <1>g, <2>1, <3>1, OthersKeep
    <3>2. CASE t = running
      BY <1>5, <1>g, <2>1, <3>2, LastChildCompletes
    <3> QED BY <3>1, <3>2
  <2> QED BY <1>p, <2>1, <2>2
<1>6. ASSUME NEW paired \in SUBSET Roster, Reload(paired) PROVE Held' /\ \A t \in Tiers : Cost(t)'
  <2>1. /\ phase' = "idle" /\ nightCost' = [t \in Tiers |-> 0] /\ failures' = [t \in Tiers |-> 0]
    BY <1>6 DEF Reload, Restart, Restore
  <2>2. 0 <= FirstAttempts
    BY Constants
  <2> QED BY <2>1, <2>2
<1> QED BY <1>1, <1>2, <1>3, <1>4, <1>5, <1>6, Kinds

-----------------------------------------------------------------------------
IInv == Shape /\ TurnInv /\ BoostInv /\ PaceInv /\ DataInv /\ PassInv

\* Home Assistant starts with no data, no batch and an empty schedule.
LEMMA IInvInit == Init => IInv
<1> SUFFICES ASSUME Init PROVE IInv
  OBVIOUS
<1>1. clock \in Nat
  BY CollectionAssumption DEF Init
<1>2. queue = <<>> /\ running = NoTier /\ phase = "idle"
  BY DEF Init
<1>3. queue \in Seq(Tiers) /\ DOMAIN queue = {}
  BY <1>2, EmptySeq
<1>4. Shape
  BY <1>1, <1>2, <1>3 DEF Init, SchedulerInit, Shape, Times
<1>5. TurnInv
  BY <1>2, <1>3, Constants DEF TurnInv, OnItsTurn
<1>6. BoostInv /\ PaceInv
  BY DEF Init, SchedulerInit, BoostInv, PaceInv
<1>7. DataInv
  BY <1>2 DEF Init, SchedulerInit, DataInv, DeadlineHasData
<1>8. PassInv
  BY <1>2, Constants DEF Init, SchedulerInit, PassInv
<1> QED BY <1>4, <1>5, <1>6, <1>7, <1>8 DEF IInv

\* Every step keeps it.
LEMMA IInvStep == IInv /\ [Next]_vars => IInv'
BY ShapeStep, TurnStep, BoostStep, PaceStep, DataStep, PassStep DEF IInv

\* The strengthening holds of every behaviour.
LEMMA Inductive == Spec => []IInv
BY IInvInit, IInvStep, PTL DEF Spec

\* A tier that cannot succeed costs its first-collection pass FirstAttempts
\* collections at most, over every night until a reload (tiers._priority_for).
THEOREM NightsBounded == Spec => []PassBounded
<1>1. IInv => PassBounded
  BY DEF IInv, PassInv, PassBounded
<1> QED BY <1>1, Inductive, PTL

\* No tier waits for a deadline while one of its children has no snapshot, across
\* reloads that pair some of the children only (account._restore_snapshots).
THEOREM DeadlinesHaveData == Spec => []DeadlineHasData
<1>1. IInv => DeadlineHasData
  BY DEF IInv, DataInv
<1> QED BY <1>1, Inductive, PTL

\* One collection ahead of its deadline per tier and interval, however often and
\* whenever the button is pressed (scheduler.request).
THEOREM OneBoostPerInterval == Spec => EarlyOncePerInterval
<1>1. ASSUME IInv, [Next]_vars, NEW t \in Tiers,
             early'[t] # early[t], early[t] # None, early'[t] # None
      PROVE  early'[t] >= early[t] + Interval[t]
  <2>1. Shape /\ TurnInv /\ BoostInv
    BY <1>1 DEF IInv
  <2>2. PICK c \in Roster : CollectLastChild(c)
    <3>1. CASE Heartbeat \/ Idle \/ Tick \/ Delayed \/ \E targets \in SUBSET Enabled : Refresh(targets)
      BY <1>1, <3>1 DEF Heartbeat, Idle, Tick, Delayed, Refresh, historyVars
    <3>2. CASE \E c \in Roster : CollectChild(c)
      BY <1>1, <2>1, <3>2, ChildShape DEF historyVars
    <3>3. CASE \E paired \in SUBSET Roster : Reload(paired)
      BY <1>1, <3>3 DEF Reload, Restart
    <3> QED BY <1>1, <2>1, <3>1, <3>2, <3>3, Kinds
  <2>3. t = running /\ ~DeadlinePassed(t) /\ early'[t] = clock
    BY <1>1, <2>1, <2>2 DEF CollectLastChild, Shape
  <2>4. boosted[t]
    BY <2>1, <2>3 DEF TurnInv, OnItsTurn
  <2>5. clock - servedAt[t] >= Interval[t] /\ early[t] <= servedAt[t]
    BY <1>1, <2>1, <2>4 DEF BoostInv
  <2>6. clock \in Nat /\ servedAt[t] \in Int /\ early[t] \in Int /\ Interval[t] \in Int
    BY <2>1, Constants DEF Shape, Times, None
  <2> QED BY <2>3, <2>5, <2>6
<1>2. IInv /\ [Next]_vars =>
        [\A t \in Tiers :
            early'[t] # early[t] /\ early[t] # None /\ early'[t] # None
               => early'[t] >= early[t] + Interval[t]]_vars
  BY <1>1
<1> QED BY <1>2, Inductive, PTL DEF Spec, EarlyOncePerInterval

\* A tier that failed waits its share of the interval before it is collected again,
\* whatever the limiter advised, unless a person asks (scheduler.mark_failed).
THEOREM FailuresPaced == Spec => FailedTierPaced
<1>1. ASSUME IInv, [Next]_vars, NEW t \in Tiers,
             running' = t, running # t, failedAt[t] # None
      PROVE  clock >= failedAt[t] + RetryFloor(t)
  <2>1. Shape /\ TurnInv /\ PaceInv
    BY <1>1 DEF IInv
  <2>2. t \in Due \/ OnItsTurn(t)
    <3>1. CASE Heartbeat
      BY <1>1, <2>1, <3>1, HeartbeatTidy
    <3>2. CASE Delayed \/ \E c \in Roster : CollectLastChild(c)
      <4>1. phase # "idle" /\ Proceed
        BY <2>1, <3>2, AnswersShape DEF Delayed, CollectLastChild
      <4>2. OnItsTurn(t)'
        BY <1>1 DEF OnItsTurn
      <4> QED BY <2>1, <4>1, <4>2, ProceedTidy
    <3>3. CASE Idle \/ Tick \/ \E targets \in SUBSET Enabled : Refresh(targets)
      BY <1>1, <3>3 DEF Idle, Tick, Refresh, unitVars
    <3>4. CASE \E c \in Roster : CollectChild(c)
      BY <1>1, <2>1, <3>4, ChildShape
    <3>5. CASE \E paired \in SUBSET Roster : Reload(paired)
      BY <1>1, <3>5, Constants DEF Reload, Restart
    <3> QED BY <1>1, <2>1, <3>1, <3>2, <3>3, <3>4, <3>5, Kinds
  <2>3. CASE t \in Due
    <3>1. /\ clock >= notBefore[t] /\ clock \in Nat /\ notBefore[t] \in Int
          /\ failedAt[t] \in Int /\ RetryFloor(t) \in Int
      BY <2>1, <2>3, Floors DEF Due, Shape, Times, None
    <3> QED BY <1>1, <2>1, <3>1 DEF PaceInv
  <2>4. CASE OnItsTurn(t)
    BY <1>1, <2>1, <2>4 DEF TurnInv
  <2> QED BY <2>2, <2>3, <2>4
<1>2. IInv /\ [Next]_vars =>
        [\A t \in Tiers :
            running' = t /\ running # t /\ failedAt[t] # None
               => clock >= failedAt[t] + RetryFloor(t)]_vars
  BY <1>1
<1> QED BY <1>2, Inductive, PTL DEF Spec, FailedTierPaced

-----------------------------------------------------------------------------
(* Types.                                                                  *)

Stamps == 0 .. clock \union {None}

ClocksOK ==
    /\ clock \in Nat
    /\ lastCollected \in [Tiers -> Stamps] /\ servedAt \in [Tiers -> Stamps]
    /\ lastSuccess \in Stamps /\ batchStart \in Stamps
LedgerOK ==
    /\ boosted \in [Tiers -> BOOLEAN] /\ failures \in [Tiers -> 0 .. MaxFailures]
    /\ notBefore \in [Tiers -> Nat]
DataOK == data \subseteq Tiers \X Roster /\ primed \subseteq Tiers \X Roster
BatchOK ==
    /\ running \in Enabled \union {NoTier}
    /\ phase \in {"idle", "connect", "check", "placed"} /\ pass \in {"critical", "gesture", "declared"}
    /\ running = NoTier <=> batchStart = None
    /\ running = NoTier <=> phase = "idle"
    /\ running = NoTier <=> todo = <<>>
    /\ running = NoTier => queue = <<>>
    /\ \A i \in DOMAIN queue : queue[i] \in Enabled
NewsOK ==
    /\ \A i, j \in DOMAIN todo : todo[i] = todo[j] => i = j
    /\ \A c \in events : c \in Roster /\ \A i \in DOMAIN todo : todo[i] # c
    /\ running = NoTier => events = {}

Typed == ClocksOK /\ LedgerOK /\ DataOK /\ BatchOK /\ NewsOK

\* The parts make the whole.
LEMMA TypedIsTypeOK == ASSUME Shape, Typed PROVE TypeOK
<1>1. ClocksOK /\ LedgerOK /\ DataOK /\ BatchOK /\ NewsOK
  BY DEF Typed
<1>2. {lastCollected[t] : t \in Tiers} \union {servedAt[t] : t \in Tiers}
        \union {lastSuccess, batchStart} \subseteq 0 .. clock \union {None}
  BY <1>1 DEF ClocksOK, Stamps
<1>3. batchStart \in Nat \union {None}
  BY <1>1 DEF ClocksOK, Stamps
<1>4. /\ (running = NoTier) = (batchStart = None) /\ (running = NoTier) = (phase = "idle")
      /\ (running = NoTier) = (todo = <<>>)
  BY <1>1 DEF BatchOK
<1>5. \A i, j \in DOMAIN queue :
         queue[i] \in Enabled \ {running} /\ (i # j => queue[i] # queue[j])
  BY <1>1 DEF BatchOK, Shape
<1>6. events \subseteq Roster \ {todo[i] : i \in DOMAIN todo}
  BY <1>1 DEF NewsOK
<1>7. data \union primed \subseteq Tiers \X Roster
  BY <1>1 DEF DataOK
<1> QED BY <1>1, <1>2, <1>3, <1>4, <1>5, <1>6, <1>7 DEF TypeOK, ClocksOK, LedgerOK, BatchOK

\* The batch goes on with a tier it held, or is over.
LEMMA ProceedTyped ==
    ASSUME Shape, Typed, phase # "idle", Proceed
    PROVE  BatchOK' /\ NewsOK' /\ batchStart' \in {batchStart, None}
<1>1. running \in Tiers /\ running # NoTier /\ batchStart # None
  BY Constants DEF Shape, Typed, BatchOK
<1>2. events' = {} /\ pass' \in {"critical", "gesture", "declared"}
  BY DEF Proceed, NextPass, PassOf
<1>3. CASE queue = <<>>
  <2>1. /\ queue' = <<>> /\ running' = NoTier /\ todo' = <<>> /\ phase' = "idle" /\ batchStart' = None
        /\ DOMAIN <<>> = {}
    BY <1>3, EmptySeq DEF Proceed
  <2> QED BY <1>2, <2>1 DEF BatchOK, NewsOK
<1>4. CASE queue # <<>>
  <2>1. /\ queue' = Tail(queue) /\ running' = Head(queue) /\ todo' = Children
        /\ phase' = "connect" /\ batchStart' = batchStart
    BY <1>4 DEF Proceed
  <2>2. /\ Head(queue) \in Enabled
        /\ \A i \in DOMAIN Tail(queue) : Tail(queue)[i] \in Enabled
    <3>1. queue \in Seq(Tiers) /\ \A i \in DOMAIN queue : queue[i] \in Enabled
      BY DEF Shape, Typed, BatchOK
    <3> QED BY <1>4, <3>1, Tails
  <2>3. Head(queue) # NoTier
    BY <2>2, Constants
  <2>4. BatchOK'
    BY <1>1, <1>2, <2>1, <2>2, <2>3, Constants DEF BatchOK
  <2>5. NewsOK'
    BY <1>2, <2>1, CollectionAssumption DEF NewsOK
  <2> QED BY <2>1, <2>4, <2>5
<1> QED BY <1>3, <1>4

\* The delays that the scheduler adds up are no less than nothing.
LEMMA DelaysNat ==
    ASSUME Shape, NEW t \in Tiers, NEW r \in Nat
    PROVE  /\ UntilDawn \in Nat
           /\ clock + Shortest(r, Interval[t]) \in Nat
           /\ clock + Shortest(Longest(r, RetryFloor(t)), Interval[t]) \in Nat
<1>1. clock \in Nat /\ Interval[t] \in Nat /\ DayLength \in Nat \ {0}
  BY Constants, CollectionAssumption DEF Shape
<1>2. \A x \in Nat, y \in Nat \ {0} : x % y \in 0 .. y - 1
  BY Z3
<1>3. clock % DayLength \in 0 .. DayLength - 1
  BY <1>1, <1>2
<1>4. UntilDawn \in Nat
  BY <1>1, <1>3 DEF UntilDawn
<1>5. RetryFloor(t) \in Int
  BY Floors
<1> QED BY <1>1, <1>4, <1>5 DEF Shortest, Longest

\* A tier that is put off.
LEMMA PutOffTyped ==
    ASSUME Shape, Typed, phase # "idle", Proceed, NEW w \in Nat,
           UNCHANGED <<clock, lastCollected, servedAt, data, primed>>,
           lastSuccess' \in {lastSuccess, None},
           notBefore' = [notBefore EXCEPT ![running] = w],
           boosted' = [boosted EXCEPT ![running] = FALSE],
           \/ UNCHANGED failures
           \/ failures[running] < MaxFailures /\ failures' = [failures EXCEPT ![running] = @ + 1]
    PROVE  Typed'
<1>1. BatchOK' /\ NewsOK' /\ batchStart' \in {batchStart, None}
  BY ProceedTyped
<1>2. running \in Tiers
  BY DEF Shape
<1>3. ClocksOK'
  BY <1>1 DEF Typed, ClocksOK, Stamps
<1>4. LedgerOK'
  <2>1. notBefore' \in [Tiers -> Nat] /\ boosted' \in [Tiers -> BOOLEAN]
    BY <1>2 DEF Typed, LedgerOK
  <2>2. failures' \in [Tiers -> 0 .. MaxFailures]
    <3>1. /\ failures \in [Tiers -> 0 .. MaxFailures] /\ MaxFailures \in Nat
          /\ failures[running] \in 0 .. MaxFailures
      BY <1>2, CollectionAssumption DEF Typed, LedgerOK
    <3>2. CASE UNCHANGED failures
      BY <3>1, <3>2
    <3>3. CASE failures[running] < MaxFailures /\ failures' = [failures EXCEPT ![running] = @ + 1]
      <4>1. failures[running] + 1 \in 0 .. MaxFailures
        BY <3>1, <3>3
      <4> QED BY <1>2, <3>1, <3>3, <4>1
    <3> QED BY <3>2, <3>3
  <2> QED BY <2>1, <2>2 DEF LedgerOK
<1>5. DataOK'
  BY DEF Typed, DataOK
<1> QED BY <1>1, <1>3, <1>4, <1>5 DEF Typed

\* A tick, a press, a login, an admission and a publication.
LEMMA QuietTyped ==
    ASSUME Shape, Typed,
           UNCHANGED <<batchStart, running, queue, todo, pass, events, lastCollected, servedAt, failures,
                       data, primed>>,
           phase' = phase \/ (phase # "idle" /\ phase' \in {"check", "placed"}),
           clock' \in Nat, clock <= clock', lastSuccess' \in {lastSuccess, clock},
           boosted' \in [Tiers -> BOOLEAN], notBefore' \in [Tiers -> Nat]
    PROVE  Typed'
<1>1. clock \in Nat
  BY DEF Shape
<1>2. Stamps \subseteq Stamps' /\ clock \in Stamps
  BY <1>1 DEF Stamps
<1>3. ClocksOK'
  <2>1. lastCollected \in [Tiers -> Stamps] /\ servedAt \in [Tiers -> Stamps]
        /\ lastSuccess \in Stamps /\ batchStart \in Stamps
    BY DEF Typed, ClocksOK
  <2> HIDE DEF Stamps
  <2>2. lastCollected \in [Tiers -> Stamps'] /\ servedAt \in [Tiers -> Stamps']
    BY <1>2, <2>1
  <2> QED BY <1>2, <2>1, <2>2 DEF ClocksOK
<1>4. LedgerOK' /\ DataOK' /\ NewsOK'
  BY DEF Typed, LedgerOK, DataOK, NewsOK
<1>5. BatchOK'
  BY DEF Typed, BatchOK
<1> QED BY <1>3, <1>4, <1>5 DEF Typed

\* A child has answered, and others are to come.
LEMMA ChildTyped ==
    ASSUME Shape, Typed, NEW c \in Roster, CollectChild(c)
    PROVE  Typed'
<1>1. /\ UNCHANGED <<schedulerVars, clock, running, queue, batchStart>> /\ lastSuccess' = clock
      /\ phase' = "connect" /\ phase = "placed" /\ todo' = Tail(todo) /\ Len(todo) > 1 /\ c = Head(todo)
      /\ events' \in {events, events \union {c}}
      /\ data' = data \union {<<running, c>>} /\ primed' = primed \union {<<running, c>>}
  BY DEF CollectChild, Answered
<1>2. /\ running \in Tiers /\ todo \in Seq(Roster) /\ todo # <<>>
  BY <1>1 DEF Shape
<1>3. /\ Head(todo) = todo[1] /\ 1 \in DOMAIN todo /\ DOMAIN Tail(todo) = 1 .. Len(todo) - 1
      /\ Tail(todo) \in Seq(Roster) /\ Len(todo) \in Nat
      /\ \A i \in DOMAIN Tail(todo) : i + 1 \in DOMAIN todo /\ Tail(todo)[i] = todo[i + 1]
  BY <1>2, Tails
<1>4. todo' # <<>>
  <2>1. 1 \in DOMAIN Tail(todo)
    BY <1>1, <1>3
  <2>2. DOMAIN <<>> = {}
    BY EmptySeq
  <2>3. 1 \in DOMAIN todo'
    BY <1>1, <2>1
  <2> QED BY <2>2, <2>3, Zenon
<1>5. pass' \in {"critical", "gesture", "declared"}
  BY DEF CollectChild, NextPass, PassOf
<1>6. BatchOK'
  <2>1. todo # <<>> /\ phase # "idle" /\ phase' # "idle"
    BY <1>1, <1>2
  <2> QED BY <1>1, <1>4, <1>5, <2>1 DEF Typed, BatchOK
<1>7. NewsOK'
  <2>1. ASSUME NEW i \in DOMAIN Tail(todo), NEW j \in DOMAIN Tail(todo), Tail(todo)[i] = Tail(todo)[j]
        PROVE  i = j
    <3>1. i + 1 = j + 1 /\ i \in Int /\ j \in Int
      BY <1>3, <2>1 DEF Typed, NewsOK
    <3> QED BY <3>1
  <2>2. ASSUME NEW i \in DOMAIN Tail(todo) PROVE Tail(todo)[i] # c
    <3>1. i + 1 \in DOMAIN todo /\ i + 1 # 1 /\ Tail(todo)[i] = todo[i + 1]
      BY <1>3
    <3> QED BY <1>1, <1>3, <3>1 DEF Typed, NewsOK
  <2>3. ASSUME NEW e \in events PROVE e \in Roster /\ \A i \in DOMAIN Tail(todo) : Tail(todo)[i] # e
    BY <1>3, <2>3 DEF Typed, NewsOK
  <2>4. running' # NoTier
    BY <1>1, <1>2, Constants
  <2> QED BY <1>1, <2>1, <2>2, <2>3, <2>4 DEF NewsOK
<1>8. ClocksOK' /\ LedgerOK'
  BY <1>1 DEF Shape, Typed, ClocksOK, LedgerOK, Stamps, schedulerVars
<1>9. DataOK'
  BY <1>1, <1>2 DEF Typed, DataOK
<1> QED BY <1>6, <1>7, <1>8, <1>9 DEF Typed

\* The last child has answered: the tier is collected.
LEMMA LastChildTyped ==
    ASSUME Shape, Typed, NEW c \in Roster, CollectLastChild(c)
    PROVE  Typed'
<1>1. /\ phase # "idle" /\ Proceed /\ clock' = clock /\ lastSuccess' = clock /\ MarkCollected(running)
      /\ data' = data \union {<<running, c>>} /\ primed' = primed \union {<<running, c>>}
  BY DEF CollectLastChild, Answered
<1>2. BatchOK' /\ NewsOK' /\ batchStart' \in {batchStart, None}
  BY <1>1, ProceedTyped
<1>3. running \in Tiers /\ clock \in Nat
  BY <1>1 DEF Shape
<1>4. ClocksOK'
  <2>1. clock \in Stamps /\ None \in Stamps /\ Stamps' = Stamps
    BY <1>1, <1>3 DEF Stamps
  <2>2. lastCollected \in [Tiers -> Stamps] /\ servedAt \in [Tiers -> Stamps] /\ batchStart \in Stamps
    BY DEF Typed, ClocksOK
  <2>3. lastCollected' \in [Tiers -> Stamps] /\ servedAt' \in [Tiers -> Stamps]
    <3> HIDE DEF Stamps
    <3> QED BY <1>1, <1>3, <2>1, <2>2 DEF MarkCollected
  <2> HIDE DEF Stamps
  <2> QED BY <1>1, <1>2, <1>3, <2>1, <2>2, <2>3 DEF ClocksOK
<1>5. LedgerOK'
  BY <1>1, <1>3, CollectionAssumption DEF MarkCollected, Typed, LedgerOK
<1>6. DataOK'
  BY <1>1, <1>3 DEF Typed, DataOK
<1> QED BY <1>2, <1>4, <1>5, <1>6 DEF Typed

\* A batch begins with tiers that are switched on.
LEMMA HeartbeatTyped == ASSUME Shape, Typed, Heartbeat PROVE Typed'
<1>1. /\ UNCHANGED <<clock, schedulerVars, events, lastSuccess, data, primed>>
      /\ batchStart' = clock /\ todo' = Children /\ phase' = "connect" /\ running = NoTier
      /\ pass' \in {"critical", "gesture", "declared"}
  BY DEF Heartbeat, dataVars, NextPass, PassOf
<1>2. running' \in Due /\ \A i \in DOMAIN queue' : queue'[i] \in Due
  BY HeartbeatTidy
<1>3. Due \subseteq Enabled /\ clock \in Nat /\ clock # None /\ NoTier \notin Enabled
  BY Constants DEF Due, Shape, None
<1>4. BatchOK'
  BY <1>1, <1>2, <1>3, Constants DEF BatchOK
<1>5. NewsOK'
  <2>1. events = {}
    BY <1>1 DEF Typed, NewsOK
  <2> QED BY <1>1, <2>1, CollectionAssumption DEF NewsOK
<1>6. ClocksOK' /\ LedgerOK' /\ DataOK'
  BY <1>1, <1>3 DEF Typed, ClocksOK, LedgerOK, DataOK, Stamps, schedulerVars
<1> QED BY <1>4, <1>5, <1>6 DEF Typed
\* After a reload there is no batch, and nothing is dated later than now.
LEMMA ReloadTyped ==
    ASSUME Shape, Typed, NEW paired \in SUBSET Roster, Reload(paired)
    PROVE  Typed'
<1>1. PICK kept \in SUBSET data, restored \in SUBSET Tiers : Restart(kept, restored)
  BY DEF Reload
<1>2. /\ clock' = clock /\ clock \in Nat /\ lastSuccess' = clock /\ batchStart' = None
      /\ running' = NoTier /\ queue' = <<>> /\ todo' = <<>> /\ phase' = "idle" /\ pass' = "declared"
      /\ events' = {} /\ data' = kept /\ primed' = {} /\ DOMAIN <<>> = {}
  BY <1>1, EmptySeq DEF Restart, Shape
<1>3. ClocksOK'
  <2>1. clock \in Stamps /\ None \in Stamps /\ Stamps' = Stamps
    BY <1>2 DEF Stamps
  <2>2. lastCollected \in [Tiers -> Stamps]
    BY DEF Typed, ClocksOK
  <2>3. lastCollected' \in [Tiers -> Stamps] /\ servedAt' \in [Tiers -> Stamps]
    <3> HIDE DEF Stamps
    <3> QED BY <1>1, <2>1, <2>2 DEF Restart, Restore
  <2> HIDE DEF Stamps
  <2> QED BY <1>2, <2>1, <2>3 DEF ClocksOK
<1>4. LedgerOK'
  BY <1>1, CollectionAssumption DEF Restart, Restore, LedgerOK
<1>5. DataOK' /\ NewsOK' /\ BatchOK'
  BY <1>2 DEF Typed, DataOK, NewsOK, BatchOK
<1> QED BY <1>3, <1>4, <1>5 DEF Typed

\* Every step keeps the types.
LEMMA TypedStep == ASSUME Shape, Typed, [Next]_vars PROVE Typed'
<1>0. clock \in Nat /\ lastSuccess \in Stamps /\ boosted \in [Tiers -> BOOLEAN] /\ notBefore \in [Tiers -> Nat]
  BY DEF Shape, Typed, ClocksOK, LedgerOK
<1>1. CASE QuietHoursRefuse
  <2> DEFINE w == clock + Shortest(UntilDawn, Interval[running])
  <2>1. running \in Tiers /\ phase # "idle"
    BY <1>1 DEF QuietHoursRefuse, Shape
  <2>2. w \in Nat
    <3>1. UntilDawn \in Nat
      BY <2>1, DelaysNat, 0 \in Nat
    <3> QED BY <2>1, <3>1, DelaysNat
  <2> QED BY <1>1, <2>1, <2>2, PutOffTyped DEF QuietHoursRefuse, Defer, PushBack
<1>2. ASSUME NEW d \in RetryDelays, LimiterDefers(d) PROVE Typed'
  <2> DEFINE w == clock + Shortest(d, Interval[running])
  <2>1. running \in Tiers /\ phase # "idle"
    BY <1>2 DEF LimiterDefers, Shape
  <2>2. w \in Nat
    BY <2>1, DelaysNat, Constants
  <2> QED BY <1>2, <2>1, <2>2, PutOffTyped DEF LimiterDefers, Defer, PushBack
<1>3. ASSUME NEW d \in RetryDelays, UnitFails(d) PROVE Typed'
  <2> DEFINE w == clock + Shortest(Longest(d, RetryFloor(running)), Interval[running])
  <2>1. running \in Tiers /\ phase # "idle"
    BY <1>3 DEF UnitFails, Shape
  <2>2. w \in Nat
    BY <2>1, DelaysNat, Constants
  <2>3. /\ Proceed /\ UNCHANGED <<clock, lastCollected, servedAt, data, primed>>
        /\ lastSuccess' \in {lastSuccess, None}
        /\ notBefore' = [notBefore EXCEPT ![running] = w]
        /\ boosted' = [boosted EXCEPT ![running] = FALSE]
        /\ failures[running] < MaxFailures /\ failures' = [failures EXCEPT ![running] = @ + 1]
    BY <1>3 DEF UnitFails, MarkFailed, PushBack
  <2> HIDE DEF w
  <2> QED BY <2>1, <2>2, <2>3, PutOffTyped
<1>4. ASSUME NEW targets, Refresh(targets) PROVE Typed'
  <2>1. /\ UNCHANGED <<clock, batchStart, running, queue, todo, phase, pass, events, lastSuccess,
                       lastCollected, servedAt, failures, data, primed>>
        /\ boosted' \in [Tiers -> BOOLEAN] /\ notBefore' \in [Tiers -> Nat]
    BY <1>0, <1>4 DEF Refresh, Press, unitVars, dataVars
  <2> QED BY <1>0, <2>1, QuietTyped
<1>5. CASE HoldSession \/ LogIn \/ Admit
  <2>1. /\ UNCHANGED <<clock, batchStart, running, queue, todo, pass, events, boosted, notBefore,
                       lastCollected, servedAt, failures, data, primed>>
        /\ lastSuccess' \in {lastSuccess, clock} /\ phase # "idle" /\ phase' \in {"check", "placed"}
    BY <1>5 DEF HoldSession, LogIn, Admit, schedulerVars, dataVars
  <2> QED BY <1>0, <2>1, QuietTyped
<1>6. CASE Tick
  <2>1. /\ UNCHANGED <<batchStart, running, queue, todo, phase, pass, events, lastSuccess, boosted, notBefore,
                       lastCollected, servedAt, failures, data, primed>>
        /\ clock' = clock + 1
    BY <1>6 DEF Tick, schedulerVars, unitVars, dataVars
  <2>2. clock' \in Nat /\ clock <= clock'
    BY <1>0, <2>1
  <2> QED BY <1>0, <2>1, <2>2, QuietTyped
<1>7. ASSUME UNCHANGED vars \/ \E pair \in EventPairs : SchoolPublishes(pair) PROVE Typed'
  <2>1. UNCHANGED <<clock, batchStart, running, queue, todo, phase, pass, events, lastSuccess, boosted, notBefore,
                    lastCollected, servedAt, failures, data, primed>>
    BY <1>7 DEF vars, SchoolPublishes, schedulerVars, unitVars
  <2> QED BY <1>0, <2>1, QuietTyped
<1> QED
  BY <1>1, <1>2, <1>3, <1>4, <1>5, <1>6, <1>7, HeartbeatTyped, ChildTyped, LastChildTyped, ReloadTyped
     DEF Next, BatchStep

\* Every variable has its type, and a batch is open exactly while a tier is collected,
\* for any tiers, children and days (account._async_run_batch, _async_collect).
THEOREM CollectionTypes == Spec => []TypeOK
<1>1. ASSUME Init PROVE Typed
  <2>1. clock \in Nat /\ MaxFailures \in Nat
    BY <1>1, CollectionAssumption DEF Init
  <2>2. DOMAIN queue = {} /\ DOMAIN todo = {}
    BY <1>1, EmptySeq DEF Init
  <2>3. ClocksOK /\ LedgerOK /\ DataOK
    BY <1>1, <2>1 DEF Init, SchedulerInit, ClocksOK, LedgerOK, DataOK, Stamps
  <2>4. BatchOK /\ NewsOK
    BY <1>1, <2>2 DEF Init, BatchOK, NewsOK
  <2> QED BY <2>3, <2>4 DEF Typed
<1>2. IInv /\ Typed /\ [Next]_vars => Typed'
  BY TypedStep DEF IInv
<1>3. IInv /\ Typed => TypeOK
  BY TypedIsTypeOK DEF IInv
<1> QED BY <1>1, <1>2, <1>3, Inductive, PTL DEF Spec
=============================================================================
