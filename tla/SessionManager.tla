--------------------------- MODULE SessionManager ---------------------------
(***************************************************************************)
(* The PRONOTE session of one account (session.py): who holds the client,  *)
(* when a unit of work logs in first, what an answer of the server means,  *)
(* and how the manager learns the server's unknown inactivity timeout.     *)
(*                                                                         *)
(* Units of work (one child, one tier) pass one at a time through _gate, a *)
(* FIFO asyncio lock.  A tick is longer than a unit of work: time passes   *)
(* between units, and inside a unit only the deadline of SerialExecutor    *)
(* matters.  The limiter is an environment that serves or defers; it has   *)
(* its own module.  Logging is left out.                                   *)
(***************************************************************************)
EXTENDS Integers, Sequences, FiniteSets

CONSTANTS
    Services,         \* callers outside any batch: services, images, to-do items
    Strategy,         \* configured SessionStrategy
    Evidence,         \* SHORT_TIMEOUT_EVIDENCE
    PresumedDead,     \* PRESUMED_DEAD_AFTER_SECONDS, in ticks
    ProbeInterval,    \* PROBE_INTERVAL_SECONDS, in ticks
    MinSample,        \* MIN_LIFETIME_SAMPLE_SECONDS, in ticks
    ServerTimeout,    \* the server forgets a session idle for that many ticks
    MaxDrops,         \* bound: sessions the server forgets sooner, in one batch
    Answers,          \* how a call may fail, besides on an expired session
    LimiterMayRefuse, \* FALSE: all is served, and logins fail on a dead token only
    CallsPerBatch,    \* bound: units of work in one batch
    MaxClock          \* bound on time

AllAnswers == {"gone", "leaked", "refused", "unreachable", "abandoned"}

ASSUME SessionAssumption ==
    /\ "batch" \notin Services /\ IsFiniteSet(Services)
    /\ Strategy \in {"lazy", "per_batch"}
    /\ {Evidence, PresumedDead, ProbeInterval, ServerTimeout, CallsPerBatch} \subseteq Nat \ {0}
    /\ {MinSample, MaxDrops, MaxClock} \subseteq Nat
    /\ LimiterMayRefuse \in BOOLEAN
    /\ Answers \subseteq AllAnswers

VARIABLES
    clock,
    gate,             \* _gate: its waiters in order, the holder first
    pc,               \* per task: idle, queued at the gate, login or call (at the
                      \* limiter), handshake or flying (on the worker)
    unit,             \* per task: calls and logins of its running unit of work
    client,           \* a client is held
    seenAt,           \* when the server last heard from its session, None once
                      \* the server has forgotten it
    lastSuccess,      \* _last_success, or None
    sessionFresh,     \* _session_batch_id = _batch_id
    expiries,         \* _consecutive_expiries
    confirmed,        \* _short_timeout_confirmed
    lastProbe,        \* _last_probe, or None
    shortest,         \* lifetime.observed_minutes, or None
    failing,          \* the limiter's consecutive_failures > 0
    tokenCurrent,     \* the password in memory is the one the server expects
    straggler,        \* abandoned work the worker thread is still doing
    closed,           \* the executor is shut down
    left,             \* units the running batch still has to start
    batchStart,       \* history: when the batch began
    batchLogins,      \* history: logins that succeeded since then
    batchExpiries     \* history: expired sessions met since then

clientVars == <<client, seenAt, sessionFresh>>
lifetimeVars == <<expiries, confirmed, lastProbe, shortest>>
batchVars == <<left, batchStart>>
historyVars == <<batchLogins, batchExpiries>>
workerVars == <<tokenCurrent, straggler, closed>>
vars == <<clock, gate, pc, unit, client, seenAt, sessionFresh, lastSuccess,
          expiries, confirmed, lastProbe, shortest, failing, tokenCurrent, straggler,
          closed, left, batchStart, batchLogins, batchExpiries>>

None == -1
Tasks == Services \union {"batch"}
NoUnit == [calls |-> 0, logins |-> 0]
Alive == seenAt # None

-----------------------------------------------------------------------------
ProbeDue == lastProbe = None \/ clock - lastProbe >= ProbeInterval

EffectiveStrategy ==
    IF Strategy = "per_batch" \/ (confirmed /\ ~ProbeDue) THEN "per_batch" ELSE "lazy"

PresumedGone == lastSuccess # None /\ clock - lastSuccess >= PresumedDead

ReconnectRequired_EveryCall ==
    PresumedGone \/ EffectiveStrategy = "per_batch"
ReconnectRequired_LazyOnly == PresumedGone
ReconnectRequired ==
    \/ PresumedGone
    \/ EffectiveStrategy = "per_batch" /\ ~sessionFresh

Gap == IF lastSuccess = None THEN 0 ELSE clock - lastSuccess

Holds_AnyWaiter(t) == \E i \in DOMAIN gate : gate[i] = t
Holds(t) == gate # <<>> /\ Head(gate) = t

\* A waiter is in the queue once.
GateWithout(t) ==
    LET place == CHOOSE i \in DOMAIN gate : gate[i] = t
    IN  [i \in 1 .. Len(gate) - 1 |-> IF i < place THEN gate[i] ELSE gate[i + 1]]

\* _reopen: never refresh(); the next call builds a fresh client.
Reopen ==
    /\ client' = FALSE
    /\ seenAt' = None
    /\ sessionFresh' = FALSE

\* The unit is over, by result or by exception, and the gate is released.
Leave_KeepsTheGate(t) ==
    /\ pc' = [pc EXCEPT ![t] = "idle"]
    /\ UNCHANGED gate
    /\ unit' = [unit EXCEPT ![t] = NoUnit]
Leave(t) ==
    /\ pc' = [pc EXCEPT ![t] = "idle"]
    /\ gate' = GateWithout(t)
    /\ unit' = [unit EXCEPT ![t] = NoUnit]

Replaying(t) == unit[t].calls >= 2

\* Work the event loop abandons goes on in the worker, if it had begun.
Straggle(work) == straggler' = IF straggler = "none" THEN work ELSE straggler

-----------------------------------------------------------------------------
(* One unit of work: run, _run_locked, _ensure_client.                     *)

Request_PastTheEnd(t) ==
    /\ pc[t] = "idle"
    /\ ~closed
    /\ IF t = "batch"
       THEN left' = left - 1
       ELSE UNCHANGED left
    /\ pc' = [pc EXCEPT ![t] = "queued"]
    /\ gate' = Append(gate, t)
    /\ UNCHANGED <<clock, unit, clientVars, lastSuccess, failing, batchStart, lifetimeVars,
                   workerVars, historyVars>>
Request(t) ==
    /\ pc[t] = "idle"
    /\ ~closed
    /\ IF t = "batch"
       THEN left > 0 /\ left' = left - 1
       ELSE UNCHANGED left
    /\ pc' = [pc EXCEPT ![t] = "queued"]
    /\ gate' = Append(gate, t)
    /\ UNCHANGED <<clock, unit, clientVars, lastSuccess, failing, batchStart, lifetimeVars,
                   workerVars, historyVars>>

\* _ensure_client(eager=False): keep the held client, or drop it and log in.
Start(t) ==
    /\ Holds(t)
    /\ pc[t] = "queued"
    /\ IF client /\ ~ReconnectRequired
       THEN /\ pc' = [pc EXCEPT ![t] = "call"]
            /\ unit' = [unit EXCEPT ![t].calls = 1]
            /\ UNCHANGED clientVars
       ELSE /\ pc' = [pc EXCEPT ![t] = "login"]
            /\ UNCHANGED unit
            /\ IF client THEN Reopen ELSE UNCHANGED clientVars
    /\ UNCHANGED <<clock, gate, lastSuccess, failing, batchVars, lifetimeVars, workerVars,
                   historyVars>>

\* The limiter served the unit: SerialExecutor.run hands it to the worker.
Submit(t) ==
    /\ pc[t] \in {"login", "call"}
    /\ ~closed
    /\ pc' = [pc EXCEPT ![t] = IF pc[t] = "login" THEN "handshake" ELSE "flying"]
    /\ UNCHANGED <<clock, gate, unit, clientVars, lastSuccess, failing, batchVars, lifetimeVars,
                   workerVars, historyVars>>

\* The limiter defers or refuses, or the executor has been shut down meanwhile.
TurnedAway(t) ==
    /\ pc[t] \in {"login", "call"}
    /\ LimiterMayRefuse \/ closed
    /\ Leave(t)
    /\ UNCHANGED <<clock, clientVars, lastSuccess, failing, batchVars, lifetimeVars,
                   workerVars, historyVars>>

\* The caller is cancelled at the gate, or while the worker is busy for it.
Cancel(t) ==
    /\ \/ pc[t] = "queued" /\ UNCHANGED straggler
       \/ pc[t] = "flying" /\ "abandoned" \in Answers /\ Straggle("call")
    /\ Leave(t)
    /\ UNCHANGED <<clock, clientVars, lastSuccess, failing, batchVars, lifetimeVars,
                   tokenCurrent, closed, historyVars>>

-----------------------------------------------------------------------------
(* What a login comes back with; its outcome goes to the limiter.          *)

LoginFails(t) ==
    /\ pc[t] = "handshake"
    /\ LimiterMayRefuse \/ ~tokenCurrent
    /\ straggler = "none"
    /\ failing' \in {failing, TRUE}
    /\ Leave(t)
    /\ UNCHANGED <<clock, clientVars, lastSuccess, batchVars, lifetimeVars, workerVars,
                   historyVars>>

\* The deadline passes, or the caller is cancelled, during the handshake.
LoginAbandoned(t) ==
    /\ pc[t] = "handshake"
    /\ "abandoned" \in Answers
    /\ Straggle("login")
    /\ failing' \in {failing, TRUE}
    /\ Leave(t)
    /\ UNCHANGED <<clock, clientVars, lastSuccess, batchVars, lifetimeVars,
                   tokenCurrent, closed, historyVars>>

\* The server rotates the token in its answer and the manager adopts it.
LoginSucceeds(t) ==
    /\ pc[t] = "handshake"
    /\ straggler = "none"
    /\ tokenCurrent
    /\ client' = TRUE
    /\ seenAt' = clock
    /\ sessionFresh' = TRUE
    /\ lastSuccess' = clock
    /\ failing' = FALSE
    /\ lastProbe' = IF confirmed /\ ProbeDue THEN clock ELSE lastProbe
    /\ batchLogins' = batchLogins + 1
    /\ pc' = [pc EXCEPT ![t] = "call"]
    /\ unit' = [unit EXCEPT ![t].calls = @ + 1, ![t].logins = @ + 1]
    /\ UNCHANGED <<clock, gate, batchVars, expiries, confirmed, shortest, workerVars,
                   batchExpiries>>

-----------------------------------------------------------------------------
(* What a call comes back with.                                            *)

\* _note_survival.
NoteSurvival ==
    /\ expiries' = 0
    /\ IF confirmed /\ shortest # None /\ shortest > 0 /\ Gap >= shortest
       THEN confirmed' = FALSE /\ lastProbe' = None
       ELSE UNCHANGED <<confirmed, lastProbe>>
    /\ UNCHANGED shortest

\* A replay that succeeds is no evidence about the timeout.
CallSucceeds(t) ==
    /\ pc[t] = "flying"
    /\ straggler = "none" /\ Alive
    /\ IF Replaying(t) THEN UNCHANGED lifetimeVars ELSE NoteSurvival
    /\ lastSuccess' = clock
    /\ seenAt' = clock
    /\ failing' = FALSE
    /\ Leave(t)
    /\ UNCHANGED <<clock, client, sessionFresh, batchVars, workerVars, historyVars>>

ProtocolErrors == {"gone", "leaked", "refused", "expired"}

\* note_failure: on a first call for what is the server's fault, on a replay for
\* every protocol error and nothing else.
Charged(t) ==
    IF Replaying(t) THEN ProtocolErrors ELSE {"refused", "unreachable", "abandoned"}

\* gone: ChildNotFound, raised here; leaked: Erreur.G 22; refused: any other code.
CallFails(t, answer) ==
    /\ pc[t] = "flying"
    /\ answer \in Answers
    /\ straggler = "none" \/ answer = "abandoned"
    /\ answer \in {"leaked", "refused"} => Alive
    /\ IF answer = "abandoned" THEN Straggle("call") ELSE UNCHANGED straggler
    /\ seenAt' = IF answer \in {"leaked", "refused"} THEN clock ELSE seenAt
    /\ failing' = (failing \/ answer \in Charged(t))
    /\ Leave(t)
    /\ UNCHANGED <<clock, client, sessionFresh, lastSuccess, batchVars, lifetimeVars,
                   tokenCurrent, closed, historyVars>>

\* _note_expiry.  Counting past Evidence changes nothing.
NoteExpiry ==
    /\ shortest' = IF Gap >= MinSample /\ (shortest = None \/ Gap < shortest)
                   THEN Gap ELSE shortest
    /\ expiries' = IF expiries < Evidence THEN expiries + 1 ELSE expiries
    /\ IF expiries + 1 >= Evidence /\ ~confirmed
       THEN confirmed' = TRUE /\ lastProbe' = clock
       ELSE UNCHANGED <<confirmed, lastProbe>>

Expired(t) ==
    /\ pc[t] = "flying"
    /\ straggler = "none" /\ ~Alive
    /\ batchExpiries' = batchExpiries + 1
    /\ UNCHANGED <<clock, lastSuccess, batchVars, workerVars, batchLogins>>

\* Erreur.G 8 or 10 on a first call: a new session, and the call once more.
SessionExpired_Forever(t) ==
    /\ Expired(t)
    /\ NoteExpiry
    /\ Reopen
    /\ pc' = [pc EXCEPT ![t] = "login"]
    /\ UNCHANGED <<gate, unit, failing>>
SessionExpired(t) ==
    /\ Expired(t)
    /\ ~Replaying(t)
    /\ NoteExpiry
    /\ Reopen
    /\ pc' = [pc EXCEPT ![t] = "login"]
    /\ UNCHANGED <<gate, unit, failing>>

\* The same refusal on the session opened a moment ago goes to the backoff.
ReplayExpired(t) ==
    /\ Expired(t)
    /\ Replaying(t)
    /\ failing' = (failing \/ "expired" \in Charged(t))
    /\ Leave(t)
    /\ UNCHANGED <<clientVars, lifetimeVars>>

-----------------------------------------------------------------------------
(* The account, the worker thread, the server and time.                    *)

\* The account begins a batch when its previous one is over, at most one a tick.
BeginBatch ==
    /\ pc["batch"] = "idle" /\ left = 0
    /\ ~closed
    /\ batchStart < clock
    /\ sessionFresh' = FALSE
    /\ left' \in 1 .. CallsPerBatch
    /\ batchStart' = clock
    /\ batchLogins' = 0
    /\ batchExpiries' = 0
    /\ UNCHANGED <<clock, gate, pc, unit, client, seenAt, lastSuccess, failing,
                   lifetimeVars, workerVars>>

EndBatch ==
    /\ left > 0 /\ pc["batch"] = "idle"
    /\ left' = 0
    /\ UNCHANGED <<clock, gate, pc, unit, clientVars, lastSuccess, failing,
                   batchStart, lifetimeVars, workerVars, historyVars>>

\* An abandoned handshake that the server accepts rotates a token nobody adopts.
StragglerEnds ==
    /\ straggler # "none"
    /\ straggler' = "none"
    /\ tokenCurrent' \in IF straggler = "login" THEN {tokenCurrent, FALSE} ELSE {tokenCurrent}
    /\ UNCHANGED <<clock, gate, pc, unit, clientVars, lastSuccess, failing, batchVars,
                   lifetimeVars, closed, historyVars>>

\* close: takes no gate.  Whatever is on the worker ends first; what is submitted
\* later finds the executor shut down.
Close ==
    /\ ~closed
    /\ closed' = TRUE
    /\ client' = FALSE
    /\ sessionFresh' = FALSE
    /\ UNCHANGED <<clock, gate, pc, unit, seenAt, lastSuccess, failing, batchVars,
                   lifetimeVars, tokenCurrent, straggler, historyVars>>

ServerDrops ==
    /\ Alive
    /\ batchExpiries < MaxDrops
    /\ seenAt' = None
    /\ UNCHANGED <<clock, gate, pc, unit, client, sessionFresh, lastSuccess,
                   failing, batchVars, lifetimeVars, workerVars, historyVars>>

Tick ==
    /\ clock < MaxClock
    /\ \A t \in Tasks : pc[t] = "idle"
    /\ clock' = clock + 1
    /\ seenAt' = IF Alive /\ clock + 1 - seenAt < ServerTimeout THEN seenAt ELSE None
    /\ UNCHANGED <<gate, pc, unit, client, sessionFresh, lastSuccess, failing, batchVars,
                   lifetimeVars, workerVars, historyVars>>

-----------------------------------------------------------------------------
Init ==
    /\ clock = 0
    /\ gate = <<>>
    /\ pc = [t \in Tasks |-> "idle"]
    /\ unit = [t \in Tasks |-> NoUnit]
    /\ client = FALSE /\ seenAt = None /\ sessionFresh = FALSE
    /\ lastSuccess = None
    /\ expiries = 0 /\ confirmed = FALSE /\ lastProbe = None /\ shortest = None
    /\ failing = FALSE /\ tokenCurrent = TRUE /\ straggler = "none" /\ closed = FALSE
    /\ left = 0 /\ batchStart = None
    /\ batchLogins = 0 /\ batchExpiries = 0

UnitStep(t) ==
    \/ Start(t) \/ Submit(t) \/ TurnedAway(t)
    \/ LoginFails(t) \/ LoginAbandoned(t) \/ LoginSucceeds(t)
    \/ CallSucceeds(t)
    \/ \E answer \in AllAnswers : CallFails(t, answer)
    \/ SessionExpired(t) \/ ReplayExpired(t)

Next ==
    \/ \E t \in Tasks : Request(t) \/ UnitStep(t) \/ Cancel(t)
    \/ BeginBatch \/ EndBatch
    \/ StragglerEnds \/ Close \/ ServerDrops \/ Tick

\* The deadline of SerialExecutor and the bounded wait of the limiter end every
\* await of a unit; asyncio.Lock serves its waiters in order.
Spec == Init /\ [][Next]_vars /\ \A t \in Tasks : WF_vars(UnitStep(t))
-----------------------------------------------------------------------------
TypeOK ==
    /\ clock \in Nat
    /\ gate \in Seq(Tasks)
    /\ pc \in [Tasks -> {"idle", "queued", "login", "handshake", "call", "flying"}]
    /\ unit \in [Tasks -> [calls : Nat, logins : Nat]]
    /\ {client, sessionFresh, confirmed, failing, tokenCurrent, closed} \subseteq BOOLEAN
    /\ {seenAt, lastSuccess, lastProbe, shortest, batchStart} \subseteq Nat \union {None}
    /\ {expiries, left, batchLogins, batchExpiries} \subseteq Nat
    /\ straggler \in {"none", "login", "call"}

\* Pick a client, wait, call, retry: while a unit of work waits or is served, no
\* other unit takes its client away; only close does (SessionManager._gate).
ClientStaysPut ==
    \A t \in Tasks : pc[t] \in {"call", "flying"} => client \/ closed

\* A unit of work replays once and never in a loop: two calls and two logins at
\* most, whatever the server answers (_replay_on_a_fresh_session).
UnitBound == \A t \in Tasks : unit[t].calls <= 2 /\ unit[t].logins <= 2

\* A batch logs in once, plus once for each session the server declared expired
\* and once for each hour without a success, services included
\* (_reconnect_required).
OneLoginPerBatch ==
    batchStart # None =>
        batchLogins <= 1 + batchExpiries + (clock - batchStart) \div PresumedDead

\* Reconnecting eagerly means what it says: under per_batch, configured or
\* concluded, no call of a batch is placed on a session of an earlier batch.
FreshPerBatch ==
    (pc["batch"] = "call" /\ EffectiveStrategy = "per_batch" /\ ~closed)
        => sessionFresh

\* Every unit of work ends, behind however many others it queues and whatever
\* hangs in the worker.
WorkEnds == \A t \in Tasks : (pc[t] # "idle") ~> (pc[t] = "idle")
=============================================================================
