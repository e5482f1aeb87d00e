# Carnet Scolaire: TLA+ models, model checks and proofs

`carnet_scolaire` is a Home Assistant integration that reads a school's web
service (PRONOTE, EcoleDirecte) for a family: it logs in, places a bounded number
of requests a day, and shows grades, lessons, homework and messages. What is
difficult in it is not the reading but the restraint. Tasks of one event loop and
one worker thread share a session that the server may forget, a limiter that must
never let too much through, a schedule that survives reloads, a detector that
must announce each change once, and entities that look again only at the instant
they armed. This directory models these parts of the program, checks them with TLC
on small instances and proves part of what it checks with TLAPS.

Source paths are relative to `src/custom_components/carnet_scolaire/`.

## 1. Inventory

| component | state | operations | must be true |
|---|---|---|---|
| Rate limiter, `ratelimit.py` | token bucket, last call, day counters, failed logins, hold, `throttled`, batch grace, admission lock | `call`, `login`, `may_login`, `note_login`, `note_success`, `note_failure`, `record`, `begin_batch`/`end_batch`, `export_state`/`import_state` | spacing, hourly rate, daily login cap, failed-login guard, holds that nobody shortens by accident, honest `throttled` |
| Login guard, `login_guard.py` | one limiter for the whole process, saved limiter state per entry | `login`, `clear_login_penalties` | same, for the config flows, which have no gate |
| Session manager, `session.py` | gate, client, last success, batch id, expiry evidence, probe, token, worker thread | `run`, `_ensure_client`, `_replay_on_a_fresh_session`, `_note_expiry`, `_note_survival`, `begin_batch`, `close` | one unit holds the client, one replay, bounded logins, fresh session in `per_batch`, every unit ends |
| Fetch scheduler, `scheduler.py` | per tier: last collected, not-before, boost, failures | `due`, `mark_collected`, `defer`, `mark_failed`, `request`, `export_state`/`import_state` | one early collection per interval, failing tier paced |
| Account heartbeat, `account.py`, `tiers.py`, `coordinator.py` | running batch, snapshots, roster, detector | `_async_tick`, `_async_run_batch`, `_async_collect`, `_priority_for`, `_restore_snapshots`, unload | a deadline has data behind it, bounded quiet-hours pass, nothing swallowed |
| Roster, `account.py`, `child_keys.py`, `entity.py` | selection, key table, announced children, identifiers held | `_student_ids`, `_async_pair_children`, `_async_adopt_announced_children`, `_async_follow_renamed_children`, `_live_child_id`, registry rows | what is held for a child follows it through every renaming and never goes to a sibling |
| Change detector, `delta.py`, `event.py` | identifiers, unread counts and lesson signatures already seen; the connector's own counts | `homework`, `marks`, `attendance`, `discussions`, `timetable`, `rename` | each change announced exactly once, none on the first pass, and enough of it that a follower of the events knows the lesson |
| Child keys, `child_keys.py` | none; the table is the account's: key of each child, identifiers, names | pairing after a login | a child's key is never given to a sibling |
| Set-up, `__init__.py` | the entry's state, its account, the update listener, saved limiters | set up, refuse, unload, reload, remove | an account runs on the credentials and options of its entry |
| Config flows, `config_flow.py`, `flow_login.py`, `options.py` | form, gathered data, probe, question | user step, QR enrolment, re-authentication, choice of children, options | an entry keeps its account and its owner's choice of children; nothing single-use is stored |
| EcoleDirecte, `connectors/ecoledirecte/` | a second limiter, the question of the second factor, one token for all the children | `login`, `call`, `charge_qcm`, `_select_student` | every request paid before it leaves, login cap, holds served, the token of the right login |
| PRONOTE connector, `gateway.py`, `models.py` | the cached facts of the session | which weeks and terms are asked, conversion of the answers | one lesson per slot, no number made up, closed terms only when they are closed |
| Hardened client, `hardened_client.py`, `ent_providers.py`, `urls.py` | the upstream client | handshake, request | environment of the session |
| Entities, `sensor.py`, `binary_sensor.py`, `calendar.py`, `todo.py`, `entity.py` | state and availability last written, one timer each | written at a publication, a first failure, a timer, a reload | nothing out of date at its own boundary, no two entities of one snapshot contradict each other, fresh data available |
| Buttons and services, `button.py`, `services.py`, `todo.py`, `image.py`, `attachment.py` | none | refresh, units of work | at most what the limiter lets through |

How they interact. The account's heartbeat asks the scheduler for the due tiers
and opens a batch, in the session and in the limiter. Each tier is collected child
by child; one child of one tier is a *unit of work*: `SessionManager.run` takes
the gate, makes sure there is a session (a login through `RateLimiter.login`),
goes through `RateLimiter.call`, and hands the synchronous request to
`SerialExecutor`, a one-thread pool with a deadline. Answers go back to the
limiter (`note_*`), the session (expiry evidence) and the account (snapshot,
events, deadline). A tier collected for all its children goes to its coordinator, which writes the
entities of the tier; the detector's events go to the bus. Services and to-do items place units of work on the same gate
at any moment. The config flows log in with no gate, through one shared limiter.
At unload the limiter and the scheduler are exported; the next set-up imports them
and restores the snapshots.

The hard behaviours: tasks between two awaits (a verdict read before a sleep and
used after it, a priority read before the gate and used behind it); a server that
forgets a session, with a timeout it never announces; a deadline that passes on a
thread that cannot be stopped; quiet hours, a midnight or a clock correction in
the middle of anything; a reload or a re-authentication between any two steps; one
child of a tier failing after another was read. `PROJECT.json` lists them at their
lines with the properties that cover them.

## 2. Modules

| module | models | state and actions |
|---|---|---|
| `SchoolPact` | the abstract promise of `ratelimit.py`'s docstring | one request at a time, spaced, none while barred, bounded logins a day |
| `RateLimiter` | `ratelimit.py`, `login_guard.py` | see 2.1 |
| `SessionManager` | `session.py` | see 2.2 |
| `FetchScheduler` | `scheduler.py` | operators, composed by `Collection` |
| `Collection` | `account.py`, `tiers.py`, `coordinator.py`, `button.py`, `services.py`, `__init__.py` | see 2.3 |
| `Lists` | | operators shared by the others: the selection from a list, the empty function |
| `ChildKeys` | `child_keys.py` | operators: `Pair` and what it is made of |
| `Roster` | `account.py:395-1150`, parts of `entity.py`, `session.py`, `services.py`, `connectors/pronote.py` | see 2.4 |
| `DeltaDetector` | `delta.py`, `event.py`, the threads opened by `connectors/pronote.py` and `gateway.py` | see 2.5 |
| `Views` | `gateway.py`, `models.py`, and what the entities compute: `sensor.py`, `binary_sensor.py`, `calendar.py`, `todo.py` | operators, used by `Display` |
| `Display` | `entity.py`, `coordinator.py`, timers of `sensor.py` and `binary_sensor.py`, `account.is_stale` | see 2.6 |
| `SchoolDay` | | composes `DeltaDetector` and `Display` |
| `ConfigEntry` | `config_flow.py`, `flow_login.py`, `options.py`, `login_guard.py`, `__init__.py`, what `account.py` reads and writes of the entry | see 2.7 |
| `EcoleDirecte` | `connectors/ecoledirecte/ed_limiter.py`, `ed_client.py`, `connector.py` | see 2.8 |
| `MC*` | small instances | model values, functions for constants, symmetry |
| `*Proofs` | | theorems, section 6 |

### 2.1 RateLimiter

One variable per attribute of the class (`lastCall` for `_last_call`, and so on),
plus the place of each caller: *idle*, *sleeping* (it was admitted and waits its
turn, holding the admission lock), *flying* (its request has been charged and is
with the server). `AdmitCall`/`DeferCall` are `call`, `AdmitLogin`/`RefuseLogin…`
are `login` with `may_login`, `Wake` is the end of the sleep. Every answer is an
action: `CallSucceeds`, `CallFails`, `LoginSucceeds`, `LoginRefused`,
`LoginRefusedLocally`, `LoginUnusable`, `LoginTransportFails`. `Cancel` is a cancelled task
anywhere. `Unload`/`Load` are export and import, `Reauthenticate` is
`clear_login_penalties`.

Data: the bucket counts in 1/Hour of a token, so a continuous refill is exact in
integers. The jitter of the back-off is any delay in the range the code draws
from. Housekeeping that the code does on reading (refill, rolling the day) is in
the reading operators, `Tokens`, `Calls`, `Logins`; the expiry of a hold and of an
old refusal is done by `Tick`, which changes nothing anyone could see, since
nothing reads them between two ticks.

Two switches choose the environment. `Gated` says that the callers come through the
gate of an account (TRUE) or are config flows that share the process-wide guard
(FALSE). `LossyHandover` says whether an unload may lose the day's half of the
state: on a change of date across an unload, or a re-authentication of an entry
that is not loaded, the code drops it.

The unload is modelled with nothing in flight (section 7).

### 2.2 SessionManager

`gate` is the queue of the asyncio lock, its holder first. A unit goes through
*queued*, *login* (at the limiter), *handshake* (on the worker), *call* (at the limiter) and
*flying* (on the worker). `Start` is `_ensure_client`, including the decision to
throw a session away (`ReconnectRequired`); `SessionExpired` and `ReplayExpired` are
the two ways `_run_locked` sees Erreur.G 8 and 10; `NoteExpiry` and `NoteSurvival`
keep the evidence about the server's timeout. `straggler` is what the worker thread is still
doing after its caller gave up. The server is `ServerTimeout` (it forgets
an idle session) and `ServerDrops` (it forgets one sooner). `Close` takes
no gate, as in the code.

`Services` are the tasks outside batches; `Answers` the failures the server may
give; `LimiterMayRefuse` whether the limiter may turn a unit away.

A tick is longer than a unit of work: PRESUMED_DEAD is an hour, a unit is seconds.

### 2.3 FetchScheduler and Collection

A unit of work is three steps here: `connect` (`LogIn` or `HoldSession`), `check`
(quiet hours: `Admit` or `QuietHoursRefuse`), `placed` (its answer, `CollectChild`,
`CollectLastChild`, `UnitFails`, `LimiterDefers`). `pass` is the priority the unit
captured when it began, kept while the boost, the snapshots or the hour change
under it. Time is the wall clock; quiet hours are a function of it. `Reload(paired)` is
an unload and a set-up after which only the children of `paired` are recognised.

Here the session is only its age, and the limiter is only quiet hours plus the
right to defer any unit by any delay; the two modules above say when it does. A
tier's identity, interval and rank are constants because an options change reloads the
entry. `MayFail = FALSE` is an environment with no failure at all: a
counterexample in it owes nothing to bad luck.

### 2.4 ChildKeys and Roster

The school gives each pupil an identifier, which any login may replace, and a name.
`whose` numbers the identifiers in the order they are issued and remembers for whom:
it is history, as are `mintedFor` (the pupil a key was made for), `namesakes`
and `caught`; the program reads none of them. `client` is the roster the last
login announced. `SetUp` logs in, follows the selection or everybody
(`Followed`), pairs (`AdoptPairing`), hands registry rows over and restores the snapshots;
`Unload` keys them by the minted keys. While the entry is up, `Relogin` is a login
inside any unit of work, `Collect` files an answer under the identifier that was asked for
and reads it from the child `LiveChild` resolves, and the end of a batch is `AdoptNewcomers`,
`Open`, `ReadFacts` per child and `LoadFacts` for the last, each of them one await of the code
where another unit may log in, or fail (`ReadingFails`). A registry row
stands for the device and the entities of one identifier; `ServiceTargets` are the children a
service call can reach, by their devices or as the only child.

One tier stands for all of them. Keys are the positions in the table, since records are
never deleted. Identifiers are never issued twice. The school does not change both the name and the
identifier of a pupil between two readings of the roster: nothing could recognise it.
The entry is unloaded between batches only.

### 2.5 DeltaDetector

One child; `id` is its identifier, which grows at each renaming. The three rules of the
detector share only the restart and the renaming, so a behaviour exercises one
*topic*, chosen once: items by identifier (`CollectItems`, per collection and,
for the collections read by term, per term), threads by unread count (`CollectDiscussions`),
lessons by signature (`CollectTimetable`). `baseline` is the connector's memory of the counts, under
which a thread is opened, and `unread` the detector's, from which messages are counted:
two memories of one thing, which part at a renaming and when a thread is not opened.
`factsPeriod` is the term cached when the roster was read, whatever the term is now.
`board`, `heard`, `atLastLook` and `picture` are history: what
the last look saw, which messages were told, and what an automation believes that saw a lesson once
and then only follows the events.

### 2.6 Views, Display, SchoolDay

`Views` has no state: the conversions of an answer into a snapshot (which entry of a slot is
kept, an end nobody published, a grade that is a sentinel, a term that is over), and
the readings of every entity as a function of a snapshot and an instant. `Display` is the time
around them. An entity computes its state when it is written, and at no other time: by `Publish`, by the
first of a row of failures (`CollectionFails`), by the timer it armed (`LookAgain`), by a `Reload`, by a
ticked item. Between two writes what is on the screen is
what was true then. A behaviour follows one tier, chosen once, since tiers share nothing here.

Instants are ticks; an even tick is a boundary, where a lesson, a slot or a day begins or ends, and the odd
tick after it stands for the second later the timers are armed for. A day is 12 ticks,
an hour two. `collectedAt` and `datedAt` are the scheduler's two memories of the last
collection, of which a reload keeps only the first. Answers come from a small set per tier
in `MCSchoolDay`, chosen to contain a replaced, a cancelled and an exempted lesson in
either order, an entry upstream cannot read, a lesson without an end, homework overdue and to come,
incidents across midnight, garbled and withheld marks, a school year without a current term, closed and
undated terms, hidden threads. `AnswersOf` in `Views` says what any answer is made of: `DisplayAssumption` asks it of the sets in the
configuration, and that a day and an hour are even, which is what makes the even ticks the boundaries. `WithinADay`, which no
module assumes and `MCSchoolDay` has TLC evaluate, says that no lesson runs past midnight (6.6).

`SchoolDay` puts the detector and the entities side by side: the account feeds both from the same
collections and neither reads the other, so a behaviour follows one of the two.

### 2.7 ConfigEntry

One entry from the form that creates it to its removal. A credential is a number, and the school accepts
the current one; a token (`qr`) is replaced by each login, a password when its owner changes it. `flow` is
the one flow on the screen with all it gathered: *form*, *probing* (its login is out), *qcm*,
*children*. What an account captured of its entry is a copy (`account`), and the flow's too: anything
may happen between the copy and its use. `holds` says where a hold on logins stands: the process-wide guard, the
live limiter of the account, the saved state of an unloaded one; how long it lasts is `RateLimiter`'s.
`options` is the number of the last save. `decision` and `savedEarly` are history.

The children: `enrolled` is what each school account announces, and grows. Of an entry, `chosen` is the stored selection
(`CONF_CHILDREN`) and `keyed` the children the table of keys has a row for, which is where EcoleDirecte keeps the person's choice
(`Choosing`, `Selection`). The account and the flow both write them: `SetUpPairs` and `PairNewcomers` add key rows, `AdoptNewcomers` adds the
children that a login announced since set-up (`roster`, against the baseline `seen`) to the selection the account was built with and
stores that, and `Reconnected` stores the copy made when the form was submitted, whatever was written since. `decision` remembers whom
the person named and left out at creation. An identifier stands for a child here for good; what a renaming does to the selection is in
`Roster` and in section 5. Rows of the table are `ChildKeys`'.

### 2.8 EcoleDirecte

The same limiter class has two owners, and a behaviour has one of them: an account, whose connector
does one unit at a time, or `flow`, forms whose logins overlap. A unit of work is a row of stages, *login*,
*qcm*, *renew*, *request*, each of which *wants* admission, may *sleep* for it under the admission lock, and is
*sent*. `paid` is what was charged and not yet used. `token` says how the token the client holds was come by,
with an answer that was taken (*session*) or turned down (*stray*): the client stores it before it looks at the code (`TurnedDown`), so that
of a challenge, of a refusal, or of a login accepted with a payload nobody can read, is kept, and then no login or renewal is
thought necessary. `tokenOf` is the login for which the server takes it, `current` what the connector believes. The day is rolled
wherever the code does it: before the cap on logins is read, in the verdict, and by who reads the counters (`Rolls`, `ReadCounters`).
The answers are actions: `LoggedIn`, `Challenged` (code 250), `ChallengeRequired`, `LoginFails`, `Renewed`, `Served`,
`SessionOver` (520, 525), `RequestFails`.

## 3. Runs

| run | instance | shows |
|---|---|---|
| `AccountGated` | 2 callers behind a gate, logins, critical and low calls, 4 ticks, 2 dates, a step back, 2 failures | the login cap by calendar date, and the limiter implements `SchoolPact` (spacing, nothing under a hold, bounded logins), across unload, reload, midnight and a clock set back; `throttled` is not cleared while something is still postponed |
| `AccountUngated` | 2 flows with no gate, logins of cost 1 and 2, timed calls, spacing 2, quiet hours | spacing holds with no gate, the failed-login guard is exceeded by at most the logins already in flight, holds keep their severity, in quiet hours a timed call leaves only within the batch's grace and one wait, and the bucket forgives no debt with two logins in flight |
| `SessionUnits` | lazy until two expiries conclude `per_batch`; a batch of two units and a service, expiry, refusal, abandonment, cancellation, close | nobody takes a client from a running unit; at most two calls and two logins per unit; a batch logs in once, plus once per expiry, plus once per idle hour; under `per_batch` no call of a batch goes out on an earlier batch's session; every unit ends |
| `BatchPacing` | two tiers of one child, button at any time, failures and deferrals | one early collection per interval; a failing tier keeps its share of the interval |
| `ReloadedData` | one tier of two children, one reload that may lose either | a tier that cannot succeed uses its quiet-hours pass a bounded number of times; a deadline has data for every child |
| `Renames` | two pupils, distinct or namesakes, rows of one older than the keys, up to five identifiers and three names, reading failures | two followed children never share a key; a key stays with its pupil; what is filed, compared and shown is the pupil's own and survives every login and reload; old rows go to their owner |
| `SchoolDay` | every topic of the detector, then every tier of the entities; two identifiers, three messages, two terms; 15 ticks, that is a day, a midnight and the next morning | each item is announced once and none at the first look; no message is told twice; a follower of the events knows the lesson; no entity is out of date past its own boundary; entities of one snapshot agree with each other and with the school |
| `Entry` | two accounts, one with two children and a third to come; the three login modes; three credentials, two saves | an entry keeps its account, and its owner's choice of children, through any sequence of re-authentications, adoptions, pairings, reloads and restarts; saved options reach the account; nothing single-use is stored |
| `EcoleDirecte` | two flows, or an account with two children of two logins; 4 ticks, two dates, one step back | every request is paid before it leaves; the login cap per date; the hold for wrong passwords is served across reloads; a request carries the token of its child's login, unless it is one kept from an answer turned down |
| `StaleRender` | the marks of `SchoolDay` | must be found violated: the first finding of section 5 |
| `LateClock` | the timetable of `SchoolDay` | must be found violated: the second |
| `ChildDropped` | the instance of `Entry` | must be found violated: the third |

Bounds. Every constant that caps something is named and commented where it is
declared. In the limiter two callers are enough since the
admission lock and the gate admit one at a time and every property is about one
caller against the rest; the theorems are for any number of them. The hour is three
ticks in a run of four, so that a refusal is forgotten and the bucket
refills within it; the login cap is two or three so that it is reached, the
back-off doubles once and hits its maximum; two dates allow one midnight and a
clock correction. `Evidence` and `PresumedDead` are two or three for the same
reason: one batch before the threshold, one at it. In `Renames`, `MaxIds` gives each of the two pupils one
renaming, or one of them two, a return counting as one. In `Collection` a tier's
interval is one and two ticks so that several intervals pass, and a day has
both its parts. In `SchoolDay` a week is two days, so that this week, the next and
the end of the look-ahead are all within reach; staleness is five ticks, less than the
time left after a collection; three messages exceed the two announced of a thread that turns up
(`NewThreadCap`) and two threads exceed the one opened (`MaxExpansions`); three terms, of which one
is kept. In `Entry` three credentials allow a rotation by the probe, one by the account and a copy
older than both, and two saves one during the set-up and one after; of two children there at first, which the configuration takes
for alike (`Alike`), one can be left out, and the third is enrolled later. In `EcoleDirecte` the
hold lasts two ticks and the bucket is four, the cost of the question; the callers are alike, and so are the two children, each taken with its
login. Every action and every alternative
of the next-state relations fires in some passing run.

Deadlock is checked wherever the component can always go on (`RateLimiter`,
`Collection`, `Roster`, `ConfigEntry`). `SessionManager` really stops, once closed with no
unit left, and at the bound on time; `SchoolDay` and `EcoleDirecte` stop at the bound on time; their configurations
say `CHECK_DEADLOCK FALSE`.

## 4. Fairness

Only `SessionUnits` needs it, for `WorkEnds`: `WF_vars(UnitStep(t))` for each task. The code
justifies it: every await of a unit ends. The limiter's sleep is bounded by
`max_wait`; the executor's by its deadline, after which the unit is told so even if
the thread goes on; the lock is FIFO, so a waiter is overtaken by nobody. Weak
fairness suffices, since the holder of the gate is continuously enabled. Nothing is
assumed of the environment: the server may never answer (the deadline, not the
answer, ends the unit, as the action `CallFails` with *abandoned*), time
may stop, services may come back for ever.

## 5. What the code does and its text does not say

Found as a violation, each with its run:

* **The first data after an outage are written unavailable** (`StaleRender`, `FreshIsAvailable`). `_async_collect`
  publishes a snapshot (`account.py:1229`), which writes every entity of the tier at once, and marks
  the tier collected afterwards (`account.py:1264`); `available` asks `scheduler.is_stale`, whose age still counts from the
  collection before the outage. After one longer than `stale_after` intervals the entities are
  written unavailable over fresh data, and stay so until something writes them again. `entity.py:5-8` and
  `docs/SPECIFICATION.md:837-839` say an entity is unavailable only if it never had data or if the last snapshot
  has aged. The comment at `scheduler.py:505-530` knows the order and excuses only the very first collection.
* **Four clock sensors are not looked at again when they change** (`LateClock`, `ClockSensorsOnTime`). `_arm` schedules the next look at
  the sensor's own value, and none once it has passed (`sensor.py:1855-1869`). But `next_wake_up` changes when the day's last
  lesson ends, `end_of_lessons` and `morning_end` at midnight, `next_cancellation` when the cancelled lesson ends. They show the old state until their tier is
  collected. `sensor.py:1556-1559` says of all the `CLOCK_DRIVEN_KEYS` that they "are re-evaluated at their next known
  transition rather than at their tier's pace", and `docs/annexe-a-entites.md:511-518` requires it of `fin_des_cours`, `fin_de_matinee`,
  `prochaine_annulation` and `prochain_reveil` by name. In the run's trace the lesson of the day ends and the wake-up
  shown is still this morning's. `ShownOnTime` asks the same of the other entities, which keep it.
* **A child adopted during a reconnection is dropped** (`ChildDropped`, `FollowedSurvivesReload`). A re-authentication copies the entry's data
  before its login (`config_flow.py:743`, `797`) and stores the copy whole after it (`config_flow.py:845-866`). If the account
  adopts a child meanwhile (`account.py:1096-1099`), the child is gone from the stored selection, and its row from the table of keys; at the next
  set-up it is part of the announced baseline, so it is never a newcomer again. `docs/ARCHITECTURE.md:1205-1209` and `account.py:1084-1089` say
  a child that did not exist "was never declined" and is added to the selection "réécrite dans l'entrée". What the person named or left
  out at creation is safe from the copy: `DeclinedStaysDeclined`.

Seen while modelling, in the models or next to them, without a run of their own:

* A night costs a login an hour. `_run_locked` logs in before it asks
  the limiter about quiet hours (`session.py:527`); a login is exempt from quiet
  hours; a deferral is clamped to the tier's interval. So a due tier comes back all night
  and, each time the session is presumed dead, logs in only to be refused. `session.py:137-140` and
  `docs/ARCHITECTURE.md:1112` promise one login at dawn, "not one per hour".
* Lazy's worst case is not three requests (`session.py:422-427`, `docs/ARCHITECTURE.md:969-973`): with two units per
  batch, the second one's success resets the count of consecutive expiries the first one raised (`session.py:1010`).
* Re-authenticating an entry that is not loaded gives it a second daily allowance
  (`login_guard.py:101`, against `login_guard.py:85-92` and `docs/LIMITEUR.md:426`): `LoginCap` fails with `LossyHandover = TRUE`.
* A clock set back and then corrected gives the date it returns to a second allowance: the step back clears nothing, but the step
  forward is taken for a midnight (`ratelimit.py:467-478`, whose docstring speaks of the step back only). `LoginCap` counts by
  calendar date and says what is left: one allowance per date, and one more for each time the clock was set back; and all the logins
  fit the dates gone through. `SchoolPact` counts since the last midnight and says less on this point.
* A change can be swallowed: the first child's events are computed, the second child
  is deferred, and `_async_collect` returns without firing (`account.py:1193`, against `delta.py:110`).
* The config flow's guard has no gate: a login that sleeps for its turn
  (`config_flow.py:950`) leaves although an answer to another flow started a hold
  meanwhile. Hence `ImplementsPact` is a property of gated runs only.
* A replay charges `ChildNotFound` and expired objects to the back-off
  (`session.py:748`); a first attempt excludes them (`session.py:541`).
* Any login while the probe is due consumes it, with no lazy reuse tested (`session.py:906`).
* A login the *limiter* refuses counts as a failed collection of the tier, although the comment at
  `scheduler.py:94` reserves the counter for what was tried.
* `account.py:1202` says an authentication failure stops the batch; the loop goes on.
* A reload keeps `last_collected` and loses `last_collected_at`, boosts, retry times and failures.
* An abandoned login may cost the token: the server rotates it in an answer nobody
  reads (`StragglerEnds`), where `session.py:319-322` expects "a stall, not a broken session".
* A child enrolled while the entry is down is never followed: at the next set-up it is in
  the announced baseline and not in the selection. `account.py:1088-1089` means the opposite: "one that did not
  exist was never declined".
* A login that renames a child the user left out makes it a newcomer, hence followed; and one that renames some of the
  children before a set-up leaves those out of the selection, hence unfollowed.
* Old rows are handed to a single child without rows even when their owner is a child
  that is announced and not followed, which `account.py:700-703` says is never guessed. Hence the hypothesis
  of `RowsKeepOwner`.
* Two namesakes of whom one is new, and a login between the readings of their facts, end up as
  one child twice with two keys and two records. Hence the hypothesis of `KeysDistinct`.
* A press while the tier is in flight is counted as served by that collection.
* `reconfigure`, `set_interval` and `set_enabled` of the scheduler, `forget` of the detector,
  `async_open_credentials_issue` and `async_open_mfa_issue` are called by nobody.

About announcements and entities:

* A thread with new messages that was not opened keeps its old count (`connectors/pronote.py:220-230`), and its messages are
  announced without an author; the counts stay under the old identifier at a renaming.
* The counts of lessons, homework and menus change at a midnight for which they arm nothing. No text says they should, and `ShownOnTime`
  leaves these seven out by name (`UntimedSensors`).
* Staleness is only looked at when something writes the entity: one that is never written again never turns unavailable.
* `test_today` counts cancelled tests.
* With no current term the empty answer replaces the snapshot (`connectors/pronote.py:234`), whereas the gateway keeps it
  when the answer is unreadable (`gateway.py:403-424`).
* An item ticked in the list is written back unticked until the next collection (`todo.py:198`).
* A device trigger resolves its filter when it is attached (`device_trigger.py:120`).

About the entry:

* A successful re-authentication that leaves the stored data as they were never reloads an entry that waits
  in `auth_failed`.
* PRONOTE's re-authentication stores a copy of the entry's data taken before the probe (the third finding above); EcoleDirecte's reads them
  again, and may move the entry to another account. Hence `EntryKeepsItsAccount` is about PRONOTE entries, and `DeclinedStaysDeclined` about an entry
  while it is on the account it was created for.
* With the adopted child, the copy also takes back every row the account has added to the table of keys; they are minted again at the next
  pairing.
* Options saved while the account is being set up wait for the next reload, the listener being attached last. Hence
  `savedEarly` in `OptionsReach`.
* A set-up that fails during a reload leaves empty snapshots where the carried ones were.
* The repairs opened at set-up (`bootstrap`, `unreadable`) are closed by nothing.
* An empty selection of children follows all of them, those enrolled later included, until one is adopted: the selection then stored holds
  the newcomer alone (`account.py:1096`), and after the next reading of the roster the account follows only that one.

About EcoleDirecte:

* The cap on logins is read before the admission lock and counted behind it: flows that queue together exceed it by
  their number less one (`LoginAllowance`).
* Setting the date back and forth resets the counters again (`_roll_day`).
* `_start_hold` ranks nothing: for flows that overlap, a lesser hold replaces a longer one. An account has one unit of work
  at a time and meets no failure under a hold, hence `CredentialsHoldServed`. Failures it cannot decode start no hold.
* A question that the limiter defers at set-up raises `TierDeferred`, which no arm of the set-up handles.
* The token of an answer is stored before its code is looked at (`ed_client.py:154`, `217`): that of a challenge, of a refusal, or of a
  login accepted with a payload nobody can read (`connector.py:136-139`) stays. As long as the facts of the last login are
  there too, no login is made (`connector.py:104`), and no renewal for the child last selected (`connector.py:197`): its request leaves on a
  token of which only the school knows whom it answers for. `RightToken` excepts these tokens (*stray*), and no line of the
  repository says what becomes of them.
* The penalties are lifted as the form of a re-authentication opens (`config_flow.py:705-713`), and Home Assistant opens it by itself when a
  set-up is refused: the hold for wrong passwords is not served then, although nobody has typed anything. Hence
  the exception in `CredentialsHoldServed`.

## 6. Proofs

Eight modules of theorems. Each component's states an invariant that is
inductive, proves that every action keeps it, and derives the properties from it. They hold for
any number of callers, children, tiers, threads or accounts, for any limits that satisfy the assumption
named in the component's module (`ConfigAssumption`, `SessionAssumption`, ...: what the options form, `const.py`
and the types of the arguments guarantee), and for the bounds of the model, whatever they are. Four need a hypothesis more, which is said where they are
listed: `~LossyHandover` (6.1), `Gated` (6.1), `WithinADay` (6.6), `OldRowsStay` (6.7).

### 6.1 Rate limiter: `RateLimiterProofs`

`TypeCorrect`, `Spacing` and `DailyLoginCap` rest on `AdmissionInv == TypeOK /\ SpacingInv /\ CapInv`. The spacing is not
inductive as it stands: a sleeper leaves without asking the layers again, so one has to know that its
`wakeAt` already covers the spacing after the last departure (`SpacingInv`,
lemma `WaitCoversSpacing`), that nobody else can leave meanwhile (one sleeper at a
time), and that `lastCall`, which a settlement also moves, is never earlier than
the last departure. The cap (`CapInv`) needs that a login asleep with the lock has room under the counter, and that the counter accounts
for what it forgot: all that left is at most the counter and one allowance for each move of the date forward, of which there were `today + stepsBack`
(`Counted`); and a date still to come, for the first time or again, has room for the allowance it will be given (`Bounded`).

* `KeepsThePact`, under `Gated` and `~LossyHandover`: the limiter implements `SchoolPact`. `GateInv`: behind the gate one
  caller at a time is in the limiter, so no hold can begin while it sleeps. Then each step
  is a departure, a penalty, its end, a midnight, or nothing, of the pact.
* `FailedLogins`: the refusals of the hour plus the logins on their way stay under the guard's
  limit, plus one with a gate and one per caller without (`GuardInv`).
* `HoldsStand`, `FlagIsHonest`: read off each kind of step, since only the penalties write the hold and only
  an admission or a tick writes the flag; what needs an argument is that no lesser reason takes the place of a graver one.
* `NightsAreQuiet`: who is asleep for a timed call was admitted by day or within the grace, and
  sleeps one bounded wait (`QuietInv`).
* `NoDebtForgiven`, under `~LossyHandover`: a charge and a tick keep the balance of the bucket, each by a lemma.

`~LossyHandover` is a real hypothesis, not a convenience: with a lossy handover the cap
fails (section 5), and a limiter that starts from nothing forgets its last call.

### 6.2 Session: `SessionProofs`

`SessionTypes`, `OneAtATime`, `OneReplay`, `LoginsAccounted` and `FreshCalls` share one invariant. `GateInv`: a task that is
past idle waits in the gate exactly once, and only the head of the gate has started; the gate is a sequence, so the
lemmas say what a removal from it leaves. `UnitInv`: a unit back at the limiter for a login has called once at most.
`ClientInv`: the client the head runs with is the one that is held, unless `close` took it. `BudgetInv`: the logins of
a batch are paid by the batch itself, by expiries and by idle hours; a login of a client of this batch was paid in advance,
and none is spent on an earlier one's. `Hours` is the arithmetic of the last term.

### 6.3 Heartbeat: `CollectionProofs`

`Shape` (a tier is once in the batch, and never behind itself), `TurnInv` (who is in the batch is overdue or
boosted and has waited for its failure), `BoostInv`, `PaceInv` (the floor of a failure is in the schedule until it has
passed), `DataInv` (a running tier lacks no child but those still to be collected) and `PassInv` (what a
first-collection pass has cost is counted by the failures, or the tier has all its data and never asks again). From them
`NightsBounded`, `DeadlinesHaveData`, `OneBoostPerInterval`, `FailuresPaced`, and `CollectionTypes`, which also says that a
change detected for a child is never held for one that is still to be collected. The lemma `Kinds` sorts the actions into eight
kinds, so that each conjunct is proved once per kind; `HeartbeatTidy` that the order of a batch is strict; `Floors` that the share of the interval a
failing tier waits is at most the interval.

### 6.4 Entry: `EntryProofs`

A flow and an account work on copies of the entry, taken at one step and used at a later one. `EntryInv` says what a copy
shares with the entry when it is used: the account (`SameHolder`), the choice of children
(`SameChoice`), the options (`SameOptions`). It gives `KeepsAccount`, `KeepsChoice`, `OptionsReachAccount`. `EntryTypes` adds that the
payload and the PIN stay in the flow that was given them (`UsedOnce`).

The writers of the selection know nothing of each other, so `SameChoice` asks the same of all that may be written: the entry, the account's own
selection and the copy on its way each keep every child that was named and none that was left out. Whoever writes last, the choice stands; what an adoption
added need not. An adoption keeps it since a child left out was announced when the entry was created, the school's roster only grows
(`Announced`), and so the child is in the baseline of every set-up and never a newcomer.

### 6.5 EcoleDirecte: `EcoleDirecteProofs`

`EdInv`: what was charged for the request on its way is still there, an account works one unit at a time, a token that came with an
answer that was taken is of the login the connector believes (`RightLogin`), and nobody is past admission while the hold for wrong passwords
runs. It gives `Paid`, `TokenIsRight` and `HoldServed`. An answer turned down leaves the token as it was, or a stray one of which
nothing is said (`TokenKept`).

`LoginsPerDate` needs `CapInv`. The counter is no upper bound of what left on a date, since setting the clock
back and forth resets it, and it may even grow by going back to a date that was counted. What is inductive compares the
logins of each date with quotas: those of the present date leave room for all the logins that queue, and the counter lacks at most one quota
per setting back; a date still to come has seen one quota less. Queued logins are members of a finite set of users, hence the
theorems about cardinalities. Rolling the day, wherever it is done, changes nothing the quotas look at (`RollingKeeps`).

### 6.6 What is announced and what is shown: `SchoolDayProofs`

Announced. `DeltaInv`: what is remembered under the child's present identifier is what the last look saw. With the lemma
`EventsTellAll` (the events of a lesson between two looks determine everything an automation sees of it) it gives
`Follower`; with the comparison by identifier, `Arrivals`. `ToldOnce` rests on `TalkInv`: since the last look no more messages of a
thread became unread than were sent, so the newest ones, as many as the count grew, were all sent after it.
`DayAnnounces`: a behaviour of `SchoolDay` is one of `DeltaDetector`, so the three hold of the whole.

Shown. `ShownOnTime` says what an entity shows *now*, but an entity computes its state only when it is written. `TimerInv` keeps
the missing history: every entity shows what it read, and waits for what it armed, at some instant up to now, from the data
of the present snapshot (`WrittenAt`), and no timer is in the past. The argument is about one reading and any two
instants (`Steady`): as long as the instant that the entity waits for has not come, or always when it waits for none, a reading does not
change. `TimetableSteady` and `AttendanceSteady` prove it sensor by sensor, from `NoneBetween` (no boundary of a set lies before the
next one), `LeastSteady` (the earliest one to come is the same until it has come) and `SameDay`. The timer rings at the odd tick
after an even instant, so at an even tick an entity is at most one tick behind, and at the odd one it is due: `EntitiesOnTime`.
The statement is about `TimedEntities`: the eleven others have no timer on what changes them, four of them against the documents
(`MistimedSensors`, the second finding of section 5).

The assumption of `Display` on the answers (`AnswersOf`: what the fields of an answer are) is used where a reading is a number or a
boundary: `TimetableIs` and `AttendanceIs` say what the gateway makes of any answer (every lesson ends after it starts, at even ticks), by
`BestSteps`, an induction along the walk that keeps one lesson per slot. `DayTypes` adds the shapes of
the snapshots of the other tiers (`FactsAreTyped`; `FlattenIs` for the news) and the types of the detector (`TypeInv`, whose `SentBound`
bounds a thread by all that was sent).

One story. `ViewsAgree` is about the entities of one tier at one instant, whatever the school answered and however long ago. The inductive
invariant is `Snapshot`: while there is data, it is what the tier makes of the last answer at the instant it was collected, which may be
days before the instant it is read. Only a collection replaces it; a tick of the clock, a failure, a look or a ticked item edits nothing, and a reload
keeps it or drops it. `OneStory` then shows, with `DisplayInv`, that any answer makes entities that agree. One lemma per tier, each from what the
gateway made of the answer:

* `SlotsTold`: the walk over the entries (`KeptAreBest`, an induction) keeps one lesson per slot, and no entry of the weeks asked for
  supersedes it (`OnePerSlot`, `Covered`); the entries of a slot are of one day, so a slot is asked for whole.
* `HolidaysTold`: the weeks asked for, this one and the next, contain every day the answer is about, since `LookAhead <= WeekLength`
  (`ViewsAssumption`; seven days, `binary_sensor.py:80`), and stay the same until the week is over (`WeekIs`).
* `MiddayTold`: `GapsAre` says what the pairs of neighbours in the sorted day are, without the order: where all that began
  has ended, up to where the next lesson begins. A gap of the lessons held that is not one of the grid has a cancelled lesson across it
  (`OwedToCancellation`), so a break that nobody planned, or that came early, always has its cancellation to show.
* `TimetableTold`: the filters of the sensors, the flags and the calendar, compared two by two (`NextIs`, `EndsOfDay`, `EventIs`).
* `HomeworkTold`, `AttendanceTold`, `MarksTold`, `MenusTold`, `NewsTold`, `DiscussionsTold`, `HistoryTold`: selections (`Selection`, `FlattenIs`),
  counts (`SelectionLength`, `CountsAgree`), the last of the grades (`LastIs`), sums taken thread by thread (`SumOfThreads`), the latest
  closed terms (`LatestTerms`).

`EntitiesAgree` has the hypothesis `WithinADay`, for the timetable alone. Whether the child is in class is asked of all the lessons, whether it is
a school day of those that begin today (`binary_sensor.py:125-146`), so a lesson across midnight would have a child in class on a day without
school. Nothing in the code excludes it, a lesson late in the evening whose end is made up as one hour included
(`gateway.py:908-947`); no school publishes one.

### 6.7 Children: `ChildKeysProofs`, `RosterProofs`

`Pair` and `OnlyIn` walk a sequence, so what they return is an induction. The library's induction theorems take a
predicate, which no installed prover instantiates; the least element of a set does the same work. `LeastNatural`
(`WFMin` over `<`) gives `Induction` for a *set* of numbers, and `Recursion`, that a function computed step by step exists.
From them `Selection` (what `OnlyIn` keeps, in order and once) and, for any table and any announcement:

* `PairKeyed`, `PairIs`: every announced child has a key of the table, records are never removed, and a
  record that changed belongs to the child that has its key now (`Paired`);
* `PairDistinct`: distinct identifiers get distinct keys, twins without a distinguishing name included;
* `PairIdentity`: as long as names tell pupils apart, the key of a child was minted for that pupil (`Identity`).
  The condition on the school is that a pupil changes one mark at a time (`OneMark`) and that
  of two announcements the later is at least as new (`Newer`, `Earlier`).

`RosterInv` has six parts. `Shapes`: what everything is made of. `SchoolInv`: identifiers are issued for their
pupil. `DistinctInv`: the children announced, asked for and heard are distinct pupils, even when their names do not say so.
`IdentityInv`: the table agrees with the school, with the client's roster and with what was heard, which may be older than
the roster. `OwnerInv`: every key, snapshot, comparison and saved snapshot is its owner's. `RowsInv`: a registry
row older than the keys is of the pupil its identifier was issued for. `IdentityInv` is the heart: a key
is right after a login only if the table knew one of the two marks before it, whichever login it last
heard of, and that must survive every order of renaming, respelling, login, adoption and failure between two readings.

It gives `RosterTyped`, `RosterKeysDistinct`, `RosterKeysStay`, `RosterFiled` and the action property
`RosterKeepsWhatIsShown`, all without a further hypothesis. `RosterRowsKeepOwner` has one, `OldRowsStay`: one row per owner, and no
owner that departs. Outside it the code has nothing but a guess: two rows of one
pupil claim the one key, the row of a pupil who has left may meet a key that nobody else claims (`account.py:672-788`).
It needs `OldRowsInv`: the owners of the rows left are announced whenever the entry is up.

### 6.8 Only model-checked

* Liveness, `WorkEnds`: fairness and ENABLED are out of the prover's reach.

## 7. Not modelled, and the plan

Outside this repository: the upstream library (`pronotepy`) and the servers. They are the environment of
`SessionManager`, `DeltaDetector`, `Display` and `EcoleDirecte`, as the code under `src/` uses them.

Not modelled because there is no state whose history could go wrong: the hardened client's handshake and the
providers' table (`hardened_client.py`, `ent_providers.py`, `urls.py`), the conversions of EcoleDirecte's answers (`ed_mapping.py`), the
attachments and diagnostics, the device automations (their one hazard, a filter resolved once, is listed in
`PROJECT.json`), the repository's scripts. Of the entities, the image, the teaching staff and the account's own diagnostic
sensors; of `gateway.py`, what is written to the school (homework ticked, messages sent): single requests, to which the
unit of work of `SessionManager` and the ticked item of `Display` apply.

Modelled with an abstraction that a later module could lift:

1. An unload with units of work still in flight (`account.py:539`), and the overlap of what they report with the account
   that replaces it. `RateLimiter` and `Collection` unload between two units; `ConfigEntry` overlaps flows and accounts without
   their units.
2. Several tiers of the entities at once. They share a snapshot of facts per child and nothing else.
