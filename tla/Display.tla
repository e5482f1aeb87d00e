------------------------------ MODULE Display ------------------------------
(***************************************************************************)
(* The entities of one child: what they show, when they look again, and when *)
(* they call themselves unavailable (entity.py, coordinator.py, sensor.py,   *)
(* binary_sensor.py).                                                      *)
(*                                                                         *)
(* An entity computes its state when it is written and at no other time: at  *)
(* a publication, at the first of a row of failures, and at the one instant  *)
(* it armed a timer for.  Tiers share nothing here, so a behaviour follows   *)
(* the entities of one tier, chosen once.  An even tick is the instant at    *)
(* which a lesson, a slot or a day may begin or end; the odd tick after it   *)
(* is the second later the timers are armed for.                             *)
(***************************************************************************)
EXTENDS Views

CONSTANTS
    ShownTiers,        \* tiers whose entities are followed
    Answers,           \* per tier, everything the school may have to say
    Quiet,             \* times of the day that are quiet hours
    StaleAfter,        \* ticks: stale_after intervals of the tier
    MaxNow             \* bound on time

ASSUME DisplayAssumption ==
    /\ ShownTiers \subseteq {"timetable", "homework", "attendance", "marks", "evaluations", "menus",
                       "history", "news", "discussions"}
    /\ ShownTiers \subseteq DOMAIN Answers
    /\ Quiet \subseteq 0 .. DayLength - 1
    /\ {StaleAfter, MaxNow} \subseteq Nat
    /\ {DayLength, Hour} \subseteq Instants
    /\ \A t \in ShownTiers : Answers[t] \subseteq AnswersOf(t)

\* Every lesson is over, by the end it is given, before the day it begins on is.
WithinADay ==
    "timetable" \in ShownTiers =>
        \A answer \in Answers["timetable"] : \A i \in DOMAIN answer :
            Lesson(answer[i]).end <= Midnight(Day(answer[i].start) + 1)

VARIABLES
    tier,              \* the tier followed
    now,
    school,            \* what the school had to say at the last collection
    facts,             \* data of the snapshot, when there is one
    fetchedAt,         \* its instant, or None while there is no snapshot
    collectedAt,       \* scheduler: last_collected of the tier, or None
    datedAt,           \* scheduler: last_collected_at, which a reload loses
    succeeded,         \* coordinator: last_update_success
    shown,             \* per entity, the state last written
    available,         \* per entity, the availability last written
    armed              \* per entity, the instant of its timer, or None

displayVars == <<tier, now, school, facts, fetchedAt, collectedAt, datedAt, succeeded, shown,
                 available, armed>>

HasData == fetchedAt # None

-----------------------------------------------------------------------------
(* The entities of a tier and their state.                                 *)

ClockSensors ==
    CASE tier = "timetable" -> {"next_lesson", "next_test", "next_wake_up", "end_of_lessons",
                                "morning_end", "next_cancellation"}
      [] tier = "attendance" -> {"next_punishment"}
      [] OTHER -> {}
Flags ==
    CASE tier = "timetable" -> {"school_day", "in_class", "lessons_canceled", "outing_today",
                                "test_today", "holidays"}
      [] tier = "attendance" -> {"absence_in_progress", "punishment_upcoming"}
      [] tier = "homework" -> {"homework_overdue"}
      [] OTHER -> {}
\* Written with a publication, and by no timer.  The sensors of the absences, the
\* delays and the punishments are counted together as the incidents.
PlainSensors ==
    CASE tier = "timetable" -> {"lessons_today", "timetable_tomorrow", "timetable_week"}
      [] tier = "homework" -> {"homework_todo", "homework_tomorrow", "homework", "homework_list"}
      [] tier = "attendance" -> {"unjustified_absences", "incidents"}
      [] tier = "marks" -> {"latest_grade", "overall_average", "grades", "averages", "report_card"}
      [] tier = "evaluations" -> {"evaluations"}
      [] tier = "menus" -> {"menu_today", "menu_tomorrow"}
      [] tier = "news" -> {"unread_information", "information"}
      [] tier = "discussions" -> {"unread_messages", "discussions"}
      [] tier = "history" -> {"grades_period", "report_card_period", "overall_average_period",
                              "incidents_period"} \X DOMAIN PeriodEnd
      [] OTHER -> {}
Entities == ClockSensors \union Flags \union PlainSensors

PresentReading(k, f, t) ==
    CASE k = "next_lesson" -> NextLesson(f, t)
      [] k = "next_test" -> NextTest(f, t)
      [] k = "next_wake_up" -> WakeUp(f, t)
      [] k = "end_of_lessons" -> EndOfDay(f, t)
      [] k = "morning_end" -> MorningEnd(f, t)
      [] k = "next_cancellation" -> NextCancellation(f, t)
      [] k = "school_day" -> SchoolDay(f, t)
      [] k = "in_class" -> InClass(f, t)
      [] k = "lessons_canceled" -> LessonsCanceled(f, t)
      [] k = "outing_today" -> OutingToday(f, t)
      [] k = "test_today" -> TestToday(f, t)
      [] k = "holidays" -> Holidays(f, t)
      [] k = "homework_overdue" -> HomeworkOverdue(f, t)
      [] k = "next_punishment" -> NextPunishment(f, t)
      [] k = "absence_in_progress" -> AbsenceInProgress(f, t)
      [] k = "punishment_upcoming" -> PunishmentUpcoming(f, t)
      [] k = "homework_todo" -> Cardinality(HomeworkTodo(f, t))
      [] k = "homework_tomorrow" -> Cardinality(HomeworkTomorrow(f, t))
      [] k = "homework" -> Cardinality(VisibleHomework(f, t))
      [] k = "homework_list" -> TodoItems(f)
      [] k = "lessons_today" -> LessonsToday(f, t)
      [] k = "timetable_tomorrow" -> LessonsTomorrow(f, t)
      [] k = "timetable_week" -> LessonsFetched(f)
      [] k = "unjustified_absences" -> Cardinality(UnjustifiedAbsences(f))
      [] k = "incidents" -> Incidents(f)
      [] k = "latest_grade" -> LastGrade(f)
      [] k = "overall_average" -> f.overall
      [] k = "grades" -> GradesCount(f)
      [] k = "averages" -> AveragesCount(f)
      [] k = "report_card" -> f.report
      [] k = "evaluations" -> EvaluationsCount(f)
      [] k = "unread_information" -> UnreadNews(f)
      [] k = "information" -> NewsCount(f)
      [] k = "unread_messages" -> UnreadMessages(f)
      [] k = "discussions" -> DiscussionsCount(f)
      [] k = "menu_today" -> MenuToday(f, t)
      [] k = "menu_tomorrow" -> MenuTomorrow(f, t)
\* PronoteHistorySensor
Past(k, f) ==
    CASE k[1] = "grades_period" -> PastGrades(f, k[2])
      [] k[1] = "report_card_period" -> PastReport(f, k[2])
      [] k[1] = "overall_average_period" -> PastAverage(f, k[2])
      [] k[1] = "incidents_period" -> PastIncidents(f, k[2])
Reading(k, f, t) == IF tier = "history" THEN Past(k, f) ELSE PresentReading(k, f, t)
Unknown == "unknown"

-----------------------------------------------------------------------------
(* When an entity looks again.                                             *)

NextMidnight(t) == Midnight(Day(t) + 1)
NextBoundary(moments, t) ==
    LET future == {m \in moments : m > t} IN IF future = {} THEN NextMidnight(t) ELSE Min(future)

\* _in_class_transition, _absence_transition, _punishment_transition: _midnight elsewhere.
Transition_StartsOnly(k, f, t) ==
    CASE k = "in_class" -> NextBoundary(Starts(Teaching(f)), t)
      [] k = "absence_in_progress" -> NextBoundary({a.from : a \in f.absences}, t)
      [] k = "punishment_upcoming" -> NextBoundary({s.start : s \in Slots(f)}, t)
      [] OTHER -> NextMidnight(t)
Transition(k, f, t) ==
    CASE k = "in_class" -> NextBoundary(Starts(Teaching(f)) \union Ends(Teaching(f)), t)
      [] k = "absence_in_progress" ->
           NextBoundary({a.from : a \in f.absences} \union {a.to : a \in f.absences}, t)
      [] k = "punishment_upcoming" -> NextBoundary({s.start : s \in Slots(f)}, t)
      [] OTHER -> NextMidnight(t)

\* _arm: a sensor at its own timestamp, a flag at its next transition, a second
\* later, or not at all.
Alarm(k, f, t) ==
    LET moment == IF k \in ClockSensors THEN Reading(k, f, t)
                  ELSE IF k \in Flags THEN Transition(k, f, t) ELSE None
    IN  IF moment > t THEN moment + 1 ELSE None

\* PronoteEntity.available, account.is_stale: the age of the last collection, the
\* quiet hours excused when its date is known.
Excused(from, to) ==
    IF from = None THEN 0 ELSE Cardinality({t \in from .. to - 1 : TimeOfDay(t) \in Quiet})
Stale(collected, dated, t) ==
    collected # None /\ t - collected - Excused(dated, t) > StaleAfter

\* async_write_ha_state and _arm of the entities in S, with the data f.
WriteAt(dated, S, f) ==
    /\ shown' = [k \in Entities |-> IF k \in S THEN Reading(k, f, now) ELSE shown[k]]
    /\ available' = [k \in Entities |-> IF k \in S THEN ~Stale(collectedAt, dated, now) ELSE available[k]]
    /\ armed' = [k \in Entities |-> IF k \in S THEN Alarm(k, f, now) ELSE armed[k]]
Write(S, f) == WriteAt(datedAt, S, f)

-----------------------------------------------------------------------------
\* What a tier makes of an answer collected at the instant at.
Facts(answer, at) ==
    CASE tier = "timetable" -> TimetableFacts(answer, Day(at))
      [] tier = "attendance" -> AttendanceTier(answer)
      [] tier = "homework" -> HomeworkFacts(answer)
      [] tier = "marks" -> MarksTier(answer)
      [] tier = "evaluations" -> EvaluationsTier(answer)
      [] tier = "news" -> NewsFacts(answer)
      [] tier = "discussions" -> ThreadFacts(answer)
      [] tier = "menus" -> MenusFacts(answer, Day(at))
      [] tier = "history" -> HistoryFacts(answer, at)

\* The tier is collected: the coordinator publishes, every entity is written, and
\* then the scheduler marks the collection.
Publish(answer) ==
    /\ school' = answer
    /\ facts' = Facts(answer, now)
    /\ fetchedAt' = now
    /\ succeeded' = TRUE
    /\ Write(Entities, facts')
    /\ collectedAt' = now /\ datedAt' = now
    /\ UNCHANGED <<tier, now>>

\* The collection fails, an answer without the expected list included: the first
\* of a row of failures writes the entities, none of them loses its data.
CollectionFails ==
    /\ succeeded
    /\ succeeded' = FALSE
    /\ IF HasData THEN Write(Entities, facts) ELSE UNCHANGED <<shown, available, armed>>
    /\ UNCHANGED <<tier, now, school, facts, fetchedAt, collectedAt, datedAt>>

\* _on_transition
LookAgain(k) ==
    /\ k \in Entities /\ armed[k] = now
    /\ Write({k}, facts)
    /\ UNCHANGED <<tier, now, school, facts, fetchedAt, collectedAt, datedAt, succeeded>>

\* Homework is ticked in the list: PRONOTE takes it, the tier is wanted soon, and
\* the list is written over what was collected before.
TickItem ==
    /\ tier = "homework" /\ HasData /\ TodoItems(facts) # {}
    /\ Write({"homework_list"}, facts)
    /\ UNCHANGED <<tier, now, school, facts, fetchedAt, collectedAt, datedAt, succeeded>>

\* A reload: new entities, over the snapshot and the schedule put back, or over
\* neither when the new login does not pair the child.
Reload(kept) ==
    /\ HasData
    /\ succeeded' = TRUE /\ datedAt' = None
    /\ IF kept
       THEN WriteAt(None, Entities, facts) /\ UNCHANGED <<school, facts, fetchedAt, collectedAt>>
       ELSE /\ school' = <<>> /\ facts' = {} /\ fetchedAt' = None /\ collectedAt' = None
            /\ shown' = [k \in Entities |-> Unknown]
            /\ available' = [k \in Entities |-> FALSE]
            /\ armed' = [k \in Entities |-> None]
    /\ UNCHANGED <<tier, now>>

\* Time passes; the timers that are due have fired.
Tick ==
    /\ now < MaxNow
    /\ \A k \in Entities : armed[k] # now
    /\ now' = now + 1
    /\ UNCHANGED <<tier, school, facts, fetchedAt, collectedAt, datedAt, succeeded, shown, available,
                   armed>>

DisplayInit ==
    /\ tier \in ShownTiers
    /\ now = 0
    /\ school = <<>> /\ facts = {} /\ fetchedAt = None /\ collectedAt = None /\ datedAt = None
    /\ succeeded = TRUE
    /\ shown = [k \in Entities |-> Unknown]
    /\ available = [k \in Entities |-> FALSE]
    /\ armed = [k \in Entities |-> None]

DisplayNext ==
    \/ \E answer \in Answers[tier] : Publish(answer)
    \/ CollectionFails
    \/ \E k \in Entities : LookAgain(k)
    \/ TickItem
    \/ \E kept \in BOOLEAN : Reload(kept)
    \/ Tick

-----------------------------------------------------------------------------
(* Properties.                                                             *)

\* What a snapshot of the tier holds, collected at the instant at.
FactsTyped(f, at) ==
    CASE tier = "timetable" -> \A l \in f : l.start \in Nat /\ l.end > l.start
      [] tier = "homework" -> \A i \in f : Week(i.due) \in FirstWeek .. LastWeek
      [] tier = "attendance" -> DOMAIN f = DOMAIN NoAttendance
      [] tier = "marks" -> \A g \in Range(f.grades) : g.value = None \/ g.status = None
      [] tier = "menus" -> \A m \in Range(f) : m.day \in Day(at) .. Day(at) + 1
      [] tier = "evaluations" -> \A i \in f : i \in Nat
      [] tier = "news" -> \A i \in Range(f) : i.read \in BOOLEAN
      [] tier = "discussions" -> \A t \in Range(f) : t.unread \in Nat
      [] tier = "history" -> \A p \in DOMAIN f : \A g \in Range(f[p].marks.grades) :
                               g.value = None \/ g.status = None

\* Every entity of the tier has its three readings, no timer is in the past, and
\* data, snapshot and schedule come and go together.
DisplayTypeOK ==
    /\ tier \in ShownTiers /\ now \in 0 .. MaxNow /\ succeeded \in BOOLEAN
    /\ {fetchedAt, collectedAt} \subseteq 0 .. now \union {None}
    /\ (fetchedAt = None) = (collectedAt = None)
    /\ DOMAIN shown = Entities /\ available \in [Entities -> BOOLEAN]
    /\ \A k \in Entities : armed[k] = None \/ armed[k] >= now
    /\ IF HasData
       THEN /\ FactsTyped(facts, fetchedAt)
            /\ \A k \in ClockSensors : shown[k] \in Int
            /\ \A k \in Flags : shown[k] \in BOOLEAN
       ELSE shown = [k \in Entities |-> Unknown]

\* What k shows is the reading of this instant, or of the one before while k waits
\* for the second after a boundary.
Punctual(k) ==
    \/ armed[k] = now
    \/ shown[k] = Reading(k, facts, now)
    \/ now % 2 = 0 /\ shown[k] = Reading(k, facts, now - 1)

\* Clock sensors armed on their own value, which is not the instant it changes at,
\* and sensors without a timer that change at midnight.
MistimedSensors ==
    CASE tier = "timetable" -> {"next_wake_up", "end_of_lessons", "morning_end",
                                "next_cancellation"}
      [] OTHER -> {}
UntimedSensors ==
    CASE tier = "timetable" -> {"lessons_today", "timetable_tomorrow"}
      [] tier = "homework" -> {"homework_todo", "homework_tomorrow", "homework"}
      [] tier = "menus" -> {"menu_today", "menu_tomorrow"}
      [] OTHER -> {}
TimedEntities == Entities \ (MistimedSensors \union UntimedSensors)

\* "Changes state at a wall-clock instant" (entity.ClockDrivenMixin): between a
\* boundary and the second after it an entity may show the old state, and at no
\* other moment, whenever the data arrived, through failures and reloads.  This
\* is so of every flag, of the next lesson, test and punishment, and of what no
\* clock changes; ClockSensorsOnTime asks it of the other clock sensors.
ShownOnTime == HasData => \A k \in TimedEntities : Punctual(k)

\* sensor.CLOCK_DRIVEN_KEYS, "re-evaluated at their next known transition rather
\* than at their tier's pace", asked of every sensor of that list.
ClockSensorsOnTime == HasData => \A k \in ClockSensors : Punctual(k)

\* entity.py:5, "An entity becomes unavailable only if it never had data, or if the
\* last snapshot has aged past stale_after times its tier's interval": an entity
\* whose snapshot is younger than that is not written off.
FreshIsAvailable ==
    HasData /\ ~Stale(fetchedAt, fetchedAt, now) => \A k \in Entities : available[k]

\* One slot, one lesson, the one no other entry of the answer supersedes; it ends
\* after it starts, and an end nobody published says it is inferred.
SlotsAgree(lessons) ==
    LET read == {school[i] : i \in DOMAIN school}
        rivals(l) == {e \in read : SlotKey(Lesson(e)) = SlotKey(l)}
    IN  /\ \A l, k \in lessons : SlotKey(l) = SlotKey(k) => l = k
        /\ \A l \in lessons :
             /\ l.end > l.start
             /\ \E e \in rivals(l) :
                  /\ e.num = l.num /\ e.canceled = l.canceled
                  /\ ~l.inferred => e.dated /\ e.end = l.end
             /\ \A e \in rivals(l) :
                  e.num <= l.num /\ (e.num = l.num /\ l.canceled => e.canceled)

\* Holidays are answered on a window as wide as the question: what is not in the
\* facts of this week's collection is not at school either.
HolidaysAgree(lessons, today) ==
    LET days == {Day(e.start) : e \in {school[i] : i \in DOMAIN school}}
        inYear == {d \in days : FirstWeek <= Week(d) /\ Week(d) <= LastWeek}
        asked == inYear \intersect
                   (today .. today + LookAhead \union Monday(today) .. Monday(today) + WeekLength - 1)
    IN  /\ Holidays(lessons, now) => ~SchoolDay(lessons, now)
        /\ Week(today) = Week(Day(fetchedAt)) => asked \subseteq {Day(l.start) : l \in lessons}

\* The homecoming at noon: before the last lesson, over a gap nothing fills, and
\* a break the grid did not plan, or that came early, is owed to a cancellation.
MiddayAgrees(lessons) ==
    LET morning == MorningEnd(lessons, now)
        resumes == ResumesAt(lessons, now)
        planned == PlannedMorningEnd(lessons, now)
    IN  morning # None =>
          /\ morning < resumes /\ resumes < EndOfDay(lessons, now)
          /\ \A l \in Teaching(lessons) : l.end <= morning \/ l.start >= resumes
          /\ planned # None => morning <= planned /\ planned < resumes
          /\ planned # morning => CanceledBeforeBreak(lessons, now) > 0

\* The entities of the timetable tell one story.
TimetableAgrees(lessons) ==
    LET event == CalendarEvent(LessonEntries(lessons), now)
    IN  /\ InClass(lessons, now) =>
             /\ SchoolDay(lessons, now) /\ EndOfDay(lessons, now) > now
             /\ event # None /\ event <= now
        /\ NextLesson(lessons, now) # None => event # None /\ event <= NextLesson(lessons, now)
        /\ NextTest(lessons, now) # None => NextLesson(lessons, now) <= NextTest(lessons, now)
        /\ CanceledAfter(lessons, now) > 0 =>
             /\ LessonsCanceled(lessons, now)
             /\ ScheduledEnd(lessons, now) > EndOfDay(lessons, now)
        /\ LessonsCanceled(lessons, now) \/ NextCancellation(lessons, now) = None
             \/ Day(NextCancellation(lessons, now)) > Day(now)
        /\ FirstLesson(lessons, now) # None =>
             \/ FirstLesson(lessons, now) = NextLesson(lessons, now)
             \/ FirstLesson(lessons, now) <= now /\ now < EndOfDay(lessons, now)
        /\ NextLesson(lessons, now) # None => FirstLesson(lessons, now) # None
        /\ LessonsToday(lessons, now) + LessonsTomorrow(lessons, now) <= LessonsFetched(lessons)
        /\ LessonsToday(lessons, now) =
             Cardinality({l \in lessons : [start |-> l.start, end |-> l.end] \in
                EventsBetween(LessonEntries(lessons), Midnight(Day(now)), NextMidnight(now))})

\* The homework sensors, the flag, the list to tick and the calendar agree.
HomeworkAgrees(items) ==
    LET open == {i \in TodoItems(items) : i.status = "needs_action"}
    IN  /\ HomeworkOverdue(items, now) => NextDue(items, now) # None /\ NextDue(items, now) < Day(now)
        /\ Cardinality(HomeworkTodo(items, now)) =
             Cardinality({i \in open : i.due <= Day(now) + HomeworkHorizon})
        /\ HomeworkTomorrow(items, now) \subseteq VisibleHomework(items, now)
        /\ \A i \in items : i.due = Day(now) =>
             CalendarEvent(HomeworkEntries(items), now) = Midnight(Day(now))

\* The detention sensor, its flag and its calendar agree, and the absence in
\* progress is one the school wrote; without a current term nothing is shown.
AttendanceAgrees(f) ==
    /\ PunishmentUpcoming(f, now) = (NextPunishment(f, now) # None)
    /\ Current(PunishmentEntries(f), now) = {} =>
         CalendarEvent(PunishmentEntries(f), now) = NextPunishment(f, now)
    /\ AbsenceInProgress(f, now) =>
         \E e \in school.entries :
           e.readable /\ e.kind = "absence" /\ e.from <= now /\ now < e.to
    /\ ~HasPeriod(school) => Incidents(f) = <<0, 0, 0>>

\* The last grade is a number the school wrote on the last day it graded, or the
\* reason there is none; a report that was not read is not an empty report.
MarksAgree(f) ==
    LET dated == {e \in Range(school.grades) : e.dated}
        last == {e \in dated : \A d \in dated : d.day <= e.day}
    IN  IF ~HasPeriod(school) THEN f = NoMarks ELSE
        /\ LastGrade(f) # None =>
             /\ LastGradeStatus(f) = None
             /\ \E e \in last : e.note = [kind |-> "number", v |-> LastGrade(f)]
        /\ (\A e \in last : e.note.kind = "sentinel") /\ last # {} =>
             LastGrade(f) = None /\ LastGradeStatus(f) # None
        /\ f.report = 0 => school.report.kind = "published"
        /\ GradesCount(f) = 0 <=> dated = {}

\* On a day the collection covered a meal is shown whenever one is served, lunch
\* before the others; on a day it did not cover none is.
MenusAgree(meals) ==
    \A day \in Day(now) .. Day(now) + 1 :
        LET served == {m \in Range(school) : m.day = day}
            covered == day <= Day(fetchedAt) + 1
        IN  /\ (MenuFor(meals, day) # None) = (covered /\ served # {})
            /\ covered /\ (\E m \in served : m.lunch) =>
                 \E m \in served : m.lunch /\ m.dishes = MenuFor(meals, day)

\* Only terms that were over are looked back on, as many as asked for, and the
\* latest ones.
HistoryAgree(f) ==
    LET over == {p \in school.session.dated : PeriodEnd[p] <= Day(fetchedAt)}
                  \ {CurrentPeriod(school.session)}
    IN  /\ DOMAIN f \subseteq over
        /\ HistoryKept # 0 => Cardinality(DOMAIN f) <= HistoryKept
        /\ \A p \in DOMAIN f, q \in over : q > p => q \in DOMAIN f
        /\ \A p \in DOMAIN PeriodEnd : p \notin DOMAIN f => PastGrades(f, p) = None

\* The unread news are among the news, and none that the school dated is missing.
NewsAgree(items) ==
    LET sent == UNION {Range(school[g]) : g \in DOMAIN school}
    IN  /\ UnreadNews(items) <= NewsCount(items)
        /\ UnreadNews(items) = 0 <=> \A e \in sent : e.dated => e.read

\* sensor._unread_messages, "the sensor would contradict its own items attribute":
\* it reads zero exactly when no thread is listed under it, and never less than
\* the threads listed; what is hidden is not counted.
DiscussionsAgree(threads) ==
    /\ UnreadMessages(threads) >= Len(UnreadThreads(threads))
    /\ UnreadMessages(threads) = 0 <=> UnreadThreads(threads) = <<>>
    /\ UnreadMessages(threads) = 0 <=> \A t \in Range(school) : t.unread > 0 => t.hidden

\* Entities read from one snapshot at one instant do not contradict each other,
\* nor what the school answered (sensor._pending_cancellations: "two filters
\* would eventually disagree").
ViewsAgree ==
    HasData =>
        CASE tier = "timetable" -> /\ SlotsAgree(facts) /\ HolidaysAgree(facts, Day(now))
                                   /\ MiddayAgrees(facts) /\ TimetableAgrees(facts)
          [] tier = "homework" -> HomeworkAgrees(facts)
          [] tier = "attendance" -> AttendanceAgrees(facts)
          [] tier = "marks" -> MarksAgree(facts)
          [] tier = "evaluations" -> facts # {} => HasPeriod(school)
          [] tier = "menus" -> MenusAgree(facts)
          [] tier = "news" -> NewsAgree(facts)
          [] tier = "discussions" -> DiscussionsAgree(facts)
          [] tier = "history" -> HistoryAgree(facts)
=============================================================================
