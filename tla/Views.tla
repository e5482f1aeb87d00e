------------------------------- MODULE Views -------------------------------
(***************************************************************************)
(* What one answer of the school becomes (gateway.py, models.py), and what   *)
(* the entities of a child read out of it at a given instant (sensor.py,     *)
(* binary_sensor.py, calendar.py, todo.py).  Nothing here has a state.       *)
(*                                                                         *)
(* Instants are counted in ticks; a day starts at a multiple of DayLength.   *)
(* Names, rooms and wordings are left out.                                   *)
(***************************************************************************)
EXTENDS FiniteSets, FiniteSetsExt, SequencesExt, Lists

CONSTANTS
    DayLength,                \* ticks in a day
    Hour,                     \* ticks in an hour
    WeekLength,               \* days in a week
    LookAhead,                \* HOLIDAY_LOOKAHEAD_DAYS
    LunchEarliest, LunchLatest, LunchMin,   \* MIDDAY_BREAK_*
    WakeMargin, HomeworkHorizon,            \* the two options
    FirstWeek, LastWeek,      \* of the school year
    PeriodEnd,                \* the day each term closes, in order
    HistoryKept               \* the option: terms looked back on, 0 for all

ASSUME ViewsAssumption ==
    /\ {DayLength, Hour, WeekLength, LookAhead, LunchMin, HomeworkHorizon} \subseteq Nat \ {0}
    /\ {LunchEarliest, LunchLatest, WakeMargin, FirstWeek, LastWeek} \subseteq Nat
    /\ LookAhead <= WeekLength
    /\ PeriodEnd \in Seq(Nat) /\ HistoryKept \in Nat

None == -1
Day(t) == t \div DayLength
TimeOfDay(t) == t % DayLength
Midnight(d) == d * DayLength
Least(S) == IF S = {} THEN None ELSE Min(S)

-----------------------------------------------------------------------------
(* What the school may answer.  What is read at all can begin and end at an   *)
(* even tick only; the odd ones are the second later.                       *)

Instants == {t \in Nat : t % 2 = 0}
TimetableEntries ==
    [start : Instants, end : Instants, dated : BOOLEAN, readable : BOOLEAN, duration : Nat,
     place : Nat, num : Nat, canceled : BOOLEAN, exempted : BOOLEAN, outing : BOOLEAN,
     test : BOOLEAN, named : BOOLEAN]
HomeworkItems == [id : Nat, due : Nat, done : BOOLEAN, dated : BOOLEAN]
AttendanceEntries ==
    [kind : {"absence"}, readable : BOOLEAN, from : Instants, to : Instants, justified : BOOLEAN]
      \union [kind : {"delay"}, readable : BOOLEAN, at : Nat, justified : BOOLEAN]
      \union [kind : {"punishment"}, readable : BOOLEAN, id : Nat,
              schedule : SUBSET [start : Instants, duration : Nat]]
Sessions == [marksTab : BOOLEAN, default : Nat, dated : SUBSET DOMAIN PeriodEnd]
Notes == [kind : {"number", "sentinel", "garbled"}, v : Nat]
Marksheets ==
    [grades : Seq([day : Nat, dated : BOOLEAN, note : Notes]),
     services : Seq([subject : Nat \union {None}, note : Notes]), overall : Notes,
     report : [kind : {"published", "withheld"}, subjects : Nat],
     session : Sessions, entries : SUBSET AttendanceEntries]
AnswersOf(tier) ==
    CASE tier = "timetable" -> Seq(TimetableEntries)
      [] tier = "homework" -> {S \in SUBSET HomeworkItems : IsFiniteSet(S)}
      [] tier = "attendance" -> [session : Sessions, entries : SUBSET AttendanceEntries]
      [] tier = "marks" -> Marksheets
      [] tier = "evaluations" -> [session : Sessions, entries : SUBSET [id : Nat, readable : BOOLEAN]]
      [] tier = "menus" -> Seq([day : Nat, lunch : BOOLEAN, dishes : Nat])
      [] tier = "history" -> [session : Sessions, terms : [DOMAIN PeriodEnd -> Marksheets]]
      [] tier = "news" -> Seq(Seq([id : Nat, read : BOOLEAN, dated : BOOLEAN]))
      [] tier = "discussions" -> Seq([id : Nat, unread : Nat, hidden : BOOLEAN])

-----------------------------------------------------------------------------
(* The timetable: which weeks are asked, how an entry is read, which entry   *)
(* of a slot is kept.                                                      *)

Week(d) == d \div WeekLength
Monday(d) == d - (d % WeekLength)
\* The week of today and the next, unless they fall outside the school year.
TimetableWeeks(today) ==
    {w \in {Week(today), Week(today + WeekLength)} : FirstWeek <= w /\ w <= LastWeek}

\* end > start, and whether the end had to be made up.
SaneEnd(start, end) == IF end > start THEN end ELSE start + Hour

\* An entry upstream can read keeps its content; one it refuses keeps its slot,
\* its timing and its flags.
Lesson(entry) ==
    LET end == IF entry.readable \/ entry.dated THEN entry.end
               ELSE entry.start + Hour * entry.duration
    IN  [place |-> entry.place, num |-> entry.num, start |-> entry.start,
         end |-> SaneEnd(entry.start, end),
         canceled |-> entry.canceled, exempted |-> entry.exempted, outing |-> entry.outing,
         test |-> entry.readable /\ entry.test,
         named |-> entry.readable /\ entry.named,
         inferred |-> ~entry.dated \/ end <= entry.start]

SlotKey(l) == <<Day(l.start), l.place>>
Supersedes(candidate, current) ==
    IF candidate.num # current.num THEN candidate.num > current.num
    ELSE IF candidate.canceled # current.canceled THEN current.canceled
    ELSE ~current.named /\ candidate.named

\* One lesson per slot, in the order of the answer: the one shown on PRONOTE.
BestWith_FirstWins(best, l) ==
    IF \E k \in best : SlotKey(k) = SlotKey(l) THEN best ELSE best \union {l}
BestWith(best, l) ==
    LET rivals == {k \in best : SlotKey(k) = SlotKey(l)}
    IN  IF \A k \in rivals : Supersedes(l, k) THEN (best \ rivals) \union {l} ELSE best
Deduplicated(lessons) ==
    LET best[n \in 0 .. Len(lessons)] ==
          IF n = 0 THEN {} ELSE BestWith(best[n - 1], lessons[n])
    IN  best[Len(lessons)]

\* The facts of one collection made today, entries being everything the school has.
TimetableFacts(entries, today) ==
    LET asked == {e \in Range(entries) : Week(Day(e.start)) \in TimetableWeeks(today)}
        answer == OnlyIn(entries, asked)
    IN  Deduplicated([i \in DOMAIN answer |-> Lesson(answer[i])])

-----------------------------------------------------------------------------
(* Sensors of the timetable.  Lessons is the set the facts hold.             *)

LessonsOn(lessons, day) == {l \in lessons : Day(l.start) = day}
Teaching(lessons) == {l \in lessons : ~l.canceled /\ ~l.exempted}
Starts(lessons) == {l.start : l \in lessons}
Ends(lessons) == {l.end : l \in lessons}

NextLesson(lessons, now) == Least({s \in Starts(Teaching(lessons)) : s > now})
NextTest(lessons, now) ==
    Least({s \in Starts({l \in Teaching(lessons) : l.test}) : s > now})

EndOfDay(lessons, now) ==
    LET today == Teaching(LessonsOn(lessons, Day(now)))
    IN  IF today = {} THEN None ELSE Max(Ends(today))
ScheduledEnd(lessons, now) ==
    LET today == LessonsOn(lessons, Day(now)) IN IF today = {} THEN None ELSE Max(Ends(today))
CanceledAfter(lessons, now) ==
    Cardinality({l \in LessonsOn(lessons, Day(now)) : l.canceled /\ l.end > EndOfDay(lessons, now)})

\* Cancelled lessons that are not over, the earliest first.
PendingCancellations(lessons, now) == {l \in lessons : l.canceled /\ l.end > now}
NextCancellation(lessons, now) == Least(Starts(PendingCancellations(lessons, now)))

\* A gap opens at the furthest end reached by the lessons that started before.
Gaps(lessons) ==
    {gap \in Ends(lessons) \X Starts(lessons) :
       LET before == {l \in lessons : l.start < gap[2]}
       IN  gap[1] < gap[2] /\ before # {} /\ gap[1] = Max(Ends(before))}
IsLunch(gap) ==
    /\ gap[2] - gap[1] >= LunchMin
    /\ LunchEarliest <= TimeOfDay(gap[1]) /\ TimeOfDay(gap[1]) <= LunchLatest
PlannedBreaks(day) == {gap \in Gaps({l \in day : ~l.exempted}) : IsLunch(gap)}
Inside(gap, day) == {p \in PlannedBreaks(day) : gap[1] <= p[1] /\ p[2] <= gap[2]}
Breaks(day) == {gap \in Gaps(Teaching(day)) : IsLunch(gap) \/ Inside(gap, day) # {}}
\* Of gaps of one length max(breaks) keeps the first, and max(inside) the last.
Longest(gaps) ==
    CHOOSE gap \in gaps : \A g \in gaps :
        \/ gap[2] - gap[1] > g[2] - g[1]
        \/ gap[2] - gap[1] = g[2] - g[1] /\ gap[1] <= g[1]
LastLongest(gaps) ==
    CHOOSE gap \in gaps : \A g \in gaps :
        \/ gap[2] - gap[1] > g[2] - g[1]
        \/ gap[2] - gap[1] = g[2] - g[1] /\ gap[1] >= g[1]

MorningEnd(lessons, now) ==
    LET day == LessonsOn(lessons, Day(now))
    IN  IF Breaks(day) = {} THEN None ELSE Longest(Breaks(day))[1]
ResumesAt(lessons, now) == Longest(Breaks(LessonsOn(lessons, Day(now))))[2]
PlannedMorningEnd(lessons, now) ==
    LET day == LessonsOn(lessons, Day(now))
        inside == Inside(Longest(Breaks(day)), day)
    IN  IF inside = {} THEN None ELSE LastLongest(inside)[1]
CanceledBeforeBreak(lessons, now) ==
    Cardinality({l \in LessonsOn(lessons, Day(now)) :
                   /\ l.canceled
                   /\ l.end > MorningEnd(lessons, now) /\ l.start < ResumesAt(lessons, now)})

\* The lesson to wake up for: today's first until today is over, and then the
\* first of the next day that has one.
FirstLesson(lessons, now) ==
    LET today == Teaching(LessonsOn(lessons, Day(now)))
        future == {s \in Starts(Teaching(lessons)) : s > now}
    IN  IF today # {} /\ now < Max(Ends(today)) THEN Min(Starts(today)) ELSE Least(future)
WakeUp(lessons, now) ==
    LET first == FirstLesson(lessons, now) IN IF first = None THEN None ELSE first - WakeMargin

LessonsToday(lessons, now) == Cardinality(LessonsOn(lessons, Day(now)))
LessonsTomorrow(lessons, now) == Cardinality(LessonsOn(lessons, Day(now) + 1))
LessonsFetched(lessons) == Cardinality(lessons)

-----------------------------------------------------------------------------
(* Binary sensors of the timetable.                                        *)

SchoolDay(lessons, now) == Teaching(LessonsOn(lessons, Day(now))) # {}
InClass(lessons, now) == \E l \in Teaching(lessons) : l.start <= now /\ now < l.end
LessonsCanceled(lessons, now) == \E l \in LessonsOn(lessons, Day(now)) : l.canceled
OutingToday(lessons, now) == \E l \in LessonsOn(lessons, Day(now)) : l.outing
TestToday(lessons, now) == \E l \in LessonsOn(lessons, Day(now)) : l.test

NothingAhead(lessons, today) ==
    ~ \E l \in lessons : ~l.canceled /\ Day(l.start) \in today .. today + LookAhead
NothingThisWeek(lessons, today) ==
    ~ \E l \in lessons :
        ~l.canceled /\ Day(l.start) \in Monday(today) .. Monday(today) + WeekLength - 1
Holidays(lessons, now) == NothingAhead(lessons, Day(now)) \/ NothingThisWeek(lessons, Day(now))

-----------------------------------------------------------------------------
(* The terms of the year, read out of the login.  Term p closes on the day      *)
(* PeriodEnd[p]; one without dates is skipped.                              *)

\* The term of the marks tab, and none, never a guess, when there is no such tab.
CurrentPeriod(session) ==
    IF session.marksTab /\ session.default \in session.dated THEN session.default ELSE None
HasPeriod(answer) == CurrentPeriod(answer.session) # None

-----------------------------------------------------------------------------
(* Homework: a due day and a tick.  The whole year is asked for, so that what *)
(* is overdue comes too; an entry without a date is skipped.                 *)

HomeworkFacts(entries) ==
    {[id |-> e.id, due |-> e.due, done |-> e.done] :
       e \in {e \in entries : e.dated /\ FirstWeek <= Week(e.due) /\ Week(e.due) <= LastWeek}}

VisibleHomework(items, now) == {i \in items : i.due <= Day(now) + HomeworkHorizon}
HomeworkTodo(items, now) == {i \in VisibleHomework(items, now) : ~i.done}
NextDue(items, now) == Least({i.due : i \in HomeworkTodo(items, now)})
HomeworkTomorrow(items, now) == {i \in items : i.due = Day(now) + 1}
Late(items, now) == {i \in items : ~i.done /\ i.due < Day(now)}
HomeworkOverdue(items, now) == Late(items, now) # {}
TodoItems(items) ==
    {[uid |-> i.id, due |-> i.due, status |-> IF i.done THEN "completed" ELSE "needs_action"] :
       i \in items}

-----------------------------------------------------------------------------
(* Attendance: absences with a window, delays, punishments with their slots.  *)

NoAttendance == [absences |-> {}, delays |-> {}, punishments |-> {}]
\* One answer holds the three kinds; an entry that cannot be read is skipped.
AttendanceFacts(entries) ==
    LET read(kind) == {e \in entries : e.readable /\ e.kind = kind}
    IN  [absences |-> {[from |-> e.from, to |-> e.to, justified |-> e.justified] :
                         e \in read("absence")},
         delays |-> {[at |-> e.at, justified |-> e.justified] : e \in read("delay")},
         punishments |-> {[id |-> e.id, schedule |-> e.schedule] : e \in read("punishment")}]

Slots(facts) == UNION {p.schedule : p \in facts.punishments}
NextPunishment(facts, now) == Least({s.start : s \in {s \in Slots(facts) : s.start > now}})
PunishmentUpcoming(facts, now) == \E s \in Slots(facts) : s.start > now
AbsenceInProgress(facts, now) == \E a \in facts.absences : a.from <= now /\ now < a.to
UnjustifiedAbsences(facts) == {a \in facts.absences : ~a.justified}
Incidents(facts) ==
    <<Cardinality(facts.absences), Cardinality(facts.delays), Cardinality(facts.punishments)>>

-----------------------------------------------------------------------------
(* Marks of one term.  What stands for a mark is a number, one of the        *)
(* sentinels, or something no parser reads.                                 *)

\* _number and _grade_sentinel; a number out of a sentinel is no number.
Number(raw) == IF raw.kind = "number" THEN raw.v ELSE None
Sentinel(raw) == IF raw.kind = "sentinel" THEN raw.v ELSE None
Grade(e) == [day |-> e.day, value |-> Number(e.note), status |-> Sentinel(e.note)]
\* A subject without a name and without an identifier has no average.
Average(e) == [subject |-> e.subject, student |-> Number(e.note)]
\* A report that is withheld, shapeless or undecodable is no report.
Report(answer) == IF answer.report.kind = "published" THEN answer.report.subjects ELSE None
NoMarks == [grades |-> <<>>, averages |-> <<>>, overall |-> None, report |-> None]
MarksFacts(answer) ==
    LET dated == OnlyIn(answer.grades, {e \in Range(answer.grades) : e.dated})
        named == OnlyIn(answer.services, {e \in Range(answer.services) : e.subject # None})
    IN  [grades |-> [i \in DOMAIN dated |-> Grade(dated[i])],
         averages |-> [i \in DOMAIN named |-> Average(named[i])],
         overall |-> Number(answer.overall), report |-> Report(answer)]

\* The first of the list among those of the last day.
LatestGrade(facts) ==
    LET days == {g.day : g \in Range(facts.grades)}
    IN  facts.grades[Min({i \in DOMAIN facts.grades : facts.grades[i].day = Max(days)})]
LastGrade(facts) == IF facts.grades = <<>> THEN None ELSE LatestGrade(facts).value
LastGradeStatus(facts) == IF facts.grades = <<>> THEN None ELSE LatestGrade(facts).status
GradesCount(facts) == Len(facts.grades)
AveragesCount(facts) == Len(facts.averages)

\* Evaluations: what upstream cannot decode is skipped.
EvaluationsFacts(entries) == {e.id : e \in {e \in entries : e.readable}}
EvaluationsCount(facts) == Cardinality(facts)

\* The three tiers of the current term: no request, and an empty answer that counts
\* as a collection, while no term is current.
MarksTier(answer) == IF HasPeriod(answer) THEN MarksFacts(answer) ELSE NoMarks
AttendanceTier(answer) == IF HasPeriod(answer) THEN AttendanceFacts(answer.entries) ELSE NoAttendance
EvaluationsTier(answer) == IF HasPeriod(answer) THEN EvaluationsFacts(answer.entries) ELSE {}

\* The closed terms that are looked back on: the last ones, without the current one.
ClosedPeriods(session, now) ==
    {p \in session.dated : PeriodEnd[p] <= Day(now)} \ {CurrentPeriod(session)}
LookedBack(closed) ==
    {p \in closed : HistoryKept = 0 \/ Cardinality({q \in closed : q > p}) < HistoryKept}
HistoryFacts(answer, now) ==
    [p \in LookedBack(ClosedPeriods(answer.session, now)) |->
       [marks |-> MarksFacts(answer.terms[p]),
        attendance |-> AttendanceFacts(answer.terms[p].entries)]]
PastGrades(facts, p) == IF p \in DOMAIN facts THEN GradesCount(facts[p].marks) ELSE None
PastReport(facts, p) == IF p \in DOMAIN facts THEN facts[p].marks.report ELSE None
PastAverage(facts, p) == IF p \in DOMAIN facts THEN facts[p].marks.overall ELSE None
PastIncidents(facts, p) == IF p \in DOMAIN facts THEN Incidents(facts[p].attendance) ELSE <<>>

-----------------------------------------------------------------------------
(* News, and threads of messages.                                          *)

\* The groups of the answer, one after the other, with what has an identifier and
\* a date.
NewsFacts(groups) ==
    LET entries == FlattenSeq([g \in DOMAIN groups |->
                                 OnlyIn(groups[g], {e \in Range(groups[g]) : e.dated})])
    IN  [i \in DOMAIN entries |-> [id |-> entries[i].id, read |-> entries[i].read]]
UnreadNews(items) == Len(OnlyIn(items, {i \in Range(items) : ~i.read}))
NewsCount(items) == Len(items)

\* Drafts and trash are no conversation.
ThreadFacts(threads) ==
    LET visible == OnlyIn(threads, {t \in Range(threads) : ~t.hidden})
    IN  [i \in DOMAIN visible |-> [id |-> visible[i].id, unread |-> visible[i].unread]]
\* A sum of messages, not a number of threads; and the threads that hold them.
UnreadMessages(threads) ==
    LET sum[n \in 0 .. Len(threads)] == IF n = 0 THEN 0 ELSE sum[n - 1] + threads[n].unread
    IN  sum[Len(threads)]
UnreadThreads(threads) == OnlyIn(threads, {t \in Range(threads) : t.unread # 0})
DiscussionsCount(threads) == Len(threads)

-----------------------------------------------------------------------------
(* Menus of today and tomorrow: the lunch of a day, or its first other meal. *)

MenusFacts(meals, today) == OnlyIn(meals, {m \in Range(meals) : m.day \in {today, today + 1}})
MenuFor(meals, day) ==
    LET served == OnlyIn(meals, {m \in Range(meals) : m.day = day})
        lunches == OnlyIn(served, {m \in Range(served) : m.lunch})
    IN  IF lunches # <<>> THEN lunches[1].dishes
        ELSE IF served # <<>> THEN served[1].dishes ELSE None
MenuToday(meals, now) == MenuFor(meals, Day(now))
MenuTomorrow(meals, now) == MenuFor(meals, Day(now) + 1)

-----------------------------------------------------------------------------
(* Calendars: entries of the three, an all-day one widened to its midnights.  *)

LessonEntries(lessons) == {[start |-> l.start, end |-> l.end] : l \in lessons}
HomeworkEntries(items) ==
    {[start |-> Midnight(i.due), end |-> Midnight(i.due + 1)] : i \in items}
PunishmentEntries(facts) ==
    {[start |-> s.start, end |-> s.start + s.duration] : s \in Slots(facts)}

Current(entries, now) == {e \in entries : e.start <= now /\ now < e.end}
\* Start of the entry in progress, else of the next one.
CalendarEvent(entries, now) ==
    IF Current(entries, now) # {} THEN Min({e.start : e \in Current(entries, now)})
    ELSE Least({e.start : e \in {e \in entries : e.start > now}})
EventsBetween(entries, from, to) == {e \in entries : e.start < to /\ e.end > from}

=============================================================================
