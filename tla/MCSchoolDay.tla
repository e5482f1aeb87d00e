---------------------------- MODULE MCSchoolDay ----------------------------
(* Small instances of what is announced and of what is shown, for TLC. *)
EXTENDS SchoolDay, TLC

-----------------------------------------------------------------------------
(* Announced. *)

Tiers == {"homework", "marks", "attendance"}
CollectionsOfTier == ("homework" :> {"homework"}) @@ ("marks" :> {"grades"})
                     @@ ("attendance" :> {"absences", "delays"})
Published == ("homework" :> {1, 2}) @@ ("grades" :> {1, 2}) @@ ("absences" :> {1})
             @@ ("delays" :> {1})
ByPeriod == {"grades", "absences", "delays"}
TwoTerms == {1, 2}
AnyTopic == Tiers \union {"discussions", "timetable"}
OnlyItems == {"homework"}
AnyFacts == [canceled : BOOLEAN, status : {"none", "moved"}, rooms : {<<"r1">>, <<"r1", "r2">>},
             teachers : {<<"t1">>, <<"t1", "t2">>, <<"t2", "t1">>},
             slot : {<<8, 9>>, <<8, 10>>, <<9, 10>>}]

-----------------------------------------------------------------------------
(* Shown.  Two days of a first week and one of the next; lessons of an hour, of *)
(* which the second and the last may be replaced, cancelled or moved away.     *)

Hourly(day, hour) ==
    [start |-> day * DayLength + hour * Hour, end |-> day * DayLength + (hour + 1) * Hour,
     dated |-> TRUE, readable |-> TRUE, duration |-> 1, place |-> hour, num |-> 1,
     canceled |-> FALSE, exempted |-> FALSE, outing |-> FALSE, test |-> FALSE, named |-> TRUE]
Test == [Hourly(0, 1) EXCEPT !.test = TRUE]
Second == Hourly(0, 2)
Canceled == [Second EXCEPT !.canceled = TRUE]
Exempted == [Second EXCEPT !.exempted = TRUE, !.num = 2]
Outing == [Hourly(0, 4) EXCEPT !.outing = TRUE]
Undated == [Hourly(0, 4) EXCEPT !.canceled = TRUE, !.readable = FALSE, !.dated = FALSE, !.end = 0]
Tomorrow == Hourly(1, 1)
NextWeek == Hourly(2, 2)
SecondHours == {<<Second>>, <<Second, Canceled>>, <<Canceled, Second>>, <<Exempted, Second>>,
                <<Canceled, Exempted>>}
Timetables ==
    {<<>>, <<Test, Outing>>, <<Outing, Tomorrow>>, <<Test, Undated, NextWeek>>, <<NextWeek>>}
      \union {<<Test>> \o s \o <<Outing>> : s \in SecondHours}
      \union {<<Second, Canceled, Tomorrow>>, <<Exempted, Second, Tomorrow>>}

Item(n, due, done, dated) == [id |-> n, due |-> due, done |-> done, dated |-> dated]
Homeworks ==
    {{}} \union {{Item(1, d, b, TRUE)} : d \in 0 .. 2, b \in BOOLEAN}
      \union {{Item(1, 0, FALSE, TRUE), Item(2, 1, b, b)} : b \in BOOLEAN}

Absence(from, to, readable) ==
    [kind |-> "absence", readable |-> readable, from |-> from, to |-> to, justified |-> ~readable]
Punishment(n, slots) == [kind |-> "punishment", readable |-> TRUE, id |-> n, schedule |-> slots]
Delay(justified) == [kind |-> "delay", readable |-> TRUE, at |-> 2, justified |-> justified]
Reported ==
    {Absence(2, 6, TRUE), Absence(4, 8, FALSE), Absence(4, 14, TRUE),
     Punishment(1, {[start |-> 4, duration |-> 2], [start |-> 14, duration |-> 0]}),
     Punishment(2, {[start |-> 10, duration |-> 2]})}
Year(marksTab, default, dated) == [marksTab |-> marksTab, default |-> default, dated |-> dated]
SecondTerm == Year(TRUE, 2, 1 .. 3)
NoTab == Year(FALSE, 2, 1 .. 3)
Attendances ==
    [session : {SecondTerm}, entries : UNION {kSubset(n, Reported) : n \in 0 .. 2}
                                          \union {{Absence(2, 6, TRUE), Delay(TRUE)}}]
      \union [session : {NoTab}, entries : {{Absence(2, 6, TRUE)}}]
Assessments ==
    [session : {SecondTerm, NoTab},
     entries : SUBSET {[id |-> 1, readable |-> TRUE], [id |-> 2, readable |-> FALSE]}]

Note(kind, v) == [kind |-> kind, v |-> v]
Mark(day, kind, v, dated) == [day |-> day, dated |-> dated, note |-> Note(kind, v)]
Subject(name, kind) == [subject |-> name, note |-> Note(kind, 11)]
Transcript(grades, services, kind, subjects) ==
    [grades |-> grades, services |-> services, overall |-> Note("number", 12),
     report |-> [kind |-> kind, subjects |-> subjects], session |-> SecondTerm,
     entries |-> {Absence(2, 6, TRUE)}]
GradeLists ==
    {<<>>, <<Mark(0, "number", 12, TRUE), Mark(1, "sentinel", 1, TRUE)>>,
     <<Mark(1, "sentinel", 1, TRUE), Mark(1, "number", 7, TRUE), Mark(2, "number", 9, FALSE)>>,
     <<Mark(1, "number", 15, TRUE), Mark(0, "garbled", 0, TRUE)>>}
Transcripts ==
    {Transcript(g, <<Subject(1, "number"), Subject(None, "number")>>, "published", 0) :
       g \in GradeLists}
      \union {Transcript(g, <<Subject(1, "garbled")>>, "withheld", 1) : g \in GradeLists}
Terms == Transcripts \union {[t EXCEPT !.session = NoTab] : t \in Transcripts}

Meal(day, lunch, dishes) == [day |-> day, lunch |-> lunch, dishes |-> dishes]
Canteen ==
    {<<>>, <<Meal(0, TRUE, 3)>>, <<Meal(0, FALSE, 2), Meal(0, TRUE, 4), Meal(1, FALSE, 1)>>,
     <<Meal(1, TRUE, 5), Meal(2, TRUE, 6)>>}

TwoEnds == <<0, 1, 3>>
Pasts == [session : {NoTab, SecondTerm, Year(TRUE, 3, {1, 3})},
          terms : {[p \in 1 .. 3 |-> t] : t \in Transcripts}]

Info(n, read, dated) == [id |-> n, read |-> read, dated |-> dated]
Newsletters ==
    {<<>>, <<<<Info(1, FALSE, TRUE)>>, <<Info(2, TRUE, TRUE)>>>>,
     <<<<Info(1, TRUE, TRUE), Info(2, FALSE, FALSE)>>>>}
Talk(n, new, hidden) == [id |-> n, unread |-> new, hidden |-> hidden]
Talks ==
    {<<>>, <<Talk(1, 3, FALSE), Talk(2, 0, FALSE)>>, <<Talk(1, 0, FALSE), Talk(2, 2, TRUE)>>}

AllTiers == {"timetable", "homework", "attendance", "marks", "evaluations", "menus", "history",
             "news", "discussions"}
OneTier == {"marks"}
TimetableOnly == {"timetable"}
SchoolAnswers ==
    [timetable |-> Timetables, homework |-> Homeworks, attendance |-> Attendances,
     marks |-> Terms, evaluations |-> Assessments, menus |-> Canteen, history |-> Pasts,
     news |-> Newsletters, discussions |-> Talks]
Night == {0, 11}

\* No lesson of these timetables runs past midnight.
ASSUME ShortLessons == WithinADay
=============================================================================
