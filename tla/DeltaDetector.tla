--------------------------- MODULE DeltaDetector ---------------------------
(***************************************************************************)
(* What is announced to the house when the school changes something         *)
(* (delta.py), with the part of the connector and the gateway the detector   *)
(* depends on: which period is read, and which threads are opened.           *)
(*                                                                         *)
(* One child; its identifier is a number that grows at each renaming.  The   *)
(* three rules (items by identifier, threads by unread count, lessons by     *)
(* signature) share nothing but the restart and the renaming, so a behaviour *)
(* exercises one tier: the variable topic, chosen once.                      *)
(***************************************************************************)
EXTENDS FiniteSets, Functions, Lists

CONSTANTS
    ItemTiers,        \* tiers whose changes are found by identifier
    CollectionsOf,    \* per item tier, the collections of one answer
    ItemsOf,          \* per collection, what the school may publish in it
    Scoped,           \* the collections read for one period
    Periods,          \* 1 .. the number of terms of the school year
    Threads, Lessons,
    LessonFacts,      \* the facts a lesson may show
    NewThreadCap,     \* _NEW_THREAD_CAP
    MaxExpansions,    \* MAX_DISCUSSION_EXPANSIONS
    Topics,           \* tiers exercised
    MaxIds, MaxSent   \* bounds: identifiers of the child, messages sent

ASSUME DeltaAssumption ==
    /\ CollectionsOf \in [ItemTiers -> SUBSET DOMAIN ItemsOf]
    /\ Scoped \subseteq DOMAIN ItemsOf
    /\ Topics \subseteq ItemTiers \union {"discussions", "timetable"}
    /\ 1 \in Periods
    /\ IsFiniteSet(Threads)
    /\ NewThreadCap \in Nat /\ MaxExpansions \in Nat /\ MaxIds \in Nat \ {0} /\ MaxSent \in Nat
    /\ \A f \in LessonFacts :
         /\ DOMAIN f = {"canceled", "status", "rooms", "teachers", "slot"}
         /\ f.canceled \in BOOLEAN

VARIABLES
    topic,
    id, period,       \* the school: the child's identifier, the current term
    listed,           \* the school: per collection and period, the items shown
    thread,           \* the school: [shown, sent, unread] of every thread
    lesson,           \* the school: the lessons of the two weeks read
    factsPeriod,      \* session_facts().current_period, as cached by the connector
    baseline,         \* connector: _unread_by_student, per identifier
    seenIds, unread, lessonSignatures,   \* the detector's memory, per identifier
    events,           \* what the last step announced
    board,            \* history: the items of the last look, by collection and period
    heard,            \* history: messages told of each thread shown without a break
    atLastLook,       \* history: messages sent to each thread at the last look
    picture           \* history: what an automation that follows the events believes

schoolVars == <<id, period, listed, thread, lesson>>
memoryVars == <<factsPeriod, baseline, seenIds, unread, lessonSignatures>>
historyVars == <<board, heard, atLastLook, picture>>
vars == <<topic, schoolVars, memoryVars, events, historyVars>>

Without(f, S) == [x \in DOMAIN f \ S |-> f[x]]
With(f, x, v) == [y \in DOMAIN f \union {x} |-> IF y = x THEN v ELSE f[y]]
Collections == DOMAIN ItemsOf
NoPeriod == 0
\* f"grades:{facts.period_id}", or the bare name of a collection without periods.
Key(c, p) == <<c, IF c \in Scoped THEN p ELSE NoPeriod>>
Keys == {Key(c, p) : c \in Collections, p \in Periods}

-----------------------------------------------------------------------------
(* _new_ids and the tiers that rest on it: None on a first pass, and then   *)
(* every identifier the previous answer did not hold.                       *)

\* The period a collection is asked for: the one cached when the roster was read.
Asked(c) == Key(c, factsPeriod)
FirstPass(key) == <<id, key>> \notin DOMAIN seenIds
NewIds(key, incoming) ==
    IF FirstPass(key) THEN {} ELSE incoming \ seenIds[<<id, key>>]
Remembered(key, incoming) == incoming

CollectItems ==
    /\ topic \in ItemTiers
    /\ LET answers == {Asked(c) : c \in CollectionsOf[topic]}
       IN  /\ events' = UNION {{<<key, i>> : i \in NewIds(key, listed[key])} : key \in answers}
           /\ seenIds' =
                [k \in DOMAIN seenIds \union {<<id, key>> : key \in answers} |->
                   IF k[1] = id /\ k[2] \in answers THEN Remembered(k[2], listed[k[2]])
                   ELSE seenIds[k]]
           /\ board' = [k \in DOMAIN board \union answers |->
                          IF k \in answers THEN listed[k] ELSE board[k]]
    /\ UNCHANGED <<topic, schoolVars, factsPeriod, baseline, unread, lessonSignatures,
                   heard, atLastLook, picture>>

-----------------------------------------------------------------------------
(* Discussions: the gateway opens the threads whose count went up, and the  *)
(* detector announces one event per new message of an opened thread, or one *)
(* event for the whole thread.                                              *)

Shown == {t \in Threads : thread[t].shown}
Baseline(t) ==
    IF id \in DOMAIN baseline /\ t \in DOMAIN baseline[id] THEN baseline[id][t] ELSE 0
NewlyActive == {t \in Shown : thread[t].unread > Baseline(t)}
\* The threads opened: at most the cap, in the order of the server's list.
MayOpen(opened) ==
    /\ opened \subseteq NewlyActive
    /\ \/ opened = NewlyActive /\ Cardinality(opened) <= MaxExpansions
       \/ Cardinality(NewlyActive) > MaxExpansions /\ Cardinality(opened) = MaxExpansions

\* remember_unread: a thread that was not opened keeps its old count.
NextBaseline(opened) ==
    [t \in Shown |-> IF t \in opened THEN thread[t].unread ELSE Baseline(t)]

Primed == id \in DOMAIN unread
FirstSighting(t) == t \notin DOMAIN unread[id]
\* The count the new messages are counted from.
CountedFrom_Zero(t) == IF FirstSighting(t) THEN 0 ELSE unread[id][t]
CountedFrom(t) ==
    IF FirstSighting(t)
    THEN IF thread[t].unread > NewThreadCap THEN thread[t].unread - NewThreadCap ELSE 0
    ELSE unread[id][t]
Arrived(t) == thread[t].unread > CountedFrom(t)

\* _message_events: the newest messages of an opened thread whose answer held
\* them, or a single event that names no author.
Author(m) == m
NoAuthor == 0
Newest(t, n) == {m \in 1 .. thread[t].sent : m > thread[t].sent - n}
MessageEvents(t, readable) ==
    IF t \in readable
    THEN {<<t, Author(m)>> : m \in Newest(t, thread[t].unread - CountedFrom(t))}
    ELSE {<<t, NoAuthor>>}

CollectDiscussions(opened, readable) ==
    /\ topic = "discussions"
    /\ MayOpen(opened)
    /\ readable \subseteq opened
    /\ events' = IF Primed THEN UNION {MessageEvents(t, readable) : t \in {s \in Shown : Arrived(s)}}
                 ELSE {}
    /\ baseline' = With(baseline, id, NextBaseline(opened))
    /\ unread' = With(unread, id, [t \in Shown |-> thread[t].unread])
    /\ heard' = [t \in Shown |->
                   (IF t \in DOMAIN heard THEN heard[t] ELSE {})
                     \union {m \in 1 .. thread[t].sent : <<t, m>> \in events'}]
    /\ atLastLook' = [t \in Shown |-> thread[t].sent]
    /\ UNCHANGED <<topic, schoolVars, factsPeriod, seenIds, lessonSignatures, board, picture>>

-----------------------------------------------------------------------------
(* The timetable: a whitelisted signature per lesson, over the week before  *)
(* de-duplication.                                                          *)

Signature(facts) ==
    <<facts.canceled, facts.status, Range(facts.rooms), Range(facts.teachers), facts.slot>>

Named_CanceledOnly(now, was) ==
    {e \in {"lesson_canceled", "lesson_moved", "room_changed", "teacher_changed"} :
        CASE e = "lesson_canceled" -> now.canceled # was.canceled
          [] e = "lesson_moved" -> now.slot # was.slot
          [] e = "room_changed" -> Range(now.rooms) # Range(was.rooms)
          [] e = "teacher_changed" -> Range(now.teachers) # Range(was.teachers)}
Named(now, was) ==
    {e \in {"lesson_canceled", "lesson_restored", "lesson_moved", "room_changed",
            "teacher_changed"} :
        CASE e = "lesson_canceled" -> now.canceled /\ ~was.canceled
          [] e = "lesson_restored" -> was.canceled /\ ~now.canceled
          [] e = "lesson_moved" -> now.slot # was.slot
          [] e = "room_changed" -> Range(now.rooms) # Range(was.rooms)
          [] e = "teacher_changed" -> Range(now.teachers) # Range(was.teachers)}
LessonEvents(now, was) ==
    IF Named(now, was) # {} THEN Named(now, was)
    ELSE IF now.status # was.status THEN {"lesson_status_changed"} ELSE {}

\* The event entity of a lesson drops a type it never declared.
Declared ==
    {"lesson_canceled", "lesson_restored", "lesson_moved", "room_changed", "teacher_changed",
     "lesson_status_changed"}
Triggered(told) == told \intersect Declared

\* One lesson announced: its events, and the facts each of them carries.
Changed(now, was) == Signature(now) # Signature(was)
Known == IF id \in DOMAIN lessonSignatures THEN lessonSignatures[id] ELSE Empty
LessonNews ==
    UNION {{<<l, e>> : e \in LessonEvents(lesson[l], Known[l])} :
             l \in {l \in DOMAIN lesson \intersect DOMAIN Known : Changed(lesson[l], Known[l])}}

\* An automation: what it first saw of a lesson, corrected by each event for the
\* aspect that event is about; the status is in the attributes of every event.
View(facts) ==
    [canceled |-> facts.canceled, status |-> facts.status, rooms |-> Range(facts.rooms),
     teachers |-> Range(facts.teachers), slot |-> facts.slot]
Corrected(view, facts, told) ==
    [canceled |-> IF "lesson_canceled" \in told THEN TRUE
                  ELSE IF "lesson_restored" \in told THEN FALSE ELSE view.canceled,
     status |-> IF told = {} THEN view.status ELSE facts.status,
     rooms |-> IF "room_changed" \in told THEN Range(facts.rooms) ELSE view.rooms,
     teachers |-> IF "teacher_changed" \in told THEN Range(facts.teachers) ELSE view.teachers,
     slot |-> IF "lesson_moved" \in told THEN facts.slot ELSE view.slot]

CollectTimetable ==
    /\ topic = "timetable"
    /\ events' = LessonNews
    /\ lessonSignatures' = With(lessonSignatures, id, lesson)
    /\ picture' =
         [l \in DOMAIN lesson |->
            IF l \in DOMAIN picture
            THEN Corrected(picture[l], lesson[l],
                           Triggered({e[2] : e \in {e \in events' : e[1] = l}}))
            ELSE View(lesson[l])]
    /\ UNCHANGED <<topic, schoolVars, factsPeriod, baseline, seenIds, unread, board, heard,
                   atLastLook>>

-----------------------------------------------------------------------------
(* A renaming: a login announced a new identifier, so the roster was read   *)
(* again, the cached facts with it, and the detector's memory moved.  The   *)
(* connector's counts stay under the old identifier.                        *)

MoveKey_Copied(f, old, new) == IF old \in DOMAIN f THEN With(f, new, f[old]) ELSE f
MoveKey(f, old, new) ==
    LET source(k) == IF k = new THEN old ELSE k
    IN  [k \in (DOMAIN f \ {old}) \union (IF old \in DOMAIN f THEN {new} ELSE {}) |->
           f[source(k)]]
MoveSeen_Lost(f, old, new) == [k \in {k \in DOMAIN f : k[1] # old} |-> f[k]]
MoveSeen(f, old, new) ==
    LET source(k) == IF k[1] = new THEN <<old, k[2]>> ELSE k
    IN  [k \in {<<IF k[1] = old THEN new ELSE k[1], k[2]>> : k \in DOMAIN f} |-> f[source(k)]]

Rename ==
    /\ id < MaxIds
    /\ id' = id + 1
    /\ factsPeriod' = period
    /\ seenIds' = MoveSeen(seenIds, id, id')
    /\ lessonSignatures' = MoveKey(lessonSignatures, id, id')
    /\ unread' = MoveKey(unread, id, id')
    /\ events' = {}
    /\ UNCHANGED <<topic, period, listed, thread, lesson, baseline, historyVars>>

\* A restart or a reload: a new detector and a new connector.
Restart ==
    /\ seenIds # Empty \/ unread # Empty \/ lessonSignatures # Empty \/ factsPeriod # period
    /\ factsPeriod' = period
    /\ seenIds' = Empty /\ unread' = Empty /\ lessonSignatures' = Empty /\ baseline' = Empty
    /\ events' = {}
    /\ board' = Empty /\ heard' = Empty /\ atLastLook' = Empty /\ picture' = Empty
    /\ UNCHANGED <<topic, schoolVars>>

-----------------------------------------------------------------------------
(* The school.                                                             *)

OnlyAtSchool == events' = {} /\ UNCHANGED <<topic, id, memoryVars, historyVars>>

\* An item is published, or withdrawn.
Post ==
    /\ topic \in ItemTiers
    /\ \E c \in CollectionsOf[topic] : \E i \in ItemsOf[c] :
         listed' = [listed EXCEPT ![Key(c, period)] = IF i \in @ THEN @ \ {i} ELSE @ \union {i}]
    /\ OnlyAtSchool /\ UNCHANGED <<period, thread, lesson>>

NextTerm ==
    /\ topic \in ItemTiers
    /\ period + 1 \in Periods
    /\ period' = period + 1
    /\ OnlyAtSchool /\ UNCHANGED <<listed, thread, lesson>>

Sent == UNION {{t} \X (1 .. thread[t].sent) : t \in Threads}
Send(t) ==
    /\ topic = "discussions"
    /\ Cardinality(Sent) < MaxSent
    /\ thread' = [thread EXCEPT ![t].sent = @ + 1, ![t].unread = @ + 1]
    /\ OnlyAtSchool /\ UNCHANGED <<period, listed, lesson>>

\* Messages are read on the phone, the oldest first.
ReadElsewhere(t) ==
    /\ topic = "discussions"
    /\ \E n \in 0 .. thread[t].unread - 1 : thread' = [thread EXCEPT ![t].unread = n]
    /\ OnlyAtSchool /\ UNCHANGED <<period, listed, lesson>>

\* A thread moves to the trash, or comes back.
Relabel(t) ==
    /\ topic = "discussions"
    /\ thread' = [thread EXCEPT ![t].shown = ~@]
    /\ OnlyAtSchool /\ UNCHANGED <<period, listed, lesson>>

Reschedule(l) ==
    /\ topic = "timetable"
    /\ \/ \E facts \in LessonFacts : lesson' = With(lesson, l, facts)
       \/ l \in DOMAIN lesson /\ lesson' = Without(lesson, {l})
    /\ OnlyAtSchool /\ UNCHANGED <<period, listed, thread>>

Init ==
    /\ topic \in Topics
    /\ id = 1 /\ period = 1 /\ factsPeriod = 1
    /\ listed = [k \in Keys |-> {}]
    /\ thread \in [Threads -> [shown : {TRUE}, sent : {0}, unread : {0}]]
    /\ lesson = Empty
    /\ baseline = Empty /\ seenIds = Empty /\ unread = Empty /\ lessonSignatures = Empty
    /\ events = {} /\ board = Empty /\ heard = Empty /\ atLastLook = Empty /\ picture = Empty

Next ==
    \/ CollectItems
    \/ \E opened \in SUBSET Threads : \E readable \in SUBSET opened :
         CollectDiscussions(opened, readable)
    \/ CollectTimetable
    \/ Rename
    \/ Restart
    \/ Post
    \/ NextTerm
    \/ \E t \in Threads : Send(t) \/ ReadElsewhere(t) \/ Relabel(t)
    \/ \E l \in Lessons : Reschedule(l)

Spec == Init /\ [][Next]_vars

-----------------------------------------------------------------------------
(* Properties.                                                             *)

\* Every variable has its shape, and the detector remembers one child only.
TypeOK ==
    /\ topic \in Topics /\ id \in 1 .. MaxIds /\ period \in Periods /\ factsPeriod \in Periods
    /\ \A k \in Keys : listed[k] \subseteq ItemsOf[k[1]]
    /\ \A t \in Threads : thread[t].sent \in 0 .. MaxSent /\ thread[t].unread \in 0 .. thread[t].sent
    /\ \A l \in DOMAIN lesson : l \in Lessons /\ lesson[l] \in LessonFacts
    /\ \A k \in DOMAIN seenIds : k[1] = id /\ k[2] \in Keys /\ seenIds[k] \subseteq ItemsOf[k[2][1]]
    /\ DOMAIN unread \subseteq {id} /\ DOMAIN lessonSignatures \subseteq {id}
    /\ DOMAIN baseline \subseteq 1 .. id

\* _new_ids, rename and the period in the key, together: a collection announces
\* exactly what is listed now and was not at the last look at this collection and
\* period, whatever name the child had then; the first look announces nothing.
ArrivalsAnnounced ==
    [][CollectItems =>
         \A c \in CollectionsOf[topic] :
            {e[2] : e \in {e \in events' : e[1] = Asked(c)}} =
              IF Asked(c) \in DOMAIN board THEN listed[Asked(c)] \ board[Asked(c)] ELSE {}]_vars

\* discussions: while a thread stays in the list no message of it is announced
\* twice, and a look announces no more messages than were sent since the last
\* one; a thread that turns up announces the cap at most, and the first look
\* after a start announces nothing.
MessagesToldOnce ==
    [][\A opened \in SUBSET Threads : \A readable \in SUBSET opened :
         CollectDiscussions(opened, readable) =>
           \A t \in Threads :
              LET told == {e[2] : e \in {e \in events' : e[1] = t}}
              IN  /\ t \in DOMAIN heard => told \intersect heard[t] = {}
                  /\ Cardinality(told) <=
                       IF t \in DOMAIN atLastLook THEN thread[t].sent - atLastLook[t]
                       ELSE IF atLastLook # Empty \/ Primed THEN NewThreadCap ELSE 0]_vars

\* timetable: an automation that saw a lesson once and then only follows the
\* events knows what was last collected of it, through cancellations lifted,
\* moves, changes of room or teacher, and a renaming of the child.
FollowerKeepsUp ==
    topic = "timetable" =>
        /\ DOMAIN picture = DOMAIN Known
        /\ \A l \in DOMAIN Known : picture[l] = View(Known[l])
=============================================================================
