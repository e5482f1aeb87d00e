-------------------------- MODULE SchoolDayProofs --------------------------
(***************************************************************************)
(* Theorems about SchoolDay: what is announced (DeltaDetector) and what is  *)
(* shown (Display), for any school.                                        *)
(*                                                                         *)
(* Announced.  What the detector remembers is kept under the child's present *)
(* identifier and is what was last collected (Memory); the household's side  *)
(* is the history the properties compare it with.  For the messages it is    *)
(* TalkInv: no more of them became unread since the last look than were sent. *)
(*                                                                         *)
(* Shown.  An entity shows what it read when it was last written (WrittenAt), *)
(* and what it reads does not change before the instant it then waits for     *)
(* (Steady), which is even and whose timer rings the odd tick after.         *)
(*                                                                         *)
(* One story.  What the entities of a tier read is what the tier made of the  *)
(* last answer when it was collected (Snapshot), and every answer of the      *)
(* school makes entities that agree: a lemma for each tier.                   *)
(***************************************************************************)
EXTENDS SchoolDay, ChildKeysProofs

\* Renamed as often as it may be, the child is remembered under one name.
OneName ==
    /\ id \in Nat
    /\ DOMAIN seenIds \subseteq {id} \X Keys
    /\ DOMAIN lessonSignatures \subseteq {id}

\* The lessons of the school and of the memory are facts.
LessonsTyped ==
    /\ \A l \in DOMAIN lesson : lesson[l] \in LessonFacts
    /\ \A l \in DOMAIN Known : Known[l] \in LessonFacts

\* The detector's memory is the last look.
Memory ==
    /\ \A key \in Keys : key \in DOMAIN board <=> <<id, key>> \in DOMAIN seenIds
    /\ \A key \in DOMAIN board : key \in Keys /\ board[key] = seenIds[<<id, key>>]

InYear == period \in Periods /\ factsPeriod \in Periods /\ topic \in Topics

DeltaInv == InYear /\ OneName /\ LessonsTyped /\ FollowerKeepsUp /\ Memory

-----------------------------------------------------------------------------
(* A lesson.                                                               *)

\* Whatever changed of a lesson, its events tell all of it (timetable,
\* _lesson_events).
LEMMA EventsTellAll ==
    ASSUME NEW seen \in LessonFacts, NEW was \in LessonFacts, Changed(seen, was)
    PROVE  Corrected(View(was), seen, Triggered(LessonEvents(seen, was))) = View(seen)
<1> DEFINE told == LessonEvents(seen, was)
<1>1. seen.canceled \in BOOLEAN /\ was.canceled \in BOOLEAN
  BY DeltaAssumption DEF DeltaAssumption
<1>2. Triggered(told) = told
  BY DEF Triggered, Declared, LessonEvents, Named
<1>3. /\ "lesson_canceled" \in told <=> seen.canceled /\ ~was.canceled
      /\ "lesson_restored" \in told <=> was.canceled /\ ~seen.canceled
      /\ "lesson_moved" \in told <=> seen.slot # was.slot
      /\ "room_changed" \in told <=> Range(seen.rooms) # Range(was.rooms)
      /\ "teacher_changed" \in told <=> Range(seen.teachers) # Range(was.teachers)
  BY DEF LessonEvents, Named
<1>4. told = {} => seen.status = was.status
  BY DEF LessonEvents
<1> QED
  BY <1>1, <1>2, <1>3, <1>4 DEF Corrected, View

\* What did not change looks the same.
LEMMA SameView ==
    ASSUME NEW seen \in LessonFacts, NEW was \in LessonFacts, ~Changed(seen, was)
    PROVE  View(seen) = View(was) /\ Corrected(View(was), seen, {}) = View(was)
  BY DEF Changed, Signature, View, Corrected

-----------------------------------------------------------------------------
(* What was announced.                                                     *)

\* At first nothing is remembered, and nothing was looked at.
LEMMA InvInit == Init => DeltaInv
  BY DeltaAssumption DEF DeltaAssumption, Init, DeltaInv, InYear, OneName, LessonsTyped, FollowerKeepsUp, Memory, Known, Empty

\* The collections that are asked for, under the keys they are remembered by.
LEMMA AskedKeys ==
    ASSUME InYear, topic \in ItemTiers
    PROVE  {Asked(c) : c \in CollectionsOf[topic]} \subseteq Keys
  BY DeltaAssumption DEF DeltaAssumption, InYear, Asked, Keys, Collections

\* A look at the items is what is remembered of them (_new_ids).
LEMMA ItemsKeepInv == DeltaInv /\ CollectItems => DeltaInv'
<1> SUFFICES ASSUME DeltaInv, CollectItems PROVE DeltaInv'
  OBVIOUS
<1> DEFINE answers == {Asked(c) : c \in CollectionsOf[topic]}
<1>1. answers \subseteq Keys
  BY AskedKeys DEF DeltaInv, CollectItems
<1>2. UNCHANGED <<topic, id, period, factsPeriod, lesson, lessonSignatures, picture, listed>>
  BY DEF CollectItems, schoolVars
<1>3. seenIds' = [k \in DOMAIN seenIds \union {<<id, key>> : key \in answers} |->
                    IF k[1] = id /\ k[2] \in answers THEN listed[k[2]] ELSE seenIds[k]]
  BY DEF CollectItems, Remembered
<1>4. board' = [k \in DOMAIN board \union answers |-> IF k \in answers THEN listed[k] ELSE board[k]]
  BY DEF CollectItems
<1> HIDE DEF answers
<1>5. OneName'
  BY <1>1, <1>2, <1>3 DEF DeltaInv, OneName
<1>6. Memory'
  <2>1. \A key \in Keys : <<id, key>> \in DOMAIN seenIds' <=> <<id, key>> \in DOMAIN seenIds \/ key \in answers
    BY <1>3
  <2>2. \A key \in Keys : <<id, key>> \in DOMAIN seenIds' =>
          seenIds'[<<id, key>>] = IF key \in answers THEN listed[key] ELSE seenIds[<<id, key>>]
    BY <1>3
  <2> QED
    BY <1>1, <1>2, <1>4, <2>1, <2>2 DEF DeltaInv, Memory
<1> QED
  BY <1>2, <1>5, <1>6 DEF DeltaInv, InYear, LessonsTyped, Known, FollowerKeepsUp

\* A look at the timetable: each event corrects the picture of its lesson (timetable).
LEMMA LessonsKeepInv == DeltaInv /\ CollectTimetable => DeltaInv'
<1> SUFFICES ASSUME DeltaInv, CollectTimetable PROVE DeltaInv'
  OBVIOUS
<1>1. UNCHANGED <<topic, id, period, factsPeriod, lesson, seenIds, board>> /\ topic = "timetable"
  BY DEF CollectTimetable, schoolVars
<1>2. lessonSignatures' = With(lessonSignatures, id, lesson)
  BY DEF CollectTimetable
<1>3. DOMAIN lessonSignatures' \subseteq {id} /\ id \in DOMAIN lessonSignatures'
        /\ lessonSignatures'[id] = lesson
  BY <1>2 DEF With, DeltaInv, OneName
<1>4. Known' = lesson
  BY <1>1, <1>3 DEF Known
<1>5. DOMAIN picture = DOMAIN Known /\ \A l \in DOMAIN Known : picture[l] = View(Known[l])
  BY <1>1 DEF DeltaInv, FollowerKeepsUp
<1>6. ASSUME NEW l \in DOMAIN lesson PROVE picture'[l] = View(lesson[l])
  <2> DEFINE told == {e[2] : e \in {e \in events' : e[1] = l}}
  <2>1. picture'[l] = IF l \in DOMAIN picture THEN Corrected(picture[l], lesson[l], Triggered(told))
                      ELSE View(lesson[l])
    BY <1>6 DEF CollectTimetable
  <2>2. CASE l \in DOMAIN picture
    <3>1. lesson[l] \in LessonFacts /\ Known[l] \in LessonFacts /\ l \in DOMAIN Known
      BY <1>5, <1>6, <2>2 DEF DeltaInv, LessonsTyped
    <3>2. events' = LessonNews
      BY DEF CollectTimetable
    <3>5. picture[l] = View(Known[l])
      BY <1>5, <3>1
    <3>6. picture'[l] = Corrected(View(Known[l]), lesson[l], Triggered(told))
      BY <2>1, <2>2, <3>5
    <3>3. CASE Changed(lesson[l], Known[l])
      <4>1. told = LessonEvents(lesson[l], Known[l])
        <5>1. ASSUME NEW e \in LessonEvents(lesson[l], Known[l])
              PROVE  <<l, e>> \in events' /\ <<l, e>>[1] = l /\ <<l, e>>[2] = e
          BY <1>6, <3>1, <3>2, <3>3 DEF LessonNews
        <5>2. ASSUME NEW n \in events', n[1] = l PROVE n[2] \in LessonEvents(lesson[l], Known[l])
          <6>1. PICK k \in DOMAIN lesson : n \in {<<k, e>> : e \in LessonEvents(lesson[k], Known[k])}
            BY <3>2, <5>2 DEF LessonNews
          <6>2. PICK e \in LessonEvents(lesson[k], Known[k]) : n = <<k, e>>
            BY <6>1
          <6> QED
            BY <5>2, <6>2
        <5> QED
          BY <5>1, <5>2
      <4>2. Corrected(View(Known[l]), lesson[l], Triggered(LessonEvents(lesson[l], Known[l]))) = View(lesson[l])
        BY <3>1, <3>3, EventsTellAll
      <4> HIDE DEF told
      <4> QED
        BY <3>6, <4>1, <4>2
    <3>4. CASE ~Changed(lesson[l], Known[l])
      <4>1. told = {}
        BY <3>1, <3>2, <3>4 DEF LessonNews
      <4>2. Triggered(told) = {}
        BY <4>1 DEF Triggered
      <4>3. View(lesson[l]) = View(Known[l]) /\ Corrected(View(Known[l]), lesson[l], {}) = View(Known[l])
        BY <3>1, <3>4, SameView
      <4> HIDE DEF told
      <4> QED
        BY <3>6, <4>2, <4>3
    <3> QED
      BY <3>3, <3>4
  <2> QED
    BY <2>1, <2>2
<1>7. DOMAIN picture' = DOMAIN lesson
  BY DEF CollectTimetable
<1>8. FollowerKeepsUp'
  BY <1>4, <1>6, <1>7 DEF FollowerKeepsUp
<1>9. OneName' /\ LessonsTyped' /\ Memory' /\ InYear'
  BY <1>1, <1>3, <1>4 DEF DeltaInv, OneName, LessonsTyped, Memory, InYear
<1> QED
  BY <1>8, <1>9 DEF DeltaInv

\* A renaming carries the whole memory to the new name (rename).
LEMMA RenameKeepsInv == DeltaInv /\ Rename => DeltaInv'
<1> SUFFICES ASSUME DeltaInv, Rename PROVE DeltaInv'
  OBVIOUS
<1>1. /\ id' = id + 1 /\ id \in Nat /\ UNCHANGED <<topic, period, lesson, picture, board>>
      /\ factsPeriod' = period
  BY DEF Rename, historyVars, DeltaInv, OneName
<1>2. lessonSignatures' = MoveKey(lessonSignatures, id, id') /\ DOMAIN lessonSignatures \subseteq {id}
        /\ seenIds' = MoveSeen(seenIds, id, id') /\ DOMAIN seenIds \subseteq {id} \X Keys
  BY DEF Rename, DeltaInv, OneName
<1>3. Known' = Known /\ DOMAIN lessonSignatures' \subseteq {id'}
  BY <1>1, <1>2 DEF Known, MoveKey
<1>4. /\ DOMAIN seenIds' \subseteq {id'} \X Keys
      /\ \A key \in Keys : <<id', key>> \in DOMAIN seenIds' <=> <<id, key>> \in DOMAIN seenIds
      /\ \A key \in Keys : <<id, key>> \in DOMAIN seenIds => seenIds'[<<id', key>>] = seenIds[<<id, key>>]
  <2>1. DOMAIN seenIds' = {<<IF k[1] = id THEN id' ELSE k[1], k[2]>> : k \in DOMAIN seenIds}
    BY <1>2 DEF MoveSeen
  <2>2. \A key \in Keys : <<id, key>> \in DOMAIN seenIds => <<id', key>> \in DOMAIN seenIds'
    BY <2>1
  <2>3. \A k \in DOMAIN seenIds : k = <<id, k[2]>> /\ k[2] \in Keys
    BY <1>2
  <2>4. \A k \in DOMAIN seenIds' : k = <<id', k[2]>> /\ k[2] \in Keys /\ <<id, k[2]>> \in DOMAIN seenIds
    BY <2>1, <2>3
  <2>5. \A k \in DOMAIN seenIds' : seenIds'[k] = seenIds[<<id, k[2]>>]
    BY <1>2, <2>4 DEF MoveSeen
  <2>6. DOMAIN seenIds' \subseteq {id'} \X Keys
    <3> SUFFICES ASSUME NEW k \in DOMAIN seenIds' PROVE k \in {id'} \X Keys
      OBVIOUS
    <3>1. k = <<id', k[2]>> /\ k[2] \in Keys
      BY <2>4
    <3>2. <<id', k[2]>> \in {id'} \X Keys
      BY <3>1
    <3> QED
      BY <3>1, <3>2, Zenon
  <2>7. ASSUME NEW key \in Keys PROVE <<id', key>> \in DOMAIN seenIds' <=> <<id, key>> \in DOMAIN seenIds
    BY <2>2, <2>4
  <2>8. ASSUME NEW key \in Keys, <<id, key>> \in DOMAIN seenIds
        PROVE  seenIds'[<<id', key>>] = seenIds[<<id, key>>]
    <3>1. <<id', key>> \in DOMAIN seenIds' /\ <<id', key>>[2] = key
      BY <2>2, <2>8
    <3> QED
      BY <2>5, <3>1
  <2> QED
    BY <2>6, <2>7, <2>8
<1>5. Memory'
  BY <1>1, <1>4 DEF DeltaInv, Memory
<1>6. OneName' /\ LessonsTyped' /\ InYear' /\ FollowerKeepsUp'
  BY <1>1, <1>3, <1>4 DEF DeltaInv, OneName, LessonsTyped, InYear, FollowerKeepsUp
<1> QED
  BY <1>5, <1>6 DEF DeltaInv

\* A restart forgets the memory and the look together.
LEMMA RestartKeepsInv == DeltaInv /\ Restart => DeltaInv'
  BY DEF Restart, schoolVars, DeltaInv, InYear, OneName, LessonsTyped, FollowerKeepsUp, Memory, Known, Empty

\* The school moves on; nobody has looked yet.
LEMMA SchoolKeepsInv ==
    ASSUME DeltaInv,
           \/ Post \/ NextTerm
           \/ \E t \in Threads : Send(t) \/ ReadElsewhere(t) \/ Relabel(t)
           \/ \E l \in Lessons : Reschedule(l)
    PROVE  DeltaInv'
<1>1. OnlyAtSchool /\ period' \in Periods
  BY DEF Post, NextTerm, Send, ReadElsewhere, Relabel, Reschedule, DeltaInv, InYear
<1>2. UNCHANGED <<topic, id, factsPeriod, seenIds, lessonSignatures, picture, board>> /\ Known' = Known
  BY <1>1 DEF OnlyAtSchool, memoryVars, historyVars, Known
<1>3. \A l \in DOMAIN lesson' : lesson'[l] \in LessonFacts
  <2>1. CASE lesson' = lesson
    BY <2>1 DEF DeltaInv, LessonsTyped
  <2>2. ASSUME NEW l \in Lessons, Reschedule(l) PROVE \A k \in DOMAIN lesson' : lesson'[k] \in LessonFacts
    BY <2>2 DEF Reschedule, With, Without, DeltaInv, LessonsTyped
  <2> QED
    BY <2>1, <2>2 DEF Post, NextTerm, Send, ReadElsewhere, Relabel
<1> QED
  BY <1>1, <1>2, <1>3 DEF DeltaInv, InYear, OneName, LessonsTyped, FollowerKeepsUp, Memory

\* What is remembered under the present name is the last look, always.
LEMMA Invariance == Spec => []DeltaInv
<1>1. Init => DeltaInv
  BY InvInit
<1>2. DeltaInv /\ [Next]_vars => DeltaInv'
  <2> SUFFICES ASSUME DeltaInv, [Next]_vars PROVE DeltaInv'
    OBVIOUS
  <2>1. ASSUME NEW opened, NEW readable, CollectDiscussions(opened, readable) PROVE DeltaInv'
    BY <2>1 DEF CollectDiscussions, schoolVars, DeltaInv, InYear, OneName, LessonsTyped, FollowerKeepsUp, Memory, Known
  <2>2. CASE UNCHANGED vars
    BY <2>2 DEF vars, schoolVars, memoryVars, historyVars, DeltaInv, InYear, OneName, LessonsTyped,
       FollowerKeepsUp, Memory, Known
  <2> QED
    BY <2>1, <2>2, ItemsKeepInv, LessonsKeepInv, RenameKeepsInv, RestartKeepsInv, SchoolKeepsInv DEF Next
<1> QED
  BY <1>1, <1>2, PTL DEF Spec

-----------------------------------------------------------------------------
(* The theorems about items and lessons.                                   *)

\* Whatever happens to a lesson, whatever facts it may show and whatever the child is
\* called, the events of a lesson carry enough to know it (delta.timetable).
THEOREM Follower == Spec => []FollowerKeepsUp
<1>1. DeltaInv => FollowerKeepsUp
  BY DEF DeltaInv
<1> QED
  BY <1>1, Invariance, PTL

\* For any number of items, collections and terms: what is announced of a collection is what
\* is listed and was not when it was last looked at (_new_ids, rename).
THEOREM Arrivals == Spec => ArrivalsAnnounced
<1>1. ASSUME DeltaInv, CollectItems, NEW c \in CollectionsOf[topic]
      PROVE  {e[2] : e \in {e \in events' : e[1] = Asked(c)}} =
               IF Asked(c) \in DOMAIN board THEN listed[Asked(c)] \ board[Asked(c)] ELSE {}
  <2> DEFINE answers == {Asked(k) : k \in CollectionsOf[topic]}
  <2>1. Asked(c) \in answers /\ Asked(c) \in Keys
    BY <1>1, AskedKeys DEF DeltaInv, CollectItems
  <2>2. events' = UNION {{<<key, i>> : i \in NewIds(key, listed[key])} : key \in answers}
    BY <1>1 DEF CollectItems
  <2> HIDE DEF answers
  <2>3. {e[2] : e \in {e \in events' : e[1] = Asked(c)}} = NewIds(Asked(c), listed[Asked(c)])
    <3> DEFINE key == Asked(c)
    <3>1. ASSUME NEW i \in NewIds(key, listed[key])
          PROVE  <<key, i>> \in events' /\ <<key, i>>[1] = key /\ <<key, i>>[2] = i
      BY <2>1, <2>2
    <3>2. ASSUME NEW e \in events', e[1] = key PROVE e[2] \in NewIds(key, listed[key])
      <4>1. PICK k \in answers : e \in {<<k, i>> : i \in NewIds(k, listed[k])}
        BY <2>2
      <4>2. PICK i \in NewIds(k, listed[k]) : e = <<k, i>>
        BY <4>1
      <4> QED
        BY <3>2, <4>2
    <3> HIDE DEF key
    <3> QED
      BY <3>1, <3>2 DEF key
  <2>4. Asked(c) \in DOMAIN board => board[Asked(c)] = seenIds[<<id, Asked(c)>>]
    BY <1>1 DEF DeltaInv, Memory
  <2>5. Asked(c) \in DOMAIN board <=> <<id, Asked(c)>> \in DOMAIN seenIds
    BY <1>1, <2>1 DEF DeltaInv, Memory
  <2> QED
    BY <2>3, <2>4, <2>5 DEF NewIds, FirstPass
<1>2. DeltaInv /\ [Next]_vars =>
        [CollectItems =>
           \A c \in CollectionsOf[topic] :
              {e[2] : e \in {e \in events' : e[1] = Asked(c)}} =
                IF Asked(c) \in DOMAIN board THEN listed[Asked(c)] \ board[Asked(c)] ELSE {}]_vars
  BY <1>1
<1> QED
  BY <1>2, Invariance, PTL DEF Spec, ArrivalsAnnounced

-----------------------------------------------------------------------------
(* The messages.                                                           *)

ThreadSet == [shown : BOOLEAN, sent : Nat, unread : Nat]
Counts == IF id \in DOMAIN unread THEN unread[id] ELSE Empty

\* The counts under the present name are those of the last look; since then no more
\* messages became unread than were sent, and what was told was sent before it.
TalkInv ==
    /\ id \in Nat /\ DOMAIN unread \subseteq {id}
    /\ thread \in [Threads -> ThreadSet]
    /\ DOMAIN heard = DOMAIN Counts /\ DOMAIN atLastLook = DOMAIN Counts
    /\ \A t \in DOMAIN Counts :
        /\ t \in Threads /\ Counts[t] \in Nat /\ atLastLook[t] \in Nat
        /\ heard[t] \subseteq 1 .. atLastLook[t] /\ atLastLook[t] <= thread[t].sent
        /\ thread[t].unread - Counts[t] <= thread[t].sent - atLastLook[t]

ToldOf(t) == {e[2] : e \in {e \in events' : e[1] = t}}

\* What a look announces of a thread: messages that came after the count it is
\* counted from, or one event for the whole thread (_message_events).
LEMMA OnlyNewest ==
    ASSUME NEW opened, NEW readable, CollectDiscussions(opened, readable), NEW t
    PROVE  IF Primed /\ t \in Shown /\ Arrived(t)
           THEN ToldOf(t) = IF t \in readable THEN Newest(t, thread[t].unread - CountedFrom(t)) ELSE {NoAuthor}
           ELSE ToldOf(t) = {}
<1> DEFINE active == {s \in Shown : Arrived(s)}
           messages == IF t \in readable THEN Newest(t, thread[t].unread - CountedFrom(t)) ELSE {NoAuthor}
<1>1. events' = IF Primed THEN UNION {MessageEvents(s, readable) : s \in active} ELSE {}
  BY DEF CollectDiscussions
<1>2. ASSUME NEW s, NEW e \in MessageEvents(s, readable) PROVE e[1] = s
  <2>1. CASE s \in readable
    <3>1. PICK m \in Newest(s, thread[s].unread - CountedFrom(s)) : e = <<s, Author(m)>>
      BY <1>2, <2>1 DEF MessageEvents
    <3> QED BY <3>1
  <2>2. CASE s \notin readable
    BY <1>2, <2>2 DEF MessageEvents
  <2> QED BY <2>1, <2>2
<1>3. {e[2] : e \in MessageEvents(t, readable)} = messages
  <2>1. ASSUME NEW e \in MessageEvents(t, readable) PROVE e[2] \in messages
    <3>1. CASE t \in readable
      <4>1. PICK m \in Newest(t, thread[t].unread - CountedFrom(t)) : e = <<t, Author(m)>>
        BY <2>1, <3>1 DEF MessageEvents
      <4> QED BY <3>1, <4>1 DEF Author
    <3>2. CASE t \notin readable
      BY <2>1, <3>2 DEF MessageEvents
    <3> QED BY <3>1, <3>2
  <2>2. ASSUME NEW m \in messages PROVE \E e \in MessageEvents(t, readable) : m = e[2]
    <3>1. <<t, m>> \in MessageEvents(t, readable) /\ <<t, m>>[2] = m
      BY <2>2 DEF MessageEvents, Author
    <3> QED BY <3>1
  <2> QED BY <2>1, <2>2
<1> HIDE DEF active, messages
<1>4. CASE Primed /\ t \in active
  <2>1. {e \in events' : e[1] = t} = MessageEvents(t, readable)
    BY <1>1, <1>2, <1>4
  <2> QED BY <1>3, <1>4, <2>1 DEF ToldOf, active, messages
<1>5. CASE ~(Primed /\ t \in active)
  <2>1. {e \in events' : e[1] = t} = {}
    BY <1>1, <1>2, <1>5
  <2> QED BY <1>5, <2>1 DEF ToldOf, active
<1> QED BY <1>4, <1>5

\* The newest messages are as many as asked for, and the last ones sent.
LEMMA AsMany ==
    ASSUME TalkInv, NEW t \in Threads, NEW n \in Nat
    PROVE  IsFiniteSet(Newest(t, n)) /\ Cardinality(Newest(t, n)) <= n /\ Cardinality(Newest(t, n)) \in Nat
<1> DEFINE sent == thread[t].sent  last == (sent - n + 1) .. sent
<1>1. sent \in Nat
  BY DEF TalkInv, ThreadSet
<1>2. IsFiniteSet(last) /\ Cardinality(last) = IF sent - n + 1 > sent THEN 0 ELSE sent - (sent - n + 1) + 1
  <2>1. sent - n + 1 \in Int /\ sent \in Int
    BY <1>1
  <2> HIDE DEF sent
  <2> QED BY <2>1, FS_Interval
<1>3. Newest(t, n) \subseteq last
  BY <1>1 DEF Newest
<1>4. Cardinality(last) = n
  BY <1>1, <1>2
<1> HIDE DEF last
<1> QED BY <1>2, <1>3, <1>4, FS_Subset, FS_CardinalityType

\* A look tells of a thread no message told before, and as many as were sent or
\* as a thread that turns up may have.
LEMMA LookTells ==
    ASSUME TalkInv, NEW opened, NEW readable, CollectDiscussions(opened, readable), NEW t \in Threads
    PROVE  /\ t \in DOMAIN heard => ToldOf(t) \intersect heard[t] = {}
           /\ Cardinality(ToldOf(t)) <=
                IF t \in DOMAIN atLastLook THEN thread[t].sent - atLastLook[t]
                ELSE IF atLastLook # Empty \/ Primed THEN NewThreadCap ELSE 0
<1> DEFINE seen == t \in DOMAIN Counts
           n == thread[t].unread - CountedFrom(t)
<1>1. /\ thread[t].sent \in Nat /\ thread[t].unread \in Nat /\ NewThreadCap \in Nat
      /\ DOMAIN heard = DOMAIN Counts /\ DOMAIN atLastLook = DOMAIN Counts
  BY DeltaAssumption DEF TalkInv, ThreadSet
<1>2. seen => /\ Counts[t] \in Nat /\ atLastLook[t] \in Nat /\ heard[t] \subseteq 1 .. atLastLook[t]
              /\ atLastLook[t] <= thread[t].sent
              /\ thread[t].unread - Counts[t] <= thread[t].sent - atLastLook[t]
  BY DEF TalkInv
<1>3. Cardinality({}) = 0
  BY FS_EmptySet
<1>4. CASE ~(Primed /\ t \in Shown /\ Arrived(t))
  <2>1. ToldOf(t) = {}
    BY <1>4, OnlyNewest
  <2> QED BY <1>1, <1>2, <1>3, <2>1
<1>5. CASE Primed /\ t \in Shown /\ Arrived(t)
  <2>1. Counts = unread[id] /\ (seen <=> ~FirstSighting(t))
    BY <1>5 DEF Primed, Counts, FirstSighting
  <2>2. /\ n \in Nat /\ n > 0
        /\ seen => n = thread[t].unread - Counts[t]
        /\ ~seen => n <= NewThreadCap
    BY <1>1, <1>2, <1>5, <2>1 DEF CountedFrom, Arrived
  <2>3. ToldOf(t) = IF t \in readable THEN Newest(t, n) ELSE {NoAuthor}
    BY <1>5, OnlyNewest
  <2> HIDE DEF n, seen
  <2>4. Cardinality(ToldOf(t)) <= n /\ Cardinality(ToldOf(t)) \in Nat
    <3>1. CASE t \in readable
      BY <2>2, <2>3, <3>1, AsMany
    <3>2. CASE t \notin readable
      <4>1. Cardinality({NoAuthor}) = 1
        BY FS_Singleton
      <4> QED BY <2>2, <2>3, <3>2, <4>1
    <3> QED BY <3>1, <3>2
  <2>5. seen => ToldOf(t) \intersect heard[t] = {}
    <3> SUFFICES ASSUME seen, NEW m \in ToldOf(t), m \in heard[t] PROVE FALSE
      OBVIOUS
    <3>1. m \in 1 .. atLastLook[t]
      BY <1>2
    <3>2. m \in Newest(t, n) \/ m = NoAuthor
      BY <2>3
    <3>3. m > thread[t].sent - n
      BY <3>1, <3>2 DEF Newest, NoAuthor
    <3> QED BY <1>1, <1>2, <2>2, <3>1, <3>3
  <2>6. Cardinality(ToldOf(t)) <=
          IF t \in DOMAIN atLastLook THEN thread[t].sent - atLastLook[t]
          ELSE IF atLastLook # Empty \/ Primed THEN NewThreadCap ELSE 0
    <3>1. CASE seen
      BY <1>1, <1>2, <2>2, <2>4, <3>1 DEF seen
    <3>2. CASE ~seen
      BY <1>1, <1>5, <2>2, <2>4, <3>2 DEF seen
    <3> QED BY <3>1, <3>2
  <2> QED BY <1>1, <2>5, <2>6 DEF seen
<1> QED BY <1>4, <1>5

\* A look counts everything anew.
LEMMA LookKeepsTalk ==
    ASSUME TalkInv, NEW opened, NEW readable, CollectDiscussions(opened, readable)
    PROVE  TalkInv'
<1>1. UNCHANGED <<id, thread>> /\ unread' = With(unread, id, [t \in Shown |-> thread[t].unread])
  BY DEF CollectDiscussions, schoolVars
<1>2. /\ id \in DOMAIN unread' /\ DOMAIN unread' \subseteq {id}
      /\ unread'[id] = [t \in Shown |-> thread[t].unread]
  BY <1>1 DEF With, TalkInv
<1>3. Counts' = [t \in Shown |-> thread[t].unread]
  BY <1>1, <1>2 DEF Counts
<1>4. /\ heard' = [t \in Shown |-> (IF t \in DOMAIN heard THEN heard[t] ELSE {})
                     \union {m \in 1 .. thread[t].sent : <<t, m>> \in events'}]
      /\ atLastLook' = [t \in Shown |-> thread[t].sent]
  BY DEF CollectDiscussions
<1>5. ASSUME NEW t \in Shown
      PROVE  /\ t \in Threads /\ Counts'[t] \in Nat /\ atLastLook'[t] \in Nat
             /\ heard'[t] \subseteq 1 .. atLastLook'[t] /\ atLastLook'[t] <= thread[t].sent
             /\ thread[t].unread - Counts'[t] <= thread[t].sent - atLastLook'[t]
  <2>1. t \in Threads /\ thread[t].sent \in Nat /\ thread[t].unread \in Nat
    BY DEF Shown, TalkInv, ThreadSet
  <2>2. Counts'[t] = thread[t].unread /\ atLastLook'[t] = thread[t].sent
    BY <1>3, <1>4
  <2>3. t \in DOMAIN heard => heard[t] \subseteq 1 .. thread[t].sent
    <3> SUFFICES ASSUME t \in DOMAIN heard, NEW m \in heard[t] PROVE m \in 1 .. thread[t].sent
      OBVIOUS
    <3>1. atLastLook[t] \in Nat /\ m \in 1 .. atLastLook[t] /\ atLastLook[t] <= thread[t].sent
      BY DEF TalkInv
    <3> QED BY <2>1, <3>1
  <2> QED BY <1>4, <2>1, <2>2, <2>3
<1> QED BY <1>1, <1>2, <1>3, <1>4, <1>5 DEF TalkInv

\* A message is sent and unread, or read somewhere, between two looks.
LEMMA SchoolKeepsTalk ==
    ASSUME TalkInv, NEW t \in Threads, Send(t) \/ ReadElsewhere(t) \/ Relabel(t)
    PROVE  TalkInv'
<1>1. UNCHANGED <<id, unread, heard, atLastLook>> /\ Counts' = Counts
  BY DEF Send, ReadElsewhere, Relabel, OnlyAtSchool, memoryVars, historyVars, Counts
<1>2. /\ thread[t] \in ThreadSet /\ thread \in [Threads -> ThreadSet]
      /\ thread[t].sent \in Nat /\ thread[t].unread \in Nat /\ thread[t].shown \in BOOLEAN
  BY DEF TalkInv, ThreadSet
<1>3. /\ thread' \in [Threads -> ThreadSet] /\ \A s \in Threads : s # t => thread'[s] = thread[s]
      /\ thread'[t].sent >= thread[t].sent
      /\ thread'[t].sent - thread'[t].unread >= thread[t].sent - thread[t].unread
  <2>1. CASE Send(t)
    <3>1. thread' = [thread EXCEPT ![t] = [thread[t] EXCEPT !.sent = @ + 1, !.unread = @ + 1]]
      BY <1>2, <2>1 DEF Send
    <3>2. [thread[t] EXCEPT !.sent = @ + 1, !.unread = @ + 1] \in ThreadSet
      <4>1. \A r \in ThreadSet : \A n, m \in Nat :
               [r EXCEPT !.sent = n, !.unread = m] \in ThreadSet
        BY DEF ThreadSet
      <4>2. thread[t].sent + 1 \in Nat /\ thread[t].unread + 1 \in Nat
        BY <1>2
      <4> QED BY <1>2, <4>1, <4>2
    <3>3. thread'[t].sent = thread[t].sent + 1 /\ thread'[t].unread = thread[t].unread + 1
      BY <1>2, <3>1 DEF ThreadSet
    <3> QED BY <1>2, <3>1, <3>2, <3>3
  <2>2. CASE ReadElsewhere(t)
    <3>1. PICK n \in 0 .. thread[t].unread - 1 : thread' = [thread EXCEPT ![t].unread = n]
      BY <2>2 DEF ReadElsewhere
    <3>2. n \in Nat /\ n <= thread[t].unread /\ [thread[t] EXCEPT !.unread = n] \in ThreadSet
      BY <1>2, <3>1 DEF ThreadSet
    <3>3. thread'[t].sent = thread[t].sent /\ thread'[t].unread = n
      BY <1>2, <3>1 DEF ThreadSet
    <3> QED BY <1>2, <3>1, <3>2, <3>3
  <2>3. CASE Relabel(t)
    <3>1. thread' = [thread EXCEPT ![t].shown = ~@] /\ [thread[t] EXCEPT !.shown = ~@] \in ThreadSet
      BY <1>2, <2>3 DEF Relabel, ThreadSet
    <3>2. thread'[t].sent = thread[t].sent /\ thread'[t].unread = thread[t].unread
      BY <1>2, <3>1 DEF ThreadSet
    <3> QED BY <1>2, <3>1, <3>2
  <2> QED BY <2>1, <2>2, <2>3
<1>4. ASSUME NEW s \in DOMAIN Counts
      PROVE  /\ atLastLook[s] <= thread'[s].sent
             /\ thread'[s].unread - Counts[s] <= thread'[s].sent - atLastLook[s]
  <2>1. /\ s \in Threads /\ Counts[s] \in Nat /\ atLastLook[s] \in Nat /\ atLastLook[s] <= thread[s].sent
        /\ thread[s].unread - Counts[s] <= thread[s].sent - atLastLook[s]
    BY DEF TalkInv
  <2>2. CASE s # t
    BY <1>3, <2>1, <2>2
  <2>3. CASE s = t
    <3>1. thread'[t].sent \in Nat /\ thread'[t].unread \in Nat
      BY <1>3 DEF ThreadSet
    <3> QED BY <1>2, <1>3, <2>1, <2>3, <3>1
  <2> QED BY <2>2, <2>3
<1> QED BY <1>1, <1>3, <1>4 DEF TalkInv

\* What is remembered of the threads is the last look, always.
LEMMA TalkInvariance == Spec => []TalkInv
<1>1. ASSUME Init PROVE TalkInv
  <2>1. Counts = Empty /\ DOMAIN Empty = {}
    BY <1>1 DEF Init, Counts, Empty
  <2>2. thread \in [Threads -> ThreadSet]
    <3>1. [shown : {TRUE}, sent : {0}, unread : {0}] \subseteq ThreadSet
      <4> SUFFICES ASSUME NEW n \in [shown : {TRUE}, sent : {0}, unread : {0}] PROVE n \in ThreadSet
        OBVIOUS
      <4>1. n = [shown |-> TRUE, sent |-> 0, unread |-> 0]
        OBVIOUS
      <4> QED BY <4>1 DEF ThreadSet
    <3> QED BY <1>1, <3>1 DEF Init
  <2> QED BY <1>1, <2>1, <2>2 DEF Init, TalkInv
<1>2. TalkInv /\ [Next]_vars => TalkInv'
  <2> SUFFICES ASSUME TalkInv, [Next]_vars PROVE TalkInv'
    OBVIOUS
  <2>1. ASSUME UNCHANGED <<id, unread, thread, heard, atLastLook>> PROVE TalkInv'
    BY <2>1 DEF TalkInv, Counts
  <2>2. ASSUME NEW opened, NEW readable, CollectDiscussions(opened, readable) PROVE TalkInv'
    BY <2>2, LookKeepsTalk
  <2>3. ASSUME NEW t \in Threads, Send(t) \/ ReadElsewhere(t) \/ Relabel(t) PROVE TalkInv'
    BY <2>3, SchoolKeepsTalk
  <2>4. CASE Rename
    <3>1. /\ UNCHANGED <<thread, heard, atLastLook>> /\ id' = id + 1 /\ id \in Nat
          /\ unread' = MoveKey(unread, id, id') /\ DOMAIN unread \subseteq {id}
      BY <2>4 DEF Rename, historyVars, TalkInv
    <3>2. Counts' = Counts /\ DOMAIN unread' \subseteq {id'}
      BY <3>1 DEF Counts, MoveKey
    <3> QED BY <3>1, <3>2 DEF TalkInv
  <2>5. CASE Restart
    <3>1. /\ UNCHANGED <<id, thread>> /\ unread' = Empty /\ heard' = Empty /\ atLastLook' = Empty
          /\ DOMAIN Empty = {}
      BY <2>5 DEF Restart, schoolVars, Empty
    <3>2. Counts' = Empty
      BY <3>1 DEF Counts
    <3> QED BY <3>1, <3>2 DEF TalkInv
  <2>6. CASE CollectItems \/ CollectTimetable \/ Post \/ NextTerm \/ (\E l \in Lessons : Reschedule(l))
             \/ UNCHANGED vars
    BY <2>1, <2>6 DEF CollectItems, CollectTimetable, Post, NextTerm, Reschedule, OnlyAtSchool, vars,
       schoolVars, memoryVars, historyVars
  <2> QED BY <2>2, <2>3, <2>4, <2>5, <2>6 DEF Next
<1> QED BY <1>1, <1>2, PTL DEF Spec

\* For any threads, whatever is read elsewhere, hidden, opened or readable, and however
\* often the child is renamed: no message is told twice, and no more of them than were
\* sent (discussions, _message_events).
THEOREM ToldOnce == Spec => MessagesToldOnce
<1>1. TalkInv /\ [Next]_vars =>
        [\A opened \in SUBSET Threads : \A readable \in SUBSET opened :
           CollectDiscussions(opened, readable) =>
             \A t \in Threads :
                LET told == {e[2] : e \in {e \in events' : e[1] = t}}
                IN  /\ t \in DOMAIN heard => told \intersect heard[t] = {}
                    /\ Cardinality(told) <=
                         IF t \in DOMAIN atLastLook THEN thread[t].sent - atLastLook[t]
                         ELSE IF atLastLook # Empty \/ Primed THEN NewThreadCap ELSE 0]_vars
  BY LookTells DEF ToldOf
<1> QED
  BY <1>1, TalkInvariance, PTL DEF Spec, MessagesToldOnce

-----------------------------------------------------------------------------
(* The change detector is well typed.                                      *)

\* Its variables have their types, and the school's tables have the rows they have.
TypeInv ==
    /\ TypeOK
    /\ listed = [key \in Keys |-> listed[key]]
    /\ thread \in [Threads -> ThreadSet]

\* No thread holds more messages than were sent.
LEMMA SentBound ==
    ASSUME thread \in [Threads -> ThreadSet], NEW t \in Threads
    PROVE  Cardinality(Sent) \in Nat /\ thread[t].sent <= Cardinality(Sent)
<1> DEFINE ofThread(s) == {s} \X (1 .. thread[s].sent)
           f == [s \in Threads |-> ofThread(s)]
           groups == {ofThread(s) : s \in Threads}
<1>1. ASSUME NEW s \in Threads
      PROVE  IsFiniteSet(ofThread(s)) /\ Cardinality(ofThread(s)) = thread[s].sent
  <2>1. thread[s].sent \in Nat
    BY DEF ThreadSet
  <2> DEFINE n == thread[s].sent
  <2> HIDE DEF n
  <2>2. n \in Nat
    BY <2>1 DEF n
  <2>3. IsFiniteSet(1 .. n) /\ Cardinality(1 .. n) = n
    BY <2>2, FS_Interval
  <2>4. IsFiniteSet({s}) /\ Cardinality({s}) = 1
    BY FS_Singleton
  <2> DEFINE one == {s}
             rest == 1 .. n
  <2>5. IsFiniteSet(one \X rest) /\ Cardinality(one \X rest) = 1 * n
    <3>1. IsFiniteSet(one) /\ Cardinality(one) = 1 /\ IsFiniteSet(rest) /\ Cardinality(rest) = n
      BY <2>3, <2>4
    <3> HIDE DEF one, rest
    <3>2. /\ IsFiniteSet(one \X rest)
          /\ Cardinality(one \X rest) = Cardinality(one) * Cardinality(rest)
      BY <3>1, FS_Product, Zenon
    <3> QED BY <3>1, <3>2
  <2> QED BY <2>2, <2>5 DEF n
<1>2. IsFiniteSet(groups)
  <2>1. f \in Surjection(Threads, groups)
    <3>1. f \in [Threads -> groups] /\ \A g \in groups : \E s \in Threads : f[s] = g
      BY Zenon
    <3> QED BY <3>1 DEF Surjection
  <2> HIDE DEF f, groups
  <2> QED BY <2>1, DeltaAssumption, FS_Surjection
<1>3. IsFiniteSet(Sent)
  <2>1. \A g \in groups : IsFiniteSet(g)
    BY <1>1
  <2>2. Sent = UNION groups
    BY DEF Sent
  <2> HIDE DEF groups
  <2> QED BY <1>2, <2>1, <2>2, FS_UNION
<1>4. ofThread(t) \in SUBSET Sent
  BY DEF Sent
<1>5. Cardinality(ofThread(t)) <= Cardinality(Sent)
  <2> HIDE DEF ofThread
  <2> QED BY <1>3, <1>4, FS_Subset
<1> QED BY <1>1, <1>3, <1>5, FS_CardinalityType

\* A collection is listed under its own name, and the term.
LEMMA KeyOf ==
    ASSUME NEW c \in Collections, NEW p \in Periods
    PROVE  Key(c, p) \in Keys /\ Key(c, p)[1] = c
  BY DEF Keys, Key

\* A look at the items remembers what is listed of them.
LEMMA ItemsKeepTypes == TypeInv /\ CollectItems => TypeInv'
<1> SUFFICES ASSUME TypeInv, CollectItems PROVE TypeInv'
  OBVIOUS
<1> DEFINE answers == {Asked(c) : c \in CollectionsOf[topic]}
<1>1. answers \subseteq Keys
  <2>1. InYear /\ topic \in ItemTiers
    BY DEF InYear, TypeInv, TypeOK, CollectItems
  <2> QED BY <2>1, AskedKeys
<1>2. /\ UNCHANGED <<topic, id, period, factsPeriod, listed, thread, lesson, lessonSignatures, unread, baseline>>
      /\ seenIds' = [k \in DOMAIN seenIds \union {<<id, key>> : key \in answers} |->
                       IF k[1] = id /\ k[2] \in answers THEN listed[k[2]] ELSE seenIds[k]]
  BY DEF CollectItems, schoolVars, Remembered
<1> HIDE DEF answers
<1>3. \A k \in DOMAIN seenIds' : k[1] = id /\ k[2] \in Keys /\ seenIds'[k] \subseteq ItemsOf[k[2][1]]
  <2> SUFFICES ASSUME NEW k \in DOMAIN seenIds'
               PROVE  k[1] = id /\ k[2] \in Keys /\ seenIds'[k] \subseteq ItemsOf[k[2][1]]
    OBVIOUS
  <2>1. k[1] = id /\ k[2] \in Keys
    BY <1>1, <1>2 DEF TypeInv, TypeOK
  <2>2. CASE k[2] \in answers
    <3>1. seenIds'[k] = listed[k[2]]
      BY <1>2, <2>1, <2>2
    <3> QED BY <2>1, <3>1 DEF TypeInv, TypeOK
  <2>3. CASE k[2] \notin answers
    <3>1. k \in DOMAIN seenIds /\ seenIds'[k] = seenIds[k]
      <4>1. k \notin {<<id, key>> : key \in answers}
        BY <2>3
      <4> QED BY <1>2, <2>3, <4>1
    <3> QED BY <2>1, <3>1 DEF TypeInv, TypeOK
  <2> QED BY <2>2, <2>3
<1> QED BY <1>2, <1>3 DEF TypeInv, TypeOK

\* A renaming moves the memory and leaves the school.
LEMMA RenameKeepsTypes == TypeInv /\ DeltaInv /\ Rename => TypeInv'
<1> SUFFICES ASSUME TypeInv, DeltaInv, Rename PROVE TypeInv'
  OBVIOUS
<1>1. /\ UNCHANGED <<topic, period, listed, thread, lesson, baseline>> /\ factsPeriod' = period
      /\ id' = id + 1 /\ id \in Nat /\ id' \in 1 .. MaxIds /\ id' # id
  <2>1. MaxIds \in Nat /\ id \in 1 .. MaxIds
    BY DeltaAssumption DEF TypeInv, TypeOK
  <2> QED BY <2>1 DEF Rename
<1>2. /\ seenIds' = MoveSeen(seenIds, id, id') /\ unread' = MoveKey(unread, id, id')
      /\ lessonSignatures' = MoveKey(lessonSignatures, id, id')
  BY DEF Rename
<1>3. DOMAIN unread' \subseteq {id'} /\ DOMAIN lessonSignatures' \subseteq {id'}
  BY <1>1, <1>2 DEF MoveKey, TypeInv, TypeOK
<1>4. DOMAIN baseline' \subseteq 1 .. id'
  BY <1>1 DEF TypeInv, TypeOK
<1>5. \A k \in DOMAIN seenIds' : k[1] = id' /\ k[2] \in Keys /\ seenIds'[k] \subseteq ItemsOf[k[2][1]]
  <2> SUFFICES ASSUME NEW k \in DOMAIN seenIds'
               PROVE  k[1] = id' /\ k[2] \in Keys /\ seenIds'[k] \subseteq ItemsOf[k[2][1]]
    OBVIOUS
  <2>1. PICK was \in DOMAIN seenIds : k = <<IF was[1] = id THEN id' ELSE was[1], was[2]>>
    BY <1>2 DEF MoveSeen
  <2>2. was[1] = id /\ was[2] \in Keys
    BY DEF TypeInv, TypeOK
  <2>3. k[1] = id' /\ k[2] = was[2]
    BY <2>1, <2>2
  <2>4. seenIds'[k] = seenIds[<<id, k[2]>>]
    BY <1>2, <2>3 DEF MoveSeen
  <2>5. was = <<id, k[2]>>
    <3>1. was \in {id} \X Keys
      BY DEF DeltaInv, OneName
    <3> QED BY <2>2, <2>3, <3>1
  <2> QED BY <2>2, <2>3, <2>4, <2>5 DEF TypeInv, TypeOK
<1> QED BY <1>1, <1>3, <1>4, <1>5 DEF TypeInv, TypeOK

\* The school publishes what it may publish.
LEMMA SchoolKeepsTypes ==
    ASSUME TypeInv,
           \/ Post \/ NextTerm
           \/ \E t \in Threads : Send(t) \/ ReadElsewhere(t) \/ Relabel(t)
           \/ \E l \in Lessons : Reschedule(l)
    PROVE  TypeInv'
<1>1. /\ UNCHANGED <<topic, id, factsPeriod, baseline, seenIds, unread, lessonSignatures>>
  BY DEF Post, NextTerm, Send, ReadElsewhere, Relabel, Reschedule, OnlyAtSchool, memoryVars
<1>2. CASE Post
  <2>1. UNCHANGED <<period, thread, lesson>> /\ topic \in ItemTiers
    BY <1>2 DEF Post
  <2>2. PICK c \in CollectionsOf[topic] : \E i \in ItemsOf[c] :
          listed' = [listed EXCEPT ![Key(c, period)] = IF i \in @ THEN @ \ {i} ELSE @ \union {i}]
    BY <1>2 DEF Post
  <2>3. PICK i \in ItemsOf[c] :
          listed' = [listed EXCEPT ![Key(c, period)] = IF i \in @ THEN @ \ {i} ELSE @ \union {i}]
    BY <2>2
  <2>4. Key(c, period) \in Keys /\ Key(c, period)[1] = c
    <3>1. c \in Collections /\ period \in Periods
      BY <2>1, DeltaAssumption DEF Collections, TypeInv, TypeOK
    <3> QED BY <3>1, KeyOf
  <2>5. listed' = [key \in Keys |-> listed'[key]]
    BY <2>3 DEF TypeInv
  <2>6. \A key \in Keys : listed'[key] \subseteq ItemsOf[key[1]]
    BY <2>3, <2>4 DEF TypeInv, TypeOK
  <2> QED BY <1>1, <2>1, <2>5, <2>6 DEF TypeInv, TypeOK
<1>3. CASE NextTerm
  BY <1>1, <1>3 DEF NextTerm, TypeInv, TypeOK
<1>4. ASSUME NEW t \in Threads, Send(t) \/ ReadElsewhere(t) \/ Relabel(t) PROVE TypeInv'
  <2>1. UNCHANGED <<period, listed, lesson>>
    BY <1>4 DEF Send, ReadElsewhere, Relabel
  <2>2. /\ thread \in [Threads -> ThreadSet] /\ thread[t] \in ThreadSet
        /\ thread[t].sent \in 0 .. MaxSent /\ thread[t].unread \in 0 .. thread[t].sent
        /\ thread[t].shown \in BOOLEAN /\ MaxSent \in Nat
    BY DeltaAssumption DEF TypeInv, TypeOK, ThreadSet
  <2>3. /\ thread' \in [Threads -> ThreadSet] /\ \A s \in Threads : s # t => thread'[s] = thread[s]
        /\ thread'[t].sent \in 0 .. MaxSent /\ thread'[t].unread \in 0 .. thread'[t].sent
    <3>1. CASE Send(t)
      <4>1. thread' = [thread EXCEPT ![t] = [thread[t] EXCEPT !.sent = @ + 1, !.unread = @ + 1]]
        BY <2>2, <3>1 DEF Send
      <4>2. [thread[t] EXCEPT !.sent = @ + 1, !.unread = @ + 1] \in ThreadSet
        <5>1. \A r \in ThreadSet : \A n, m \in Nat :
                 [r EXCEPT !.sent = n, !.unread = m] \in ThreadSet
          BY DEF ThreadSet
        <5>2. thread[t].sent + 1 \in Nat /\ thread[t].unread + 1 \in Nat
          BY <2>2
        <5> QED BY <2>2, <5>1, <5>2
      <4>3. thread'[t].sent = thread[t].sent + 1 /\ thread'[t].unread = thread[t].unread + 1
        BY <2>2, <4>1 DEF ThreadSet
      <4>4. thread[t].sent < MaxSent
        <5>1. Cardinality(Sent) \in Nat /\ thread[t].sent <= Cardinality(Sent)
          BY <2>2, SentBound
        <5>2. Cardinality(Sent) < MaxSent
          BY <3>1 DEF Send
        <5> QED BY <2>2, <5>1, <5>2
      <4> QED BY <2>2, <4>1, <4>2, <4>3, <4>4
    <3>2. CASE ReadElsewhere(t)
      <4>1. PICK n \in 0 .. thread[t].unread - 1 : thread' = [thread EXCEPT ![t].unread = n]
        BY <3>2 DEF ReadElsewhere
      <4>2. n \in Nat /\ n <= thread[t].unread /\ [thread[t] EXCEPT !.unread = n] \in ThreadSet
        BY <2>2, <4>1 DEF ThreadSet
      <4>3. thread'[t].sent = thread[t].sent /\ thread'[t].unread = n
        BY <2>2, <4>1 DEF ThreadSet
      <4> QED BY <2>2, <4>1, <4>2, <4>3
    <3>3. CASE Relabel(t)
      <4>1. thread' = [thread EXCEPT ![t].shown = ~@] /\ [thread[t] EXCEPT !.shown = ~@] \in ThreadSet
        BY <2>2, <3>3 DEF Relabel, ThreadSet
      <4>2. thread'[t].sent = thread[t].sent /\ thread'[t].unread = thread[t].unread
        BY <2>2, <4>1 DEF ThreadSet
      <4> QED BY <2>2, <4>1, <4>2
    <3> QED BY <1>4, <3>1, <3>2, <3>3
  <2>4. \A s \in Threads : thread'[s].sent \in 0 .. MaxSent /\ thread'[s].unread \in 0 .. thread'[s].sent
    BY <2>3 DEF TypeInv, TypeOK
  <2> QED BY <1>1, <2>1, <2>3, <2>4 DEF TypeInv, TypeOK
<1>5. ASSUME NEW l \in Lessons, Reschedule(l) PROVE TypeInv'
  <2>1. UNCHANGED <<period, listed, thread>>
    BY <1>5 DEF Reschedule
  <2>2. \A k \in DOMAIN lesson' : k \in Lessons /\ lesson'[k] \in LessonFacts
    BY <1>5 DEF Reschedule, With, Without, TypeInv, TypeOK
  <2> QED BY <1>1, <2>1, <2>2 DEF TypeInv, TypeOK
<1> QED BY <1>2, <1>3, <1>4, <1>5

\* The variables of the change detector keep their types, whatever is looked at,
\* renamed or restarted.
LEMMA Typed == Spec => []TypeInv
<1>1. ASSUME Init PROVE TypeInv
  <2>1. thread \in [Threads -> ThreadSet] /\ \A t \in Threads : thread[t].sent = 0 /\ thread[t].unread = 0
    <3>1. ASSUME NEW n \in [shown : {TRUE}, sent : {0}, unread : {0}]
          PROVE  n = [shown |-> TRUE, sent |-> 0, unread |-> 0]
      OBVIOUS
    <3>2. [shown |-> TRUE, sent |-> 0, unread |-> 0] \in ThreadSet
      BY DEF ThreadSet
    <3> QED BY <1>1, <3>1, <3>2 DEF Init
  <2>2. \A t \in Threads : thread[t].sent \in 0 .. MaxSent /\ thread[t].unread \in 0 .. thread[t].sent
    BY <2>1, DeltaAssumption
  <2>3. id \in 1 .. MaxIds /\ period \in Periods /\ factsPeriod \in Periods
    BY <1>1, DeltaAssumption DEF Init
  <2>4. DOMAIN Empty = {}
    BY DEF Empty
  <2> QED BY <1>1, <2>1, <2>2, <2>3, <2>4 DEF Init, TypeInv, TypeOK
<1>2. TypeInv /\ DeltaInv /\ [Next]_vars => TypeInv'
  <2> SUFFICES ASSUME TypeInv, DeltaInv, [Next]_vars PROVE TypeInv'
    OBVIOUS
  <2>1. ASSUME NEW opened, NEW readable, CollectDiscussions(opened, readable) PROVE TypeInv'
    <3>1. UNCHANGED <<topic, id, period, factsPeriod, listed, thread, lesson, seenIds, lessonSignatures>>
      BY <2>1 DEF CollectDiscussions, schoolVars
    <3>2. id \in 1 .. id
      BY DeltaAssumption DEF TypeInv, TypeOK
    <3>3. DOMAIN unread' \subseteq {id} /\ DOMAIN baseline' \subseteq 1 .. id
      BY <2>1, <3>2 DEF CollectDiscussions, With, TypeInv, TypeOK
    <3> QED BY <3>1, <3>3 DEF TypeInv, TypeOK
  <2>2. CASE CollectTimetable
    <3>1. UNCHANGED <<topic, id, period, factsPeriod, listed, thread, lesson, seenIds, unread, baseline>>
      BY <2>2 DEF CollectTimetable, schoolVars
    <3>2. DOMAIN lessonSignatures' \subseteq {id}
      BY <2>2 DEF CollectTimetable, With, TypeInv, TypeOK
    <3> QED BY <3>1, <3>2 DEF TypeInv, TypeOK
  <2>3. CASE Restart
    BY <2>3 DEF Restart, schoolVars, Empty, TypeInv, TypeOK
  <2>4. CASE UNCHANGED vars
    BY <2>4 DEF vars, schoolVars, memoryVars, TypeInv, TypeOK
  <2> QED BY <2>1, <2>2, <2>3, <2>4, ItemsKeepTypes, RenameKeepsTypes, SchoolKeepsTypes DEF Next
<1> QED BY <1>1, <1>2, Invariance, PTL DEF Spec

-----------------------------------------------------------------------------
(* Instants and days.                                                      *)

\* A quotient is a natural, and says where the number lies.
LEMMA Quotient ==
    ASSUME NEW t \in Nat, NEW d \in Nat \ {0}
    PROVE  /\ t \div d \in Nat /\ t % d \in 0 .. d - 1
           /\ t = d * (t \div d) + (t % d)
OBVIOUS

\* A multiple of an even number is even.
LEMMA EvenMultiple ==
    ASSUME NEW n \in Nat, NEW d \in Instants
    PROVE  n * d \in Instants
<1>1. PICK h \in Nat : d = h + h
  <2>1. d \in Nat /\ d % 2 = 0
    BY DEF Instants
  <2> QED BY <2>1
<1>2. \A x, y \in Nat : x * y \in Nat
  OBVIOUS
<1>3. n * h \in Nat
  BY <1>2
<1>4. n * (h + h) = n * h + n * h
  OBVIOUS
<1>5. \A x \in Nat : (x + x) % 2 = 0 /\ x + x \in Nat
  OBVIOUS
<1> QED BY <1>1, <1>3, <1>4, <1>5 DEF Instants
\* A larger factor makes a larger product.
LEMMA Monotone ==
    ASSUME NEW d \in Nat, NEW a \in Nat, NEW b \in Nat, a <= b
    PROVE  a * d <= b * d
<1>1. \A x, y \in Nat : x * y \in Nat
  OBVIOUS
<1>2. PICK c \in Nat : b = a + c
  <2>1. b - a \in Nat /\ b = a + (b - a)
    OBVIOUS
  <2> QED BY <2>1
<1>3. (a + c) * d = a * d + c * d
  OBVIOUS
<1>4. a * d \in Nat /\ c * d \in Nat
  BY <1>1
<1> QED BY <1>2, <1>3, <1>4

\* Where in the day an instant lies.
LEMMA DayIs ==
    ASSUME NEW t \in Nat
    PROVE  /\ Day(t) \in Nat /\ Midnight(Day(t)) \in Nat
           /\ Midnight(Day(t)) <= t /\ t < NextMidnight(t)
           /\ NextMidnight(t) \in Instants
<1>1. DayLength \in Nat \ {0} /\ DayLength \in Instants
  BY ViewsAssumption, DisplayAssumption
<1>2. /\ Day(t) \in Nat /\ t % DayLength \in 0 .. DayLength - 1
      /\ t = DayLength * Day(t) + (t % DayLength)
  BY <1>1, Quotient DEF Day
<1>3. /\ DayLength * Day(t) = Day(t) * DayLength
      /\ (Day(t) + 1) * DayLength = Day(t) * DayLength + DayLength
      /\ Day(t) * DayLength \in Nat
  <2> DEFINE n == Day(t)
  <2> HIDE DEF n
  <2>1. n \in Nat
    BY <1>2 DEF n
  <2>2. DayLength * n = n * DayLength /\ (n + 1) * DayLength = n * DayLength + DayLength
    BY <1>1, <2>1
  <2>3. n * DayLength \in Nat
    BY <1>1, <2>1
  <2> QED BY <2>2, <2>3 DEF n
<1>4. (Day(t) + 1) * DayLength \in Instants
  <2>1. Day(t) + 1 \in Nat
    BY <1>2
  <2> QED BY <1>1, <2>1, EvenMultiple
<1> QED BY <1>1, <1>2, <1>3, <1>4 DEF Midnight, NextMidnight

\* Until midnight it is the same day.
LEMMA SameDay ==
    ASSUME NEW t \in Nat, NEW u \in Nat, t <= u, u < NextMidnight(t)
    PROVE  Day(u) = Day(t)
<1>1. /\ Day(t) \in Nat /\ Midnight(Day(t)) <= t /\ Midnight(Day(t)) \in Nat
      /\ Day(u) \in Nat /\ Midnight(Day(u)) <= u /\ u < NextMidnight(u) /\ Midnight(Day(u)) \in Nat
      /\ NextMidnight(t) \in Nat /\ NextMidnight(u) \in Nat
  BY DayIs DEF Instants
<1>2. DayLength \in Nat
  BY ViewsAssumption
<1>3. CASE Day(u) + 1 <= Day(t)
  <2>1. (Day(u) + 1) * DayLength <= Day(t) * DayLength
    BY <1>1, <1>2, <1>3, Monotone
  <2> QED BY <2>1, <1>1 DEF Midnight, NextMidnight
<1>4. CASE Day(t) + 1 <= Day(u)
  <2>1. (Day(t) + 1) * DayLength <= Day(u) * DayLength
    BY <1>1, <1>2, <1>4, Monotone
  <2> QED BY <2>1, <1>1 DEF Midnight, NextMidnight
<1> QED BY <1>1, <1>3, <1>4

\* The earliest of a set of instants.
LEMMA MinIs ==
    ASSUME NEW S \in SUBSET Nat, S # {}
    PROVE  Min(S) \in S /\ \A x \in S : Min(S) <= x
BY LeastNatural DEF Min

\* The earliest to come stays the earliest to come until it comes.
LEMMA LeastSteady ==
    ASSUME NEW S \in SUBSET Nat, NEW t \in Nat, NEW u \in Nat, t <= u,
           LET m == Least({s \in S : s > t}) IN m > t => u < m
    PROVE  Least({s \in S : s > u}) = Least({s \in S : s > t})
<1> DEFINE Later == {s \in S : s > t}
<1>1. CASE Later = {}
  <2>1. \A s \in S : ~ (s > t) /\ ~ (s > u)
    BY <1>1
  <2>2. {s \in S : s > u} = {} /\ {s \in S : s > t} = {}
    BY <2>1
  <2> QED BY <2>2
<1>2. CASE Later # {}
  <2>1. Later \in SUBSET Nat
    OBVIOUS
  <2>2. Min(Later) \in Later /\ \A x \in Later : Min(Later) <= x
    BY <1>2, <2>1, MinIs
  <2>3. Least(Later) = Min(Later)
    BY <1>2 DEF Least
  <2>4. u < Min(Later)
    BY <2>2, <2>3
  <2>5. \A s \in S : s \in Nat /\ (s > t => Min(Later) <= s)
    BY <2>2
  <2>6. Min(Later) \in Nat
    BY <2>1, <2>2
  <2> HIDE DEF Later
  <2>7. \A s \in S : s > u <=> s > t
    BY <2>4, <2>5, <2>6
  <2>8. {s \in S : s > u} = {s \in S : s > t}
    BY <2>7
  <2> QED BY <2>8, Zenon
<1> QED BY <1>1, <1>2

\* Nothing happens before the next boundary, nor after the last.
LEMMA NoneBetween ==
    ASSUME NEW S \in SUBSET Instants, NEW t \in Nat
    PROVE  /\ NextBoundary(S, t) \in Instants /\ NextBoundary(S, t) > t
           /\ \A s \in S, u \in Nat : t <= u /\ u < NextBoundary(S, t) => (s <= u <=> s <= t)
<1> DEFINE Later == {m \in S : m > t}
<1>1. CASE Later = {}
  <2>1. NextBoundary(S, t) = NextMidnight(t)
    BY <1>1 DEF NextBoundary
  <2>2. \A s \in S : s <= t /\ s \in Nat
    BY <1>1 DEF Instants
  <2> QED BY <2>1, <2>2, DayIs
<1>2. CASE Later # {}
  <2>1. Later \in SUBSET Nat
    BY DEF Instants
  <2>2. Min(Later) \in Later /\ \A x \in Later : Min(Later) <= x
    BY <1>2, <2>1, MinIs
  <2>3. NextBoundary(S, t) = Min(Later)
    BY <1>2 DEF NextBoundary
  <2>4. \A s \in S : s \in Nat
    BY DEF Instants
  <2> HIDE DEF Later
  <2>5. Min(Later) \in S /\ Min(Later) > t
    BY <2>2 DEF Later
  <2>6. \A s \in S : s > t => Min(Later) <= s
    BY <2>2 DEF Later
  <2> QED BY <2>3, <2>4, <2>5, <2>6
<1> QED BY <1>1, <1>2

-----------------------------------------------------------------------------
(* What a tier makes of an answer.                                         *)

\* The function Deduplicated computes, and what it is.
Bests(lessons, f) ==
    [n \in 0 .. Len(lessons) |-> IF n = 0 THEN {} ELSE BestWith(f[n - 1], lessons[n])]
Improving(f, lessons) ==
    f[0] = {} /\ \A n \in 1 .. Len(lessons) : f[n] = BestWith(f[n - 1], lessons[n])

\* The lessons kept are the last of a row of sets, each made of the one before.
LEMMA BestSteps ==
    ASSUME NEW L, NEW lessons \in Seq(L)
    PROVE  \E f \in [0 .. Len(lessons) -> SUBSET L] :
              Deduplicated(lessons) = f[Len(lessons)] /\ Improving(f, lessons)
<1> DEFINE N == Len(lessons)
           X == SUBSET L
           base == {}
           step == [n \in 1 .. N |-> [s \in X |-> BestWith(s, lessons[n])]]
<1>1. N \in Nat /\ base \in X /\ step \in [1 .. N -> [X -> X]]
  <2>1. \A n \in 1 .. N, s \in X : BestWith(s, lessons[n]) \in X
    BY DEF BestWith
  <2>2. N \in Nat /\ base \in X
    OBVIOUS
  <2> HIDE DEF N, X
  <2>3. step \in [1 .. N -> [X -> X]]
    BY <2>1
  <2> QED BY <2>2, <2>3
<1>2. PICK g \in [0 .. N -> X] : Steps(g, N, base, step)
  <2> HIDE DEF N, step, X, base
  <2> QED BY <1>1, Recursion
<1>3. \A n \in 1 .. N : n - 1 \in 0 .. N /\ g[n] = BestWith(g[n - 1], lessons[n])
  <2> SUFFICES ASSUME NEW n \in 1 .. N
               PROVE  n - 1 \in 0 .. N /\ g[n] = BestWith(g[n - 1], lessons[n])
    OBVIOUS
  <2>1. n - 1 \in 0 .. N
    BY <1>1
  <2>2. g[n - 1] \in X
    <3> HIDE DEF X, N, step
    <3> QED BY <2>1
  <2>3. step[n][g[n - 1]] = BestWith(g[n - 1], lessons[n])
    <3> HIDE DEF X, N
    <3> QED BY <2>2
  <2> QED BY <2>1, <2>3, <1>2 DEF Steps
<1>4. g[0] = {}
  BY <1>2 DEF Steps
<1> HIDE DEF step, X, base
<1>5. g = Bests(lessons, g)
  <2>1. g = [n \in 0 .. N |-> g[n]]
    OBVIOUS
  <2>2. ASSUME NEW n \in 0 .. N
        PROVE  g[n] = IF n = 0 THEN {} ELSE BestWith(g[n - 1], lessons[n])
    <3>1. n = 0 \/ n \in 1 .. N
      BY <1>1
    <3> QED BY <1>3, <1>4, <3>1
  <2> QED BY <2>1, <2>2 DEF Bests
<1> DEFINE f == CHOOSE f : f = Bests(lessons, f)
<1>6. f = Bests(lessons, f)
  BY <1>5
<1>7. Deduplicated(lessons) = f[N]
  BY DEF Deduplicated, Bests
<1>8. f[0] = {} /\ \A n \in 1 .. N : f[n] = BestWith(f[n - 1], lessons[n])
  <2> HIDE DEF f
  <2>1. /\ Bests(lessons, f)[0] = {}
        /\ \A n \in 1 .. N : Bests(lessons, f)[n] = BestWith(f[n - 1], lessons[n])
    BY <1>1 DEF Bests
  <2> QED BY <2>1, <1>6
<1>9. f[N] = g[N]
  <2> DEFINE P == {n \in 0 .. N : f[n] = g[n]}
  <2>1. 0 \in P
    <3> HIDE DEF f, N
    <3>1. 0 \in 0 .. N
      BY <1>1
    <3>2. f[0] = g[0]
      BY <1>4, <1>8
    <3> QED BY <3>1, <3>2
  <2>2. ASSUME NEW n \in 0 .. N - 1, n \in P PROVE n + 1 \in P
    <3>1. n + 1 \in 1 .. N /\ n + 1 \in 0 .. N /\ (n + 1) - 1 = n
      BY <1>1
    <3> HIDE DEF f, N
    <3>2. f[n + 1] = BestWith(f[n], lessons[n + 1]) /\ g[n + 1] = BestWith(g[n], lessons[n + 1])
      BY <3>1, <1>3, <1>8
    <3> QED BY <2>2, <3>1, <3>2
  <2> HIDE DEF P, N
  <2>3. 0 .. N \subseteq P
    BY <1>1, <2>1, <2>2, Induction
  <2> QED BY <1>1, <2>3 DEF P
<1>10. Improving(g, lessons) /\ Deduplicated(lessons) = g[N]
  BY <1>3, <1>4, <1>7, <1>9 DEF Improving
<1> QED BY <1>10 DEF X

\* What is kept is among the lessons that were read.
LEMMA KeptWereRead ==
    ASSUME NEW L, NEW lessons \in Seq(L)
    PROVE  Deduplicated(lessons) \subseteq Range(lessons)
<1> DEFINE N == Len(lessons)
<1>1. PICK f \in [0 .. N -> SUBSET L] : Deduplicated(lessons) = f[N] /\ Improving(f, lessons)
  BY BestSteps
<1> DEFINE P == {n \in 0 .. N : f[n] \subseteq Range(lessons)}
<1>2. N \in Nat
  OBVIOUS
<1>3. 0 \in P
  BY <1>1, <1>2 DEF Improving
<1>4. ASSUME NEW n \in 0 .. N - 1, n \in P PROVE n + 1 \in P
  <2>1. n + 1 \in 1 .. N /\ n + 1 \in 0 .. N /\ (n + 1) - 1 = n
    BY <1>2
  <2>2. lessons[n + 1] \in Range(lessons)
    BY <2>1 DEF Range
  <2>3. f[n + 1] = BestWith(f[n], lessons[n + 1])
    BY <1>1, <2>1 DEF Improving
  <2>4. BestWith(f[n], lessons[n + 1]) \subseteq f[n] \union {lessons[n + 1]}
    BY DEF BestWith
  <2> QED BY <1>4, <2>1, <2>2, <2>3, <2>4
<1>5. N \in P
  <2> HIDE DEF P, N
  <2>1. 0 .. N \subseteq P
    BY <1>2, <1>3, <1>4, Induction
  <2> QED BY <1>2, <2>1
<1> QED BY <1>1, <1>5

\* The latest of a finite set of instants.
LEMMA MaxIs ==
    ASSUME NEW S \in SUBSET Nat, IsFiniteSet(S), S # {}
    PROVE  Max(S) \in S /\ \A x \in S : x <= Max(S)
<1>0. PICK n \in Nat : ExistsSurjection(1 .. n, S)
  BY FS_NatSurjection
<1>1. PICK f \in [1 .. n -> S] : \A x \in S : \E i \in 1 .. n : f[i] = x
  BY <1>0 DEF ExistsSurjection, Surjection
<1> DEFINE P == {k \in 0 .. n : \E b \in Nat : \A i \in 1 .. k : f[i] <= b}
<1>2. 0 \in P
  <2>1. \A i \in 1 .. 0 : f[i] <= 0
    OBVIOUS
  <2> QED BY <2>1
<1>3. ASSUME NEW k \in 0 .. n - 1, k \in P PROVE k + 1 \in P
  <2>1. PICK b \in Nat : \A i \in 1 .. k : f[i] <= b
    BY <1>3
  <2>2. k + 1 \in 1 .. n /\ k + 1 \in 0 .. n
    OBVIOUS
  <2>3. f[k + 1] \in Nat
    BY <2>2
  <2>4. b + f[k + 1] \in Nat /\ \A i \in 1 .. k + 1 : f[i] <= b + f[k + 1]
    <3>1. ASSUME NEW i \in 1 .. k + 1 PROVE f[i] <= b + f[k + 1]
      <4>1. CASE i = k + 1
        BY <4>1, <2>3
      <4>2. CASE i \in 1 .. k
        <5>1. i \in 1 .. n
          BY <2>2
        <5>2. f[i] \in Nat
          BY <5>1
        <5> QED BY <4>2, <5>2, <2>1, <2>3
      <4> QED BY <4>1, <4>2
    <3> QED BY <3>1, <2>3
  <2> QED BY <2>2, <2>4
<1>4. PICK b \in Nat : \A i \in 1 .. n : f[i] <= b
  <2>1. 0 .. n \subseteq P
    <3> HIDE DEF P
    <3> QED BY <1>2, <1>3, Induction
  <2>2. n \in P
    <3> HIDE DEF P
    <3> QED BY <2>1
  <2> QED BY <2>2
<1>5. \A x \in S : b - x \in Nat
  BY <1>1, <1>4
<1>6. PICK m \in {b - x : x \in S} : \A y \in {b - x : x \in S} : m <= y
  <2>1. {b - x : x \in S} \in SUBSET Nat /\ {b - x : x \in S} # {}
    BY <1>5
  <2> QED BY <2>1, LeastNatural
<1>7. PICK z \in S : m = b - z
  BY <1>6
<1>8. \A x \in S : z >= x
  <2>1. ASSUME NEW x \in S PROVE z >= x
    <3>1. b - z <= b - x
      BY <1>6, <1>7
    <3> QED BY <3>1
  <2> QED BY <2>1
<1>9. Max(S) \in S /\ \A x \in S : Max(S) >= x
  BY <1>8 DEF Max
<1> QED BY <1>9

\* A lesson as it is read: it begins and ends at even ticks, in this order.
ReadLessons ==
    {l \in [place : Nat, num : Nat, start : Instants, end : Instants, canceled : BOOLEAN,
            exempted : BOOLEAN, outing : BOOLEAN, test : BOOLEAN, named : BOOLEAN,
            inferred : BOOLEAN] : l.end > l.start}

\* One entry of an answer, read.
LEMMA LessonIs ==
    ASSUME NEW entry \in TimetableEntries
    PROVE  Lesson(entry) \in ReadLessons
<1> DEFINE stop == IF entry.readable \/ entry.dated THEN entry.end
                   ELSE entry.start + Hour * entry.duration
<1>1. \A x, y \in Instants : x \in Nat /\ y \in Nat /\ x + y \in Instants
  BY DEF Instants
<1>2. Hour \in Instants /\ Hour \in Nat /\ Hour > 0
  BY ViewsAssumption, DisplayAssumption
<1>3. entry.start \in Instants /\ entry.end \in Instants /\ entry.duration \in Nat
  BY DEF TimetableEntries
<1>4. Hour * entry.duration \in Instants
  <2>1. entry.duration * Hour \in Instants
    BY <1>2, <1>3, EvenMultiple
  <2>2. \A x, y \in Nat : x * y = y * x
    OBVIOUS
  <2> QED BY <2>1, <2>2, <1>2, <1>3
<1>5. stop \in Instants
  BY <1>1, <1>3, <1>4
<1>6. SaneEnd(entry.start, stop) \in Instants /\ SaneEnd(entry.start, stop) > entry.start
  <2> HIDE DEF stop
  <2>1. stop \in Nat /\ entry.start \in Nat
    BY <1>1, <1>3, <1>5
  <2>2. entry.start + Hour \in Instants /\ entry.start + Hour > entry.start
    BY <2>1, <1>1, <1>2, <1>3
  <2>3. CASE stop > entry.start
    BY <2>3, <1>5 DEF SaneEnd
  <2>4. CASE ~ (stop > entry.start)
    BY <2>2, <2>4 DEF SaneEnd
  <2> QED BY <2>3, <2>4
<1> HIDE DEF stop
<1>7. Lesson(entry) =
        [place |-> entry.place, num |-> entry.num, start |-> entry.start,
         end |-> SaneEnd(entry.start, stop),
         canceled |-> entry.canceled, exempted |-> entry.exempted, outing |-> entry.outing,
         test |-> entry.readable /\ entry.test,
         named |-> entry.readable /\ entry.named,
         inferred |-> ~entry.dated \/ stop <= entry.start]
  BY DEF Lesson, stop
<1> QED BY <1>3, <1>6, <1>7 DEF ReadLessons, TimetableEntries

\* The lessons kept are finitely many, and read.
LEMMA TimetableIs ==
    ASSUME NEW entries \in Seq(TimetableEntries), NEW today
    PROVE  /\ TimetableFacts(entries, today) \in SUBSET ReadLessons
           /\ IsFiniteSet(TimetableFacts(entries, today))
<1> DEFINE asked == {e \in Range(entries) : Week(Day(e.start)) \in TimetableWeeks(today)}
           answer == OnlyIn(entries, asked)
           lessons == [i \in DOMAIN answer |-> Lesson(answer[i])]
<1>1. answer \in Seq(TimetableEntries)
  <2> HIDE DEF asked
  <2> QED BY Selection
<1> HIDE DEF answer
<1>2. lessons \in Seq(ReadLessons) /\ Len(lessons) \in Nat
  <2>1. \A i \in DOMAIN answer : Lesson(answer[i]) \in ReadLessons
    BY <1>1, LessonIs
  <2>2. DOMAIN answer = 1 .. Len(answer) /\ Len(answer) \in Nat
    BY <1>1
  <2> QED BY <2>1, <2>2
<1>3. TimetableFacts(entries, today) = Deduplicated(lessons)
  BY DEF TimetableFacts, answer
<1> HIDE DEF lessons
<1>4. Deduplicated(lessons) \subseteq Range(lessons) /\ Range(lessons) \subseteq ReadLessons
  <2>1. Deduplicated(lessons) \subseteq Range(lessons)
    BY <1>2, KeptWereRead
  <2>2. Range(lessons) \subseteq ReadLessons
    BY <1>2 DEF Range
  <2> QED BY <2>1, <2>2
<1>5. IsFiniteSet(Range(lessons))
  <2>1. lessons \in Surjection(1 .. Len(lessons), Range(lessons))
    BY <1>2 DEF Surjection, Range
  <2>2. IsFiniteSet(1 .. Len(lessons))
    BY <1>2, FS_Interval
  <2> QED BY <2>1, <2>2, FS_Surjection
<1> QED BY <1>3, <1>4, <1>5, FS_Subset

ReadAbsences == [from : Instants, to : Instants, justified : BOOLEAN]
ReadSlots == [start : Instants, duration : Nat]

\* The absences and the slots of the punishments are those of the answer.
LEMMA AttendanceIs ==
    ASSUME NEW answer \in [session : Sessions, entries : SUBSET AttendanceEntries]
    PROVE  /\ AttendanceTier(answer).absences \in SUBSET ReadAbsences
           /\ Slots(AttendanceTier(answer)) \in SUBSET ReadSlots
<1>1. CASE HasPeriod(answer)
  <2> DEFINE E == answer.entries
             read(kind) == {e \in E : e.readable /\ e.kind = kind}
  <2>1. E \subseteq AttendanceEntries
    OBVIOUS
  <2>2. ASSUME NEW e \in read("absence")
        PROVE  [from |-> e.from, to |-> e.to, justified |-> e.justified] \in ReadAbsences
    <3>1. e \in [kind : {"absence"}, readable : BOOLEAN, from : Instants, to : Instants,
                 justified : BOOLEAN]
      BY <2>1, <2>2 DEF AttendanceEntries
    <3> QED BY <3>1 DEF ReadAbsences
  <2>3. ASSUME NEW e \in read("punishment") PROVE e.schedule \in SUBSET ReadSlots
    <3>1. e \in [kind : {"punishment"}, readable : BOOLEAN, id : Nat,
                 schedule : SUBSET [start : Instants, duration : Nat]]
      BY <2>1, <2>3 DEF AttendanceEntries
    <3> QED BY <3>1 DEF ReadSlots
  <2> DEFINE F == AttendanceFacts(E)
  <2>4. /\ F.absences = {[from |-> e.from, to |-> e.to, justified |-> e.justified] : e \in read("absence")}
        /\ F.punishments = {[id |-> e.id, schedule |-> e.schedule] : e \in read("punishment")}
    BY DEF AttendanceFacts
  <2>5. AttendanceTier(answer) = F
    BY <1>1 DEF AttendanceTier
  <2> HIDE DEF F, read
  <2>6. F.absences \in SUBSET ReadAbsences
    BY <2>2, <2>4
  <2>7. \A p \in F.punishments : p.schedule \in SUBSET ReadSlots
    BY <2>3, <2>4
  <2> QED BY <2>5, <2>6, <2>7 DEF Slots
<1>2. CASE ~HasPeriod(answer)
  <2>1. AttendanceTier(answer) = NoAttendance
    BY <1>2 DEF AttendanceTier
  <2> QED BY <2>1 DEF NoAttendance, Slots
<1> QED BY <1>1, <1>2

\* What the entities of the two tiers with timers rely on.
FactsRead(f) ==
    /\ tier = "timetable" => f \in SUBSET ReadLessons /\ IsFiniteSet(f)
    /\ tier = "attendance" => f.absences \in SUBSET ReadAbsences /\ Slots(f) \in SUBSET ReadSlots

\* They are what a tier makes of any answer.
LEMMA FactsAreRead ==
    ASSUME tier \in ShownTiers, NEW answer \in Answers[tier]
    PROVE  FactsRead(Facts(answer, now))
<1>1. answer \in AnswersOf(tier)
  BY DisplayAssumption
<1>2. CASE tier = "timetable"
  <2>1. answer \in Seq(TimetableEntries)
    BY <1>1, <1>2 DEF AnswersOf
  <2>2. Facts(answer, now) = TimetableFacts(answer, Day(now))
    BY <1>2 DEF Facts
  <2> QED BY <1>2, <2>1, <2>2, TimetableIs DEF FactsRead
<1>3. CASE tier = "attendance"
  <2>1. answer \in [session : Sessions, entries : SUBSET AttendanceEntries]
    BY <1>1, <1>3 DEF AnswersOf
  <2>2. Facts(answer, now) = AttendanceTier(answer)
    BY <1>3 DEF Facts
  <2> QED BY <1>3, <2>1, <2>2, AttendanceIs DEF FactsRead
<1> QED BY <1>2, <1>3 DEF FactsRead

-----------------------------------------------------------------------------
(* The readings of the sensors that have a timer are numbers.              *)

\* The earliest of some instants, if there is one.
LEMMA LeastIs ==
    ASSUME NEW S \in SUBSET Nat
    PROVE  Least(S) \in S \union {None} /\ Least(S) \in Int
<1>0. None \in Int
  BY DEF None
<1>1. CASE S = {}
  <2>1. Least(S) = None
    BY <1>1 DEF Least
  <2> QED BY <1>0, <2>1
<1>2. CASE S # {}
  <2>1. Min(S) \in S /\ Least(S) = Min(S)
    BY <1>2, MinIs DEF Least
  <2>2. Min(S) \in Nat
    BY <2>1
  <2>3. Min(S) \in Int
    BY <2>2
  <2> QED BY <2>1, <2>3, Zenon
<1> QED BY <1>1, <1>2

\* Starts and ends are instants, and finitely many.
LEMMA StartsAndEnds ==
    ASSUME NEW lessons \in SUBSET ReadLessons
    PROVE  /\ Starts(lessons) \in SUBSET Instants /\ Ends(lessons) \in SUBSET Instants
           /\ Starts(lessons) \in SUBSET Nat /\ Ends(lessons) \in SUBSET Nat
           /\ IsFiniteSet(lessons) => IsFiniteSet(Starts(lessons)) /\ IsFiniteSet(Ends(lessons))
<1>1. \A l \in lessons : l.start \in Instants /\ l.end \in Instants
  BY DEF ReadLessons
<1>2. /\ Starts(lessons) \in SUBSET Instants /\ Ends(lessons) \in SUBSET Instants
      /\ Starts(lessons) \in SUBSET Nat /\ Ends(lessons) \in SUBSET Nat
  BY <1>1 DEF Starts, Ends, Instants
<1>3. ASSUME IsFiniteSet(lessons) PROVE IsFiniteSet(Starts(lessons))
  <2>1. [l \in lessons |-> l.start] \in Surjection(lessons, Starts(lessons))
    BY DEF Surjection, Starts
  <2> QED BY <1>3, <2>1, FS_Surjection
<1>4. ASSUME IsFiniteSet(lessons) PROVE IsFiniteSet(Ends(lessons))
  <2>1. [l \in lessons |-> l.end] \in Surjection(lessons, Ends(lessons))
    BY DEF Surjection, Ends
  <2> QED BY <1>4, <2>1, FS_Surjection
<1> QED BY <1>2, <1>3, <1>4

\* The lessons that are picked are lessons that were read.
LEMMA PickedLessons ==
    ASSUME NEW lessons \in SUBSET ReadLessons, IsFiniteSet(lessons), NEW day
    PROVE  /\ LessonsOn(lessons, day) \in SUBSET ReadLessons /\ IsFiniteSet(LessonsOn(lessons, day))
           /\ Teaching(lessons) \in SUBSET ReadLessons /\ IsFiniteSet(Teaching(lessons))
<1>1. LessonsOn(lessons, day) \in SUBSET lessons /\ Teaching(lessons) \in SUBSET lessons
  BY DEF LessonsOn, Teaching
<1> QED BY <1>1, FS_Subset

\* The longest gap, and of these the earliest, is one of them.
LEMMA LongestIs ==
    ASSUME NEW gaps \in SUBSET (Nat \X Nat), IsFiniteSet(gaps), gaps # {},
           \A g \in gaps : g[1] < g[2]
    PROVE  /\ Longest(gaps) \in gaps
           /\ \A g \in gaps :
                \/ Longest(gaps)[2] - Longest(gaps)[1] > g[2] - g[1]
                \/ /\ Longest(gaps)[2] - Longest(gaps)[1] = g[2] - g[1]
                   /\ Longest(gaps)[1] <= g[1]
<1> DEFINE lengths == {g[2] - g[1] : g \in gaps}
<1>0. \A g \in gaps : g[1] \in Nat /\ g[2] \in Nat /\ g[2] - g[1] \in Nat
  OBVIOUS
<1>1. lengths \in SUBSET Nat /\ lengths # {}
  BY <1>0
<1>2. IsFiniteSet(lengths)
  <2>1. [g \in gaps |-> g[2] - g[1]] \in Surjection(gaps, lengths)
    BY DEF Surjection
  <2> QED BY <2>1, FS_Surjection
<1>3. Max(lengths) \in lengths /\ \A x \in lengths : x <= Max(lengths)
  <2> HIDE DEF lengths
  <2> QED BY <1>1, <1>2, MaxIs
<1> DEFINE best == {g[1] : g \in {g \in gaps : g[2] - g[1] = Max(lengths)}}
<1>4. best \in SUBSET Nat /\ best # {}
  BY <1>0, <1>3
<1>5. PICK m \in best : \A x \in best : m <= x
  BY <1>4, LeastNatural
<1>6. PICK z \in gaps : z[2] - z[1] = Max(lengths) /\ m = z[1]
  BY <1>5
<1>7. ASSUME NEW g \in gaps
      PROVE  \/ z[2] - z[1] > g[2] - g[1]
             \/ z[2] - z[1] = g[2] - g[1] /\ z[1] <= g[1]
  <2>1. g[2] - g[1] \in lengths /\ g[2] - g[1] <= Max(lengths)
    BY <1>3
  <2>2. CASE g[2] - g[1] = Max(lengths)
    <3>1. g[1] \in best
      BY <2>2
    <3> QED BY <3>1, <2>2, <1>5, <1>6
  <2>3. CASE g[2] - g[1] # Max(lengths)
    BY <2>1, <2>3, <1>6, <1>0
  <2> QED BY <2>2, <2>3
<1> QED BY <1>7 DEF Longest

\* The longest gap, and of these the latest, is one of them.
LEMMA LastLongestIs ==
    ASSUME NEW gaps \in SUBSET (Nat \X Nat), IsFiniteSet(gaps), gaps # {},
           \A g \in gaps : g[1] < g[2]
    PROVE  LastLongest(gaps) \in gaps
<1>1. \A g \in gaps : g[1] \in Nat /\ g[2] \in Nat
  OBVIOUS
<1>2. PICK w \in gaps : \A g \in gaps : g[2] - g[1] <= w[2] - w[1]
  BY <1>1, LongestIs
<1> DEFINE widest == {g \in gaps : g[2] - g[1] = w[2] - w[1]}
           starts == {g[1] : g \in widest}
<1>3. starts \in SUBSET Nat /\ starts # {}
  BY <1>1, <1>2
<1>4. IsFiniteSet(starts)
  <2>1. IsFiniteSet(widest)
    BY FS_Subset
  <2>2. [g \in widest |-> g[1]] \in Surjection(widest, starts)
    BY DEF Surjection
  <2> HIDE DEF widest, starts
  <2> QED BY <2>1, <2>2, FS_Surjection
<1>5. Max(starts) \in starts /\ \A x \in starts : x <= Max(starts)
  <2> HIDE DEF starts
  <2> QED BY <1>3, <1>4, MaxIs
<1>6. PICK z \in widest : z[1] = Max(starts)
  BY <1>5
<1>7. ASSUME NEW g \in gaps
      PROVE  \/ z[2] - z[1] > g[2] - g[1]
             \/ z[2] - z[1] = g[2] - g[1] /\ z[1] >= g[1]
  <2>1. CASE g \in widest
    <3>1. g[1] \in starts /\ g[1] <= Max(starts)
      BY <2>1, <1>5
    <3> QED BY <3>1, <2>1, <1>1, <1>6
  <2>2. CASE g \notin widest
    BY <2>2, <1>1, <1>2, <1>6
  <2> QED BY <2>1, <2>2
<1> QED BY <1>6, <1>7 DEF LastLongest

\* A break lies between the end of a lesson and the start of another.
LEMMA BreaksAre ==
    ASSUME NEW day \in SUBSET ReadLessons, IsFiniteSet(day)
    PROVE  /\ Breaks(day) \in SUBSET (Nat \X Nat) /\ IsFiniteSet(Breaks(day))
           /\ \A g \in Breaks(day) : g[1] < g[2]
<1> DEFINE taught == Teaching(day)
<1>1. taught \in SUBSET ReadLessons /\ IsFiniteSet(taught)
  BY PickedLessons
<1> HIDE DEF taught
<1>2. /\ Ends(taught) \in SUBSET Nat /\ Starts(taught) \in SUBSET Nat
      /\ IsFiniteSet(Ends(taught)) /\ IsFiniteSet(Starts(taught))
  BY <1>1, StartsAndEnds
<1>3. IsFiniteSet(Ends(taught) \X Starts(taught))
  BY <1>2, FS_Product
<1>4. Gaps(taught) \in SUBSET (Ends(taught) \X Starts(taught)) /\ \A g \in Gaps(taught) : g[1] < g[2]
  BY DEF Gaps
<1>5. Breaks(day) \subseteq Gaps(taught)
  BY DEF Breaks, taught
<1>6. IsFiniteSet(Breaks(day))
  BY <1>3, <1>4, <1>5, FS_Subset
<1> QED BY <1>2, <1>4, <1>5, <1>6

\* The end of the day and its morning are those of lessons.
LEMMA DayReadings ==
    ASSUME NEW lessons \in SUBSET ReadLessons, IsFiniteSet(lessons), NEW t
    PROVE  EndOfDay(lessons, t) \in Int /\ MorningEnd(lessons, t) \in Int
<1> DEFINE day == LessonsOn(lessons, Day(t))
<1>1. day \in SUBSET ReadLessons /\ IsFiniteSet(day)
  BY PickedLessons
<1>2. Teaching(day) \in SUBSET ReadLessons /\ IsFiniteSet(Teaching(day))
  <2> HIDE DEF day
  <2> QED BY <1>1, PickedLessons
<1>3. EndOfDay(lessons, t) \in Int
  <2>1. CASE Teaching(day) = {}
    BY <2>1 DEF EndOfDay, None
  <2>2. CASE Teaching(day) # {}
    <3>1. Ends(Teaching(day)) \in SUBSET Nat /\ IsFiniteSet(Ends(Teaching(day))) /\ Ends(Teaching(day)) # {}
      <4> HIDE DEF day
      <4>1. Ends(Teaching(day)) # {}
        BY <2>2 DEF Ends
      <4> QED BY <4>1, <1>2, StartsAndEnds
    <3>2. Max(Ends(Teaching(day))) \in Nat
      BY <3>1, MaxIs
    <3> QED BY <2>2, <3>2 DEF EndOfDay
  <2> QED BY <2>1, <2>2
<1>4. MorningEnd(lessons, t) \in Int
  <2>1. CASE Breaks(day) = {}
    BY <2>1 DEF MorningEnd, None
  <2>2. CASE Breaks(day) # {}
    <3>1. /\ Breaks(day) \in SUBSET (Nat \X Nat) /\ IsFiniteSet(Breaks(day))
          /\ \A g \in Breaks(day) : g[1] < g[2]
      <4> HIDE DEF day
      <4> QED BY <1>1, BreaksAre
    <3>2. Longest(Breaks(day)) \in Nat \X Nat
      <4> DEFINE gaps == Breaks(day)
      <4>1. gaps \in SUBSET (Nat \X Nat) /\ IsFiniteSet(gaps) /\ gaps # {} /\ \A g \in gaps : g[1] < g[2]
        BY <2>2, <3>1
      <4> HIDE DEF gaps
      <4>2. Longest(gaps) \in gaps
        BY <4>1, LongestIs
      <4>3. Longest(gaps) \in Nat \X Nat
        BY <4>1, <4>2
      <4> QED BY <4>3 DEF gaps
    <3> QED BY <2>2, <3>2 DEF MorningEnd
  <2> QED BY <2>1, <2>2
<1> QED BY <1>3, <1>4

\* What a sensor with a timer of its own may read.
LEMMA ClockReadings ==
    ASSUME NEW f, FactsRead(f), NEW k \in ClockSensors, NEW t \in Nat
    PROVE  Reading(k, f, t) \in Int
<1>1. CASE tier = "timetable"
  <2>1. f \in SUBSET ReadLessons /\ IsFiniteSet(f)
    BY <1>1 DEF FactsRead
  <2>2. Teaching(f) \in SUBSET ReadLessons /\ IsFiniteSet(Teaching(f))
    BY <2>1, PickedLessons
  <2>3. Starts(Teaching(f)) \in SUBSET Nat
    BY <2>2, StartsAndEnds
  <2>4. k \in {"next_lesson", "next_test", "next_wake_up", "end_of_lessons", "morning_end",
               "next_cancellation"}
    BY <1>1 DEF ClockSensors
  <2>5. Reading(k, f, t) = PresentReading(k, f, t)
    BY <1>1 DEF Reading
  <2>6. CASE k = "next_lesson"
    <3>1. {s \in Starts(Teaching(f)) : s > t} \in SUBSET Nat
      BY <2>3
    <3>2. NextLesson(f, t) \in Int
      BY <3>1, LeastIs DEF NextLesson
    <3> QED BY <2>5, <2>6, <3>2 DEF PresentReading
  <2>7. CASE k = "next_test"
    <3>1. {l \in Teaching(f) : l.test} \in SUBSET ReadLessons
      BY <2>2
    <3>2. Starts({l \in Teaching(f) : l.test}) \in SUBSET Nat
      BY <3>1, StartsAndEnds
    <3>3. {s \in Starts({l \in Teaching(f) : l.test}) : s > t} \in SUBSET Nat
      BY <3>2
    <3>4. NextTest(f, t) \in Int
      BY <3>3, LeastIs DEF NextTest
    <3> QED BY <2>5, <2>7, <3>4 DEF PresentReading
  <2>8. CASE k = "next_wake_up"
    <3>1. FirstLesson(f, t) \in Int
      <4> DEFINE today == Teaching(LessonsOn(f, Day(t)))
                 future == {s \in Starts(Teaching(f)) : s > t}
      <4>1. Least(future) \in Int
        <5>1. future \in SUBSET Nat
          BY <2>3
        <5> QED BY <5>1, LeastIs
      <4>2. today # {} => Min(Starts(today)) \in Int
        <5> SUFFICES ASSUME today # {} PROVE Min(Starts(today)) \in Int
          OBVIOUS
        <5>1. LessonsOn(f, Day(t)) \in SUBSET ReadLessons /\ IsFiniteSet(LessonsOn(f, Day(t)))
          BY <2>1, PickedLessons
        <5>2. today \in SUBSET ReadLessons
          BY <5>1, PickedLessons
        <5> HIDE DEF today
        <5>3. Starts(today) \in SUBSET Nat
          BY <5>2, StartsAndEnds
        <5>4. Starts(today) # {}
          BY DEF Starts
        <5> QED BY <5>3, <5>4, MinIs
      <4> QED BY <4>1, <4>2 DEF FirstLesson
    <3>2. WakeUp(f, t) \in Int
      BY <3>1, ViewsAssumption DEF WakeUp, None
    <3> QED BY <2>5, <2>8, <3>2 DEF PresentReading
  <2>9. CASE k = "end_of_lessons" \/ k = "morning_end"
    BY <2>1, <2>5, <2>9, DayReadings DEF PresentReading
  <2>10. CASE k = "next_cancellation"
    <3>1. PendingCancellations(f, t) \in SUBSET ReadLessons
      BY <2>1 DEF PendingCancellations
    <3>2. Starts(PendingCancellations(f, t)) \in SUBSET Nat
      BY <3>1, StartsAndEnds
    <3>3. NextCancellation(f, t) \in Int
      BY <3>2, LeastIs DEF NextCancellation
    <3> QED BY <2>5, <2>10, <3>3 DEF PresentReading
  <2> QED BY <2>4, <2>6, <2>7, <2>8, <2>9, <2>10
<1>2. CASE tier = "attendance"
  <2>1. Slots(f) \in SUBSET ReadSlots
    BY <1>2 DEF FactsRead
  <2>2. {s.start : s \in {s \in Slots(f) : s.start > t}} \in SUBSET Nat
    BY <2>1 DEF ReadSlots, Instants
  <2>3. NextPunishment(f, t) \in Int
    BY <2>2, LeastIs DEF NextPunishment
  <2>4. k = "next_punishment" /\ Reading(k, f, t) = PresentReading(k, f, t)
    BY <1>2 DEF ClockSensors, Reading
  <2> QED BY <2>3, <2>4 DEF PresentReading
<1>3. CASE tier \notin {"timetable", "attendance"}
  BY <1>3 DEF ClockSensors
<1> QED BY <1>1, <1>2, <1>3

-----------------------------------------------------------------------------
(* A reading lasts until the instant the entity looks again.               *)

\* The instant itself: a second later is what is armed.
Due(k, f, t) ==
    IF k \in ClockSensors THEN Reading(k, f, t)
    ELSE IF k \in Flags THEN Transition(k, f, t) ELSE None

\* A timer is set a tick later than what it waits for, if that is still to come.
LEMMA AlarmIs ==
    ASSUME NEW k, NEW f, NEW t
    PROVE  Alarm(k, f, t) = IF Due(k, f, t) > t THEN Due(k, f, t) + 1 ELSE None
BY DEF Alarm, Due

\* The flags look again at the next boundary there is, and always at some.
LEMMA TransitionIs ==
    ASSUME NEW f, FactsRead(f), NEW k \in Flags, NEW t \in Nat
    PROVE  Transition(k, f, t) \in Instants /\ Transition(k, f, t) > t
<1>1. CASE k = "in_class"
  <2>1. tier = "timetable"
    BY <1>1 DEF Flags
  <2>2. Teaching(f) \in SUBSET ReadLessons
    BY <2>1, PickedLessons DEF FactsRead
  <2>3. Starts(Teaching(f)) \union Ends(Teaching(f)) \in SUBSET Instants
    BY <2>2, StartsAndEnds
  <2> QED BY <1>1, <2>3, NoneBetween DEF Transition
<1>2. CASE k = "absence_in_progress"
  <2>1. tier = "attendance"
    BY <1>2 DEF Flags
  <2>2. {a.from : a \in f.absences} \union {a.to : a \in f.absences} \in SUBSET Instants
    BY <2>1 DEF FactsRead, ReadAbsences
  <2> QED BY <1>2, <2>2, NoneBetween DEF Transition
<1>3. CASE k = "punishment_upcoming"
  <2>1. tier = "attendance"
    BY <1>3 DEF Flags
  <2>2. {s.start : s \in Slots(f)} \in SUBSET Instants
    BY <2>1 DEF FactsRead, ReadSlots
  <2> QED BY <1>3, <2>2, NoneBetween DEF Transition
<1>4. CASE k \notin {"in_class", "absence_in_progress", "punishment_upcoming"}
  BY <1>4, DayIs DEF Transition
<1> QED BY <1>1, <1>2, <1>3, <1>4

\* In the timetable, two sensors announce what is to come, a flag follows the lessons,
\* and the other flags the days.
LEMMA TimetableSteady ==
    ASSUME tier = "timetable", NEW f, FactsRead(f), NEW k \in TimedEntities,
           NEW t \in Nat, NEW u \in Nat, t <= u, Due(k, f, t) > t => u < Due(k, f, t)
    PROVE  PresentReading(k, f, u) = PresentReading(k, f, t)
<1>1. k \in {"next_lesson", "next_test", "timetable_week"} \union
           {"school_day", "in_class", "lessons_canceled", "outing_today", "test_today", "holidays"}
  BY DEF Entities, ClockSensors, Flags, PlainSensors, TimedEntities, MistimedSensors, UntimedSensors
<1>2. \A v \in Nat : Reading(k, f, v) = PresentReading(k, f, v)
  BY DEF Reading
<1>3. Teaching(f) \in SUBSET ReadLessons
  BY PickedLessons DEF FactsRead
<1>4. Starts(Teaching(f)) \in SUBSET Nat
  BY <1>3, StartsAndEnds
<1>5. CASE k = "next_lesson"
  <2>1. k \in ClockSensors
    BY <1>5 DEF ClockSensors
  <2>2. \A v \in Nat : PresentReading(k, f, v) = Least({s \in Starts(Teaching(f)) : s > v})
    BY <1>5 DEF PresentReading, NextLesson
  <2>3. Due(k, f, t) = Least({s \in Starts(Teaching(f)) : s > t})
    BY <1>2, <2>1, <2>2 DEF Due
  <2> QED BY <1>4, <2>2, <2>3, LeastSteady
<1>6. CASE k = "next_test"
  <2>1. k \in ClockSensors
    BY <1>6 DEF ClockSensors
  <2> DEFINE S == Starts({l \in Teaching(f) : l.test})
  <2>2. \A v \in Nat : PresentReading(k, f, v) = Least({s \in S : s > v})
    BY <1>6 DEF PresentReading, NextTest
  <2>3. Due(k, f, t) = Least({s \in S : s > t})
    BY <1>2, <2>1, <2>2 DEF Due
  <2>4. S \in SUBSET Nat
    <3>1. {l \in Teaching(f) : l.test} \in SUBSET ReadLessons
      BY <1>3
    <3> QED BY <3>1, StartsAndEnds
  <2> QED BY <2>2, <2>3, <2>4, LeastSteady
<1>7. CASE k = "timetable_week"
  BY <1>7 DEF PresentReading
<1>8. CASE k \in Flags
  <2>1. Due(k, f, t) = Transition(k, f, t) /\ Transition(k, f, t) > t
    <3>1. k \notin ClockSensors
      BY <1>8 DEF ClockSensors, Flags
    <3> QED BY <1>8, <3>1, TransitionIs DEF Due
  <2>2. u < Transition(k, f, t)
    BY <2>1
  <2>3. CASE k = "in_class"
    <3> DEFINE S == Starts(Teaching(f)) \union Ends(Teaching(f))
    <3>1. Transition(k, f, t) = NextBoundary(S, t)
      BY <2>3 DEF Transition
    <3>2. S \in SUBSET Instants
      BY <1>3, StartsAndEnds
    <3>3. \A s \in S : s <= u <=> s <= t
      <4> HIDE DEF S
      <4> QED BY <2>2, <3>1, <3>2, NoneBetween
    <3>4. ASSUME NEW l \in Teaching(f)
          PROVE  /\ l.start <= u <=> l.start <= t
                 /\ u < l.end <=> t < l.end
      <4>1. l.start \in S /\ l.end \in S
        BY DEF Starts, Ends
      <4>2. l.start \in Nat /\ l.end \in Nat
        BY <1>3 DEF ReadLessons, Instants
      <4>3. (l.start <= u <=> l.start <= t) /\ (l.end <= u <=> l.end <= t)
        BY <3>3, <4>1
      <4> QED BY <4>2, <4>3
    <3>5. InClass(f, u) <=> InClass(f, t)
      BY <3>4 DEF InClass
    <3>6. PresentReading(k, f, u) = InClass(f, u) /\ PresentReading(k, f, t) = InClass(f, t)
      BY <2>3 DEF PresentReading
    <3>7. InClass(f, u) = InClass(f, t)
      BY <3>5 DEF InClass
    <3> QED BY <3>6, <3>7, Zenon
  <2>4. CASE k # "in_class"
    <3>1. Transition(k, f, t) = NextMidnight(t)
      BY <1>8, <2>4 DEF Flags, Transition
    <3>2. Day(u) = Day(t)
      BY <2>2, <3>1, SameDay
    <3>3. CASE k = "school_day"
      BY <3>2, <3>3 DEF PresentReading, SchoolDay
    <3>4. CASE k = "lessons_canceled"
      BY <3>2, <3>4 DEF PresentReading, LessonsCanceled
    <3>5. CASE k = "outing_today"
      BY <3>2, <3>5 DEF PresentReading, OutingToday
    <3>6. CASE k = "test_today"
      BY <3>2, <3>6 DEF PresentReading, TestToday
    <3>7. CASE k = "holidays"
      BY <3>2, <3>7 DEF PresentReading, Holidays
    <3> QED BY <1>8, <2>4, <3>3, <3>4, <3>5, <3>6, <3>7 DEF Flags
  <2> QED BY <2>3, <2>4
<1> QED BY <1>1, <1>5, <1>6, <1>7, <1>8 DEF Flags

\* Attendance: the detention sensor announces the next slot; two flags follow the absences
\* and the slots.
LEMMA AttendanceSteady ==
    ASSUME tier = "attendance", NEW f, FactsRead(f), NEW k \in TimedEntities,
           NEW t \in Nat, NEW u \in Nat, t <= u, Due(k, f, t) > t => u < Due(k, f, t)
    PROVE  PresentReading(k, f, u) = PresentReading(k, f, t)
<1>1. k \in {"next_punishment", "absence_in_progress", "punishment_upcoming",
             "unjustified_absences", "incidents"}
  BY DEF Entities, ClockSensors, Flags, PlainSensors, TimedEntities, MistimedSensors, UntimedSensors
<1>2. \A v \in Nat : Reading(k, f, v) = PresentReading(k, f, v)
  BY DEF Reading
<1> DEFINE S == {s.start : s \in Slots(f)}
<1>3. S \in SUBSET Instants /\ S \in SUBSET Nat /\ \A s \in Slots(f) : s.start \in Nat
  BY DEF FactsRead, ReadSlots, Instants
<1>4. CASE k = "next_punishment"
  <2>1. k \in ClockSensors
    BY <1>4 DEF ClockSensors
  <2>2. ASSUME NEW v \in Nat PROVE PresentReading(k, f, v) = Least({x \in S : x > v})
    <3>1. {s.start : s \in {s \in Slots(f) : s.start > v}} = {x \in S : x > v}
      OBVIOUS
    <3>2. PresentReading(k, f, v) = NextPunishment(f, v)
      BY <1>4 DEF PresentReading
    <3>3. NextPunishment(f, v) = Least({s.start : s \in {s \in Slots(f) : s.start > v}})
      BY DEF NextPunishment
    <3> HIDE DEF S
    <3> QED BY <3>1, <3>2, <3>3, Zenon
  <2>3. Due(k, f, t) = Least({x \in S : x > t})
    BY <1>2, <2>1, <2>2 DEF Due
  <2> HIDE DEF S
  <2> QED BY <1>3, <2>2, <2>3, LeastSteady
<1>5. CASE k \in Flags
  <2>1. Due(k, f, t) = Transition(k, f, t) /\ Transition(k, f, t) > t
    <3>1. k \notin ClockSensors
      BY <1>5 DEF ClockSensors, Flags
    <3> QED BY <1>5, <3>1, TransitionIs DEF Due
  <2>2. u < Transition(k, f, t)
    BY <2>1
  <2>3. CASE k = "absence_in_progress"
    <3> DEFINE B == {a.from : a \in f.absences} \union {a.to : a \in f.absences}
    <3>1. Transition(k, f, t) = NextBoundary(B, t)
      BY <2>3 DEF Transition
    <3>2. B \in SUBSET Instants
      BY DEF FactsRead, ReadAbsences
    <3>3. \A s \in B : s <= u <=> s <= t
      <4> HIDE DEF B
      <4> QED BY <2>2, <3>1, <3>2, NoneBetween
    <3>4. ASSUME NEW a \in f.absences
          PROVE  /\ a.from <= u <=> a.from <= t
                 /\ u < a.to <=> t < a.to
      <4>1. a.from \in B /\ a.to \in B
        OBVIOUS
      <4>2. a.from \in Nat /\ a.to \in Nat
        BY DEF FactsRead, ReadAbsences, Instants
      <4>3. (a.from <= u <=> a.from <= t) /\ (a.to <= u <=> a.to <= t)
        BY <3>3, <4>1
      <4> QED BY <4>2, <4>3
    <3>5. AbsenceInProgress(f, u) = AbsenceInProgress(f, t)
      BY <3>4 DEF AbsenceInProgress
    <3>6. PresentReading(k, f, u) = AbsenceInProgress(f, u) /\ PresentReading(k, f, t) = AbsenceInProgress(f, t)
      BY <2>3 DEF PresentReading
    <3> QED BY <3>5, <3>6, Zenon
  <2>4. CASE k = "punishment_upcoming"
    <3>1. Transition(k, f, t) = NextBoundary(S, t)
      BY <2>4 DEF Transition
    <3>2. \A s \in S : s <= u <=> s <= t
      <4> HIDE DEF S
      <4> QED BY <1>3, <2>2, <3>1, NoneBetween
    <3>3. \A s \in Slots(f) : s.start > u <=> s.start > t
      <4>1. \A s \in Slots(f) : s.start \in S
        OBVIOUS
      <4> HIDE DEF S
      <4>2. \A s \in Slots(f) : (s.start <= u <=> s.start <= t) /\ s.start \in Nat
        BY <1>3, <3>2, <4>1
      <4> QED BY <4>2
    <3>4. PunishmentUpcoming(f, u) = PunishmentUpcoming(f, t)
      BY <3>3 DEF PunishmentUpcoming
    <3>5. PresentReading(k, f, u) = PunishmentUpcoming(f, u) /\ PresentReading(k, f, t) = PunishmentUpcoming(f, t)
      BY <2>4 DEF PresentReading
    <3> QED BY <3>4, <3>5, Zenon
  <2> QED BY <1>5, <2>3, <2>4 DEF Flags
<1>6. CASE k \in {"unjustified_absences", "incidents"}
  BY <1>6 DEF PresentReading
<1> QED BY <1>1, <1>4, <1>5, <1>6 DEF Flags

\* Whatever the tier: an entity with a timer on what changes it, or that no clock changes,
\* reads the same until it looks again.
LEMMA Steady ==
    ASSUME tier \in ShownTiers, NEW f, FactsRead(f), NEW k \in TimedEntities,
           NEW t \in Nat, NEW u \in Nat, t <= u, Due(k, f, t) > t => u < Due(k, f, t)
    PROVE  Reading(k, f, u) = Reading(k, f, t)
<1>1. CASE tier = "timetable"
  BY <1>1, TimetableSteady DEF Reading
<1>2. CASE tier = "attendance"
  BY <1>2, AttendanceSteady DEF Reading
<1>3. CASE tier = "homework"
  <2>1. Reading(k, f, u) = PresentReading(k, f, u) /\ Reading(k, f, t) = PresentReading(k, f, t)
    BY <1>3 DEF Reading
  <2>2. k \in {"homework_overdue", "homework_list"}
    BY <1>3 DEF Entities, ClockSensors, Flags, PlainSensors, TimedEntities, MistimedSensors, UntimedSensors
  <2>3. CASE k = "homework_list"
    BY <2>1, <2>3 DEF PresentReading
  <2>4. CASE k = "homework_overdue"
    <3>1. k \in Flags /\ k \notin ClockSensors
      BY <1>3, <2>4 DEF Flags, ClockSensors
    <3>2. Due(k, f, t) = Transition(k, f, t) /\ Transition(k, f, t) > t
      BY <3>1, TransitionIs DEF Due
    <3>3. Transition(k, f, t) = NextMidnight(t)
      BY <2>4 DEF Transition
    <3>4. Day(u) = Day(t)
      BY <3>2, <3>3, SameDay
    <3>5. PresentReading(k, f, u) = HomeworkOverdue(f, u) /\ PresentReading(k, f, t) = HomeworkOverdue(f, t)
      BY <2>4 DEF PresentReading
    <3>6. HomeworkOverdue(f, u) = HomeworkOverdue(f, t)
      BY <3>4 DEF HomeworkOverdue, Late
    <3> QED BY <2>1, <3>5, <3>6, Zenon
  <2> QED BY <2>2, <2>3, <2>4
<1>4. CASE tier = "history"
  BY <1>4 DEF Reading
<1>5. CASE tier \in {"marks", "evaluations", "menus", "news", "discussions"}
  <2>1. Reading(k, f, u) = PresentReading(k, f, u) /\ Reading(k, f, t) = PresentReading(k, f, t)
    BY <1>5 DEF Reading
  <2>2. k \in {"latest_grade", "overall_average", "grades", "averages", "report_card",
               "evaluations", "unread_information", "information", "unread_messages",
               "discussions"}
    BY <1>5 DEF Entities, ClockSensors, Flags, PlainSensors, TimedEntities, MistimedSensors, UntimedSensors
  <2> QED BY <2>1, <2>2 DEF PresentReading
<1> QED BY <1>1, <1>2, <1>3, <1>4, <1>5, DisplayAssumption

\* An alarm is in the future.
LEMMA AlarmBound ==
    ASSUME NEW f, FactsRead(f), NEW k, NEW t \in Nat
    PROVE  Alarm(k, f, t) = None \/ (Alarm(k, f, t) \in Nat /\ Alarm(k, f, t) > t)
<1>1. Due(k, f, t) \in Int
  <2>1. CASE k \in ClockSensors
    BY <2>1, ClockReadings DEF Due
  <2>2. CASE k \notin ClockSensors /\ k \in Flags
    BY <2>2, TransitionIs DEF Due, Instants
  <2>3. CASE k \notin ClockSensors /\ k \notin Flags
    BY <2>3 DEF Due, None
  <2> QED BY <2>1, <2>2, <2>3
<1> QED BY <1>1, AlarmIs

\* Whatever such an entity waits for, it is an instant of the school.
LEMMA DueAtInstants ==
    ASSUME NEW f, FactsRead(f), NEW k \in TimedEntities, NEW t \in Nat, Due(k, f, t) > t
    PROVE  Due(k, f, t) \in Instants
<1>1. CASE k \in ClockSensors
  <2>1. Due(k, f, t) = Reading(k, f, t) /\ k \in {"next_lesson", "next_test", "next_punishment"}
    BY <1>1 DEF Due, ClockSensors, TimedEntities, MistimedSensors, UntimedSensors
  <2>2. \A S \in SUBSET Instants : Least(S) > t => Least(S) \in Instants
    <3> SUFFICES ASSUME NEW S \in SUBSET Instants, Least(S) > t PROVE Least(S) \in Instants
      OBVIOUS
    <3>1. S \in SUBSET Nat
      BY DEF Instants
    <3>2. Least(S) \in S \union {None}
      BY <3>1, LeastIs
    <3>3. Least(S) # None
      <4>1. ~ (None > t)
        BY DEF None
      <4> QED BY <4>1
    <3> QED BY <3>2, <3>3
  <2>3. CASE k = "next_punishment"
    <3>1. tier = "attendance"
      BY <1>1, <2>3 DEF ClockSensors
    <3>2. Reading(k, f, t) = Least({s.start : s \in {s \in Slots(f) : s.start > t}})
      BY <2>3, <3>1 DEF Reading, PresentReading, NextPunishment
    <3>3. {s.start : s \in {s \in Slots(f) : s.start > t}} \in SUBSET Instants
      BY <3>1 DEF FactsRead, ReadSlots
    <3> QED BY <2>1, <2>2, <3>2, <3>3
  <2>4. CASE k \in {"next_lesson", "next_test"}
    <3>1. tier = "timetable"
      BY <1>1, <2>4 DEF ClockSensors
    <3>2. Teaching(f) \in SUBSET ReadLessons /\ {l \in Teaching(f) : l.test} \in SUBSET ReadLessons
      BY <3>1, PickedLessons DEF FactsRead
    <3>3. /\ Starts(Teaching(f)) \in SUBSET Instants
          /\ Starts({l \in Teaching(f) : l.test}) \in SUBSET Instants
      BY <3>2, StartsAndEnds
    <3>4. CASE k = "next_lesson"
      <4>1. Reading(k, f, t) = Least({s \in Starts(Teaching(f)) : s > t})
        BY <3>1, <3>4 DEF Reading, PresentReading, NextLesson
      <4>2. {s \in Starts(Teaching(f)) : s > t} \in SUBSET Instants
        BY <3>3
      <4> QED BY <2>1, <2>2, <4>1, <4>2
    <3>5. CASE k = "next_test"
      <4>1. Reading(k, f, t) = Least({s \in Starts({l \in Teaching(f) : l.test}) : s > t})
        BY <3>1, <3>5 DEF Reading, PresentReading, NextTest
      <4>2. {s \in Starts({l \in Teaching(f) : l.test}) : s > t} \in SUBSET Instants
        BY <3>3
      <4> QED BY <2>1, <2>2, <4>1, <4>2
    <3> QED BY <2>4, <3>4, <3>5
  <2> QED BY <2>1, <2>3, <2>4
<1>2. CASE k \notin ClockSensors /\ k \in Flags
  BY <1>2, TransitionIs DEF Due
<1>3. CASE k \notin ClockSensors /\ k \notin Flags
  <2>1. Due(k, f, t) = None
    BY <1>3 DEF Due
  <2>2. ~ (None > t)
    BY DEF None
  <2> QED BY <2>1, <2>2
<1> QED BY <1>1, <1>2, <1>3

-----------------------------------------------------------------------------
(* What an entity shows is what it read when it was last written.           *)

\* What entity k shows and waits for is what it read and armed at t.
WrittenAt(k, t) == shown[k] = Reading(k, facts, t) /\ armed[k] = Alarm(k, facts, t)

\* No timer is in the past, and every entity was last written at some instant since which
\* neither its data nor its timer has changed.
TimerInv ==
    /\ tier \in ShownTiers /\ now \in Nat
    /\ shown = [k \in Entities |-> shown[k]] /\ armed = [k \in Entities |-> armed[k]]
    /\ \A k \in Entities : armed[k] = None \/ (armed[k] \in Nat /\ armed[k] >= now)
    /\ IF HasData
       THEN FactsRead(facts) /\ \A k \in Entities : \E t \in 0 .. now : WrittenAt(k, t)
       ELSE \A k \in Entities : armed[k] = None

\* The entities on time, from the last time they were written.
LEMMA OnTime == TimerInv => ShownOnTime
<1> SUFFICES ASSUME TimerInv, HasData, NEW k \in TimedEntities
             PROVE  \/ armed[k] = now
                    \/ shown[k] = Reading(k, facts, now)
                    \/ now % 2 = 0 /\ shown[k] = Reading(k, facts, now - 1)
  BY DEF ShownOnTime, Punctual
<1>1. FactsRead(facts) /\ now \in Nat /\ tier \in ShownTiers /\ k \in Entities
  BY DEF TimerInv, TimedEntities
<1>2. PICK t \in 0 .. now : WrittenAt(k, t)
  BY <1>1 DEF TimerInv
<1>3. t \in Nat /\ t <= now
  BY <1>1
<1>4. CASE ~ (Due(k, facts, t) > t)
  <2>1. Reading(k, facts, now) = Reading(k, facts, t)
    BY <1>1, <1>3, <1>4, Steady
  <2> QED BY <1>2, <2>1 DEF WrittenAt
<1>5. CASE Due(k, facts, t) > t
  <2> DEFINE due == Due(k, facts, t)
  <2>1. due \in Instants
    BY <1>1, <1>3, <1>5, DueAtInstants
  <2>2. armed[k] = due + 1
    BY <1>2, <1>5, AlarmIs DEF WrittenAt
  <2>3. due \in Nat /\ due % 2 = 0 /\ due > t
    BY <1>5, <2>1 DEF Instants
  <2>4. armed[k] >= now
    <3>1. armed[k] # None
      <4> HIDE DEF due
      <4> QED BY <2>2, <2>3 DEF None
    <3> QED BY <1>1, <3>1 DEF TimerInv
  <2>5. CASE now < due
    <3>1. Reading(k, facts, now) = Reading(k, facts, t)
      BY <1>1, <1>3, <2>5, Steady
    <3> QED BY <1>2, <3>1 DEF WrittenAt
  <2>6. CASE now = due
    <3>1. now - 1 \in Nat /\ t <= now - 1 /\ now - 1 < due
      <4> HIDE DEF due
      <4> QED BY <2>3, <2>6, <1>3
    <3>2. Reading(k, facts, now - 1) = Reading(k, facts, t)
      BY <1>1, <1>3, <3>1, Steady
    <3> QED BY <1>2, <2>3, <2>6, <3>2 DEF WrittenAt
  <2>7. CASE now > due
    <3> HIDE DEF due
    <3>1. now = due + 1
      BY <1>1, <2>2, <2>3, <2>4, <2>7
    <3> QED BY <2>2, <3>1
  <2> HIDE DEF due
  <2> QED BY <1>1, <2>3, <2>5, <2>6, <2>7
<1> QED BY <1>4, <1>5

-----------------------------------------------------------------------------
(* The other tiers' facts.                                                 *)

\* What FlattenSeq has put together after n lists.
Joining(g, seqs) == g[0] = <<>> /\ \A n \in 1 .. Len(seqs) : g[n] = g[n - 1] \o seqs[n]

\* The lists of an answer are put one after the other.
LEMMA FlattenSteps ==
    ASSUME NEW A, NEW seqs \in Seq(Seq(A))
    PROVE  \E g \in [0 .. Len(seqs) -> Seq(A)] :
              FlattenSeq(seqs) = g[Len(seqs)] /\ Joining(g, seqs)
<1> DEFINE N == Len(seqs)
           X == Seq(A)
           base == <<>>
           step == [n \in 1 .. N |-> [s \in X |-> s \o seqs[n]]]
<1>1. N \in Nat /\ DOMAIN seqs = 1 .. N /\ \A n \in 1 .. N : seqs[n] \in X
  OBVIOUS
<1>2. base \in X /\ step \in [1 .. N -> [X -> X]]
  <2>1. \A n \in 1 .. N, s \in X : s \o seqs[n] \in X
    BY <1>1
  <2>2. base \in X
    OBVIOUS
  <2> HIDE DEF N, X, base
  <2>3. step \in [1 .. N -> [X -> X]]
    BY <2>1
  <2> QED BY <2>2, <2>3
<1>3. PICK g \in [0 .. N -> X] : Steps(g, N, base, step)
  <2> HIDE DEF N, step, X, base
  <2> QED BY <1>1, <1>2, Recursion
<1>4. \A n \in 1 .. N : n - 1 \in 0 .. N /\ g[n] = g[n - 1] \o seqs[n]
  <2> SUFFICES ASSUME NEW n \in 1 .. N
               PROVE  n - 1 \in 0 .. N /\ g[n] = g[n - 1] \o seqs[n]
    OBVIOUS
  <2>1. n - 1 \in 0 .. N
    BY <1>1
  <2>2. g[n - 1] \in X
    <3> HIDE DEF X, N, step
    <3> QED BY <2>1
  <2>3. step[n][g[n - 1]] = g[n - 1] \o seqs[n]
    <3> HIDE DEF X, N
    <3> QED BY <2>2
  <2> QED BY <2>1, <2>3, <1>3 DEF Steps
<1>5. g[0] = <<>>
  BY <1>3 DEF Steps
<1> HIDE DEF step, base
<1>6. CASE N = 0
  <2>1. FlattenSeq(seqs) = seqs
    BY <1>6 DEF FlattenSeq
  <2>2. seqs = <<>>
    BY <1>6
  <2>3. g[N] = <<>>
    BY <1>5, <1>6
  <2>4. FlattenSeq(seqs) = g[N] /\ Joining(g, seqs)
    BY <1>4, <1>5, <2>1, <2>2, <2>3 DEF Joining
  <2> QED BY <2>4
<1>7. CASE N # 0
  <2> DEFINE Row(f) == [i \in 1 .. N |-> IF i = 1 THEN seqs[i] ELSE f[i - 1] \o seqs[i]]
             h == [i \in 1 .. N |-> g[i]]
             f == CHOOSE f : f = Row(f)
  <2>1. h = Row(h)
    <3> SUFFICES ASSUME NEW i \in 1 .. N
                 PROVE  g[i] = IF i = 1 THEN seqs[i] ELSE h[i - 1] \o seqs[i]
      OBVIOUS
    <3>1. g[i] = g[i - 1] \o seqs[i]
      BY <1>4
    <3>2. CASE i = 1
      <4>1. seqs[1] \in Seq(A)
        BY <1>1, <3>2
      <4>2. <<>> \o seqs[1] = seqs[1]
        BY <4>1
      <4>3. i - 1 = 0
        BY <3>2
      <4>4. g[i] = seqs[i]
        <5> HIDE DEF h, N
        <5> QED BY <1>5, <3>1, <3>2, <4>2, <4>3
      <4> HIDE DEF h, N
      <4> QED BY <3>2, <4>4
    <3>3. CASE i # 1
      <4>1. i - 1 \in 1 .. N
        BY <3>3, <1>1
      <4>2. h[i - 1] = g[i - 1]
        <5> DEFINE j == i - 1
        <5>1. h[j] = g[j]
          <6> HIDE DEF j, N
          <6> QED BY <4>1 DEF j
        <5> QED BY <5>1
      <4>3. g[i] = h[i - 1] \o seqs[i]
        <5> HIDE DEF h, N
        <5> QED BY <3>1, <4>2
      <4> HIDE DEF h, N
      <4> QED BY <3>3, <4>3
    <3> QED BY <3>2, <3>3
  <2>2. f = Row(f)
    <3> HIDE DEF Row, h
    <3> QED BY <2>1
  <2>3. FlattenSeq(seqs) = f[N]
    BY <1>7 DEF FlattenSeq
  <2>4. \A i \in 1 .. N : f[i] = IF i = 1 THEN seqs[i] ELSE f[i - 1] \o seqs[i]
    <3>1. \A i \in 1 .. N : Row(f)[i] = IF i = 1 THEN seqs[i] ELSE f[i - 1] \o seqs[i]
      <4> HIDE DEF f
      <4> QED OBVIOUS
    <3> HIDE DEF f, Row
    <3> QED BY <2>2, <3>1
  <2> DEFINE P == {n \in 0 .. N : n # 0 => f[n] = g[n]}
  <2> HIDE DEF f, X
  <2>5. 0 \in P
    BY <1>1
  <2>6. ASSUME NEW n \in 0 .. N - 1, n \in P PROVE n + 1 \in P
    <3>1. n + 1 \in 1 .. N /\ n + 1 \in 0 .. N /\ (n + 1) - 1 = n
      BY <1>1
    <3>2. f[n + 1] = IF n + 1 = 1 THEN seqs[n + 1] ELSE f[n] \o seqs[n + 1]
      BY <2>4, <3>1
    <3>3. g[n + 1] = g[n] \o seqs[n + 1]
      <4> HIDE DEF N
      <4> QED BY <1>4, <3>1
    <3>4. CASE n = 0
      <4>1. f[n + 1] = seqs[n + 1]
        BY <3>2, <3>4
      <4>2. seqs[n + 1] \in Seq(A)
        BY <1>1, <3>1 DEF X
      <4>3. g[n] = <<>>
        BY <1>5, <3>4
      <4>4. g[n + 1] = seqs[n + 1]
        BY <3>3, <4>2, <4>3
      <4> QED BY <3>1, <4>1, <4>4
    <3>5. CASE n # 0
      <4>1. f[n] = g[n]
        BY <2>6, <3>5
      <4>2. n + 1 # 1
        BY <1>1, <3>5
      <4>3. f[n + 1] = f[n] \o seqs[n + 1]
        BY <3>2, <4>2
      <4> QED BY <3>1, <3>3, <4>1, <4>3
    <3> QED BY <3>4, <3>5
  <2>7. 0 .. N \subseteq P
    <3> HIDE DEF P, N
    <3> QED BY <1>1, <2>5, <2>6, Induction
  <2>8. N \in P
    BY <1>1, <2>7
  <2>9. FlattenSeq(seqs) = g[N] /\ Joining(g, seqs)
    BY <1>4, <1>5, <1>7, <2>3, <2>8 DEF Joining
  <2> QED BY <2>9 DEF X
<1> QED BY <1>6, <1>7

\* They are a list of what is in one of them.
LEMMA FlattenIs ==
    ASSUME NEW A, NEW seqs \in Seq(Seq(A))
    PROVE  /\ FlattenSeq(seqs) \in Seq(A)
           /\ Range(FlattenSeq(seqs)) = UNION {Range(seqs[n]) : n \in DOMAIN seqs}
<1> DEFINE N == Len(seqs)
<1>1. N \in Nat /\ DOMAIN seqs = 1 .. N /\ \A n \in 1 .. N : seqs[n] \in Seq(A)
  OBVIOUS
<1>2. PICK g \in [0 .. N -> Seq(A)] : FlattenSeq(seqs) = g[N] /\ Joining(g, seqs)
  BY FlattenSteps
<1> DEFINE P == {n \in 0 .. N : Range(g[n]) = UNION {Range(seqs[i]) : i \in 1 .. n}}
<1>3. 0 \in P
  BY <1>1, <1>2 DEF Joining, Range
<1>4. ASSUME NEW n \in 0 .. N - 1, n \in P PROVE n + 1 \in P
  <2>1. n + 1 \in 1 .. N /\ n + 1 \in 0 .. N /\ n \in 0 .. N /\ (n + 1) - 1 = n
    BY <1>1
  <2>2. g[n + 1] = g[n] \o seqs[n + 1]
    BY <1>2, <2>1 DEF Joining
  <2>3. g[n] \in Seq(A) /\ seqs[n + 1] \in Seq(A)
    <3> HIDE DEF N
    <3> QED BY <1>1, <2>1
  <2>4. Range(g[n + 1]) = Range(g[n]) \union Range(seqs[n + 1])
    <3> DEFINE a == g[n]
               b == seqs[n + 1]
    <3>1. a \in Seq(A) /\ b \in Seq(A)
      BY <2>3
    <3> HIDE DEF a, b
    <3>2. Range(a \o b) = Range(a) \union Range(b)
      <4>1. Len(a) \in Nat /\ Len(b) \in Nat /\ DOMAIN a = 1 .. Len(a) /\ DOMAIN b = 1 .. Len(b)
            /\ DOMAIN (a \o b) = 1 .. Len(a) + Len(b)
        BY <3>1
      <4>2. \A i \in 1 .. Len(a) : (a \o b)[i] = a[i]
        BY <3>1
      <4>3. \A i \in 1 .. Len(b) : (a \o b)[Len(a) + i] = b[i]
        BY <3>1
      <4>4. \A i \in 1 .. Len(a) + Len(b) : i \in 1 .. Len(a) \/ \E j \in 1 .. Len(b) : i = Len(a) + j
        <5> SUFFICES ASSUME NEW i \in 1 .. Len(a) + Len(b), i \notin 1 .. Len(a)
                     PROVE  \E j \in 1 .. Len(b) : i = Len(a) + j
          OBVIOUS
        <5>1. i - Len(a) \in 1 .. Len(b) /\ i = Len(a) + (i - Len(a))
          BY <4>1
        <5> QED BY <5>1
      <4>5. \A i \in DOMAIN (a \o b) : (a \o b)[i] \in Range(a) \union Range(b)
        <5> SUFFICES ASSUME NEW i \in 1 .. Len(a) + Len(b)
                     PROVE  (a \o b)[i] \in Range(a) \union Range(b)
          BY <4>1
        <5>1. CASE i \in 1 .. Len(a)
          BY <4>1, <4>2, <5>1 DEF Range
        <5>2. CASE \E j \in 1 .. Len(b) : i = Len(a) + j
          BY <4>1, <4>3, <5>2 DEF Range
        <5> QED BY <4>4, <5>1, <5>2
      <4>6. \A i \in 1 .. Len(a) : i \in DOMAIN (a \o b)
        BY <4>1
      <4>7. \A i \in 1 .. Len(b) : Len(a) + i \in DOMAIN (a \o b)
        BY <4>1
      <4>8. Range(a) \subseteq Range(a \o b) /\ Range(b) \subseteq Range(a \o b)
        BY <4>1, <4>2, <4>3, <4>6, <4>7 DEF Range
      <4> QED BY <4>5, <4>8 DEF Range
    <3> QED BY <2>2, <3>2 DEF a, b
  <2>5. 1 .. n + 1 = 1 .. n \union {n + 1}
    BY <2>1
  <2> HIDE DEF N
  <2>6. UNION {Range(seqs[i]) : i \in 1 .. n + 1} =
          (UNION {Range(seqs[i]) : i \in 1 .. n}) \union Range(seqs[n + 1])
    BY <2>5
  <2>7. Range(g[n + 1]) = UNION {Range(seqs[i]) : i \in 1 .. n + 1}
    BY <1>4, <2>4, <2>6
  <2> QED BY <2>1, <2>7
<1>5. N \in P
  <2> HIDE DEF P, N
  <2>1. 0 .. N \subseteq P
    BY <1>1, <1>3, <1>4, Induction
  <2> QED BY <1>1, <2>1
<1> QED BY <1>1, <1>2, <1>5

\* A mark is a number or the reason there is none, never both.
LEMMA MarksTyped ==
    ASSUME NEW answer
    PROVE  \A g \in Range(MarksFacts(answer).grades) : g.value = None \/ g.status = None
<1> DEFINE dated == OnlyIn(answer.grades, {e \in Range(answer.grades) : e.dated})
<1>1. MarksFacts(answer).grades = [i \in DOMAIN dated |-> Grade(dated[i])]
  BY DEF MarksFacts
<1>2. ASSUME NEW e PROVE Grade(e).value = None \/ Grade(e).status = None
  BY DEF Grade, Number, Sentinel
<1> HIDE DEF dated
<1> QED BY <1>1, <1>2 DEF Range

\* What a tier makes of an answer is typed.
LEMMA FactsAreTyped ==
    ASSUME tier \in ShownTiers, now \in Nat, NEW answer \in Answers[tier]
    PROVE  FactsTyped(Facts(answer, now), now)
<1>1. answer \in AnswersOf(tier)
  BY DisplayAssumption
<1>2. CASE tier = "timetable"
  <2>1. FactsRead(Facts(answer, now))
    BY FactsAreRead
  <2>2. \A l \in Facts(answer, now) : l.start \in Nat /\ l.end > l.start
    BY <1>2, <2>1 DEF FactsRead, ReadLessons, Instants
  <2> QED BY <1>2, <2>2 DEF FactsTyped
<1>3. CASE tier = "homework"
  <2>1. answer \in SUBSET HomeworkItems
    BY <1>1, <1>3 DEF AnswersOf
  <2>2. Facts(answer, now) = HomeworkFacts(answer)
    BY <1>3 DEF Facts
  <2>3. ASSUME NEW i \in HomeworkFacts(answer) PROVE Week(i.due) \in FirstWeek .. LastWeek
    <3>1. PICK e \in answer : /\ FirstWeek <= Week(e.due) /\ Week(e.due) <= LastWeek
                             /\ i = [id |-> e.id, due |-> e.due, done |-> e.done]
      BY DEF HomeworkFacts
    <3>2. Week(e.due) \in Nat
      <4>1. e.due \in Nat /\ WeekLength \in Nat \ {0}
        BY <2>1, ViewsAssumption DEF HomeworkItems
      <4> QED BY <4>1, Quotient DEF Week
    <3>3. i.due = e.due /\ FirstWeek \in Nat /\ LastWeek \in Nat
      BY <3>1, ViewsAssumption
    <3> QED BY <3>1, <3>2, <3>3
  <2> QED BY <1>3, <2>2, <2>3 DEF FactsTyped
<1>4. CASE tier = "attendance"
  <2>1. Facts(answer, now) = AttendanceTier(answer)
    BY <1>4 DEF Facts
  <2>2. DOMAIN AttendanceTier(answer) = DOMAIN NoAttendance
    BY DEF AttendanceTier, AttendanceFacts, NoAttendance
  <2> QED BY <1>4, <2>1, <2>2 DEF FactsTyped
<1>5. CASE tier = "marks"
  <2>1. Facts(answer, now) = MarksTier(answer)
    BY <1>5 DEF Facts
  <2>2. \A g \in Range(MarksTier(answer).grades) : g.value = None \/ g.status = None
    <3>1. CASE HasPeriod(answer)
      BY <3>1, MarksTyped DEF MarksTier
    <3>2. CASE ~HasPeriod(answer)
      BY <3>2 DEF MarksTier, NoMarks, Range
    <3> QED BY <3>1, <3>2
  <2> QED BY <1>5, <2>1, <2>2 DEF FactsTyped
<1>6. CASE tier = "menus"
  <2> DEFINE Meals == [day : Nat, lunch : BOOLEAN, dishes : Nat]
             kept == {m \in Range(answer) : m.day \in {Day(now), Day(now) + 1}}
  <2>1. answer \in Seq(Meals)
    BY <1>1, <1>6 DEF AnswersOf
  <2>2. Facts(answer, now) = OnlyIn(answer, kept)
    BY <1>6 DEF Facts, MenusFacts
  <2>3. Range(OnlyIn(answer, kept)) \subseteq kept
    <3> HIDE DEF kept, Meals
    <3> QED BY <2>1, Selection
  <2>4. \A m \in kept : m.day \in Day(now) .. Day(now) + 1
    <3>1. Day(now) \in Nat
      BY DayIs
    <3> QED BY <3>1
  <2> HIDE DEF kept
  <2> QED BY <1>6, <2>2, <2>3, <2>4 DEF FactsTyped
<1>7. CASE tier = "evaluations"
  <2>1. answer.entries \in SUBSET [id : Nat, readable : BOOLEAN]
    BY <1>1, <1>7 DEF AnswersOf
  <2>2. Facts(answer, now) = EvaluationsTier(answer)
    BY <1>7 DEF Facts
  <2>3. \A i \in EvaluationsTier(answer) : i \in Nat
    BY <2>1 DEF EvaluationsTier, EvaluationsFacts
  <2> QED BY <1>7, <2>2, <2>3 DEF FactsTyped
<1>8. CASE tier = "news"
  <2> DEFINE Entries == [id : Nat, read : BOOLEAN, dated : BOOLEAN]
             dated(g) == OnlyIn(answer[g], {e \in Range(answer[g]) : e.dated})
             groups == [g \in DOMAIN answer |-> dated(g)]
             entries == FlattenSeq(groups)
  <2>1. answer \in Seq(Seq(Entries))
    BY <1>1, <1>8 DEF AnswersOf
  <2>2. groups \in Seq(Seq(Entries))
    <3> HIDE DEF Entries
    <3>1. ASSUME NEW g \in DOMAIN answer PROVE dated(g) \in Seq(Entries)
      <4> DEFINE S == {e \in Range(answer[g]) : e.dated}
      <4>1. answer[g] \in Seq(Entries)
        BY <2>1
      <4> HIDE DEF S
      <4>2. OnlyIn(answer[g], S) \in Seq(Entries)
        BY <4>1, Selection
      <4> QED BY <4>2 DEF S
    <3>2. DOMAIN answer = 1 .. Len(answer) /\ Len(answer) \in Nat
      BY <2>1
    <3> HIDE DEF dated
    <3> QED BY <3>1, <3>2
  <2>3. entries \in Seq(Entries)
    <3> HIDE DEF groups, Entries
    <3> QED BY <2>2, FlattenIs
  <2>4. Facts(answer, now) = [i \in DOMAIN entries |-> [id |-> entries[i].id, read |-> entries[i].read]]
    BY <1>8 DEF Facts, NewsFacts
  <2> HIDE DEF entries
  <2>5. \A j \in DOMAIN entries : entries[j].read \in BOOLEAN
    <3>1. \A j \in DOMAIN entries : entries[j] \in Entries
      <4> HIDE DEF Entries
      <4> QED BY <2>3
    <3> QED BY <3>1
  <2> HIDE DEF Entries
  <2>6. \A i \in Range(Facts(answer, now)) : i.read \in BOOLEAN
    BY <2>4, <2>5 DEF Range
  <2> QED BY <1>8, <2>6 DEF FactsTyped
<1>9. CASE tier = "discussions"
  <2> DEFINE Talks == [id : Nat, unread : Nat, hidden : BOOLEAN]
             kept == {t \in Range(answer) : ~t.hidden}
             visible == OnlyIn(answer, kept)
  <2>1. answer \in Seq(Talks)
    BY <1>1, <1>9 DEF AnswersOf
  <2>2. visible \in Seq(Talks)
    <3> HIDE DEF kept, Talks
    <3> QED BY <2>1, Selection
  <2>3. Facts(answer, now) = [i \in DOMAIN visible |-> [id |-> visible[i].id, unread |-> visible[i].unread]]
    BY <1>9 DEF Facts, ThreadFacts
  <2> HIDE DEF visible
  <2>4. \A j \in DOMAIN visible : visible[j].unread \in Nat
    <3>1. \A j \in DOMAIN visible : visible[j] \in Talks
      <4> HIDE DEF Talks
      <4> QED BY <2>2
    <3> QED BY <3>1
  <2> HIDE DEF Talks
  <2>5. \A t \in Range(Facts(answer, now)) : t.unread \in Nat
    BY <2>3, <2>4 DEF Range
  <2> QED BY <1>9, <2>5 DEF FactsTyped
<1>10. CASE tier = "history"
  <2>1. Facts(answer, now) = HistoryFacts(answer, now)
    BY <1>10 DEF Facts
  <2>2. \A p \in DOMAIN HistoryFacts(answer, now) :
           HistoryFacts(answer, now)[p].marks = MarksFacts(answer.terms[p])
    BY DEF HistoryFacts
  <2>3. \A p \in DOMAIN HistoryFacts(answer, now) :
           \A g \in Range(HistoryFacts(answer, now)[p].marks.grades) :
              g.value = None \/ g.status = None
    BY <2>2, MarksTyped
  <2> QED BY <1>10, <2>1, <2>3 DEF FactsTyped
<1> QED BY <1>2, <1>3, <1>4, <1>5, <1>6, <1>7, <1>8, <1>9, <1>10, DisplayAssumption

-----------------------------------------------------------------------------
(* The entities, from one step to the next.                                *)

\* A flag is up or down.
LEMMA FlagReadings ==
    ASSUME tier \in ShownTiers, NEW f, NEW k \in Flags, NEW t
    PROVE  Reading(k, f, t) \in BOOLEAN
<1>1. k \in {"school_day", "in_class", "lessons_canceled", "outing_today", "test_today", "holidays",
             "absence_in_progress", "punishment_upcoming", "homework_overdue"}
  BY DEF Flags
<1>2. tier # "history"
  BY DEF Flags
<1>3. Reading(k, f, t) = PresentReading(k, f, t)
  BY <1>2 DEF Reading
<1>4. PresentReading(k, f, t) \in BOOLEAN
  <2>1. CASE k \in {"school_day", "in_class", "lessons_canceled", "outing_today", "test_today", "holidays"}
    BY <2>1 DEF PresentReading, SchoolDay, InClass, LessonsCanceled, OutingToday, TestToday, Holidays,
       NothingAhead, NothingThisWeek
  <2>2. CASE k \in {"absence_in_progress", "punishment_upcoming", "homework_overdue"}
    BY <2>2 DEF PresentReading, AbsenceInProgress, PunishmentUpcoming, HomeworkOverdue
  <2> QED BY <1>1, <2>1, <2>2
<1> QED BY <1>3, <1>4

\* Two readings for as long as the tier is the same.
LEMMA SameTier ==
    ASSUME tier' = tier
    PROVE  /\ Entities' = Entities
           /\ \A k, t : WrittenAt(k, t)' =
                 (shown'[k] = Reading(k, facts', t) /\ armed'[k] = Alarm(k, facts', t))
<1>1. Entities' = Entities
  BY DEF Entities, ClockSensors, Flags, PlainSensors
<1>2. ASSUME NEW k, NEW t
      PROVE  WrittenAt(k, t)' = (shown'[k] = Reading(k, facts', t) /\ armed'[k] = Alarm(k, facts', t))
  BY DEF WrittenAt, Reading, Alarm, ClockSensors, Flags
<1> QED BY <1>1, <1>2

\* What S writes over the data f, and what the other entities wrote over the same data
\* (async_write_ha_state, _arm).
LEMMA WriteKeeps ==
    ASSUME tier \in ShownTiers, now \in Nat, tier' = tier, now' = now, HasData',
           NEW f, FactsRead(f), facts' = f, NEW S \in SUBSET Entities,
           shown' = [k \in Entities |-> IF k \in S THEN Reading(k, f, now) ELSE shown[k]],
           armed' = [k \in Entities |-> IF k \in S THEN Alarm(k, f, now) ELSE armed[k]],
           \A k \in Entities \ S :
              /\ armed[k] = None \/ (armed[k] \in Nat /\ armed[k] >= now)
              /\ \E t \in 0 .. now : shown[k] = Reading(k, f, t) /\ armed[k] = Alarm(k, f, t)
    PROVE  TimerInv'
<1>1. Entities' = Entities
  BY SameTier
<1>2. ASSUME NEW k \in Entities
      PROVE  /\ armed'[k] = None \/ (armed'[k] \in Nat /\ armed'[k] >= now)
             /\ \E t \in 0 .. now : shown'[k] = Reading(k, f, t) /\ armed'[k] = Alarm(k, f, t)
  <2>1. CASE k \in S
    <3>1. shown'[k] = Reading(k, f, now) /\ armed'[k] = Alarm(k, f, now) /\ now \in 0 .. now
      BY <2>1
    <3>2. Alarm(k, f, now) = None \/ (Alarm(k, f, now) \in Nat /\ Alarm(k, f, now) > now)
      BY AlarmBound
    <3>3. armed'[k] = None \/ (armed'[k] \in Nat /\ armed'[k] >= now)
      BY <3>1, <3>2
    <3> QED BY <3>1, <3>3
  <2>2. CASE k \notin S
    <3>1. shown'[k] = shown[k] /\ armed'[k] = armed[k]
      BY <2>2
    <3> QED BY <2>2, <3>1
  <2> QED BY <2>1, <2>2
<1>3. \A k \in Entities : \E t \in 0 .. now : WrittenAt(k, t)'
  BY <1>2, SameTier
<1>4. FactsRead(facts)'
  BY DEF FactsRead
<1>5. shown' = [k \in Entities |-> shown'[k]] /\ armed' = [k \in Entities |-> armed'[k]]
  OBVIOUS
<1> QED BY <1>1, <1>2, <1>3, <1>4, <1>5 DEF TimerInv

\* The entities' timers, the snapshot and the schedule.
DisplayInv ==
    /\ TimerInv
    /\ now <= MaxNow /\ succeeded \in BOOLEAN
    /\ {fetchedAt, collectedAt} \subseteq 0 .. now \union {None}
    /\ (fetchedAt = None) = (collectedAt = None)
    /\ available \in [Entities -> BOOLEAN]
    /\ IF HasData THEN FactsTyped(facts, fetchedAt) ELSE shown = [k \in Entities |-> Unknown]

\* Such a state is well typed.
LEMMA Shapes == DisplayInv => DisplayTypeOK
<1> SUFFICES ASSUME DisplayInv PROVE DisplayTypeOK
  OBVIOUS
<1>1. tier \in ShownTiers /\ now \in 0 .. MaxNow /\ DOMAIN shown = Entities
  <2>1. MaxNow \in Nat /\ now \in Nat /\ now <= MaxNow
    BY DisplayAssumption DEF DisplayInv, TimerInv
  <2> QED BY <2>1 DEF DisplayInv, TimerInv
<1>2. \A k \in Entities : armed[k] = None \/ armed[k] >= now
  BY DEF DisplayInv, TimerInv
<1>3. ASSUME HasData
      PROVE  /\ FactsTyped(facts, fetchedAt)
             /\ \A k \in ClockSensors : shown[k] \in Int
             /\ \A k \in Flags : shown[k] \in BOOLEAN
  <2>1. FactsRead(facts) /\ now \in Nat
    BY <1>3 DEF DisplayInv, TimerInv
  <2>2. ASSUME NEW k \in Entities PROVE \E t \in Nat : shown[k] = Reading(k, facts, t)
    <3>1. PICK t \in 0 .. now : WrittenAt(k, t)
      BY <1>3 DEF DisplayInv, TimerInv
    <3>2. t \in Nat
      BY <2>1
    <3> QED BY <3>1, <3>2 DEF WrittenAt
  <2>3. ASSUME NEW k \in ClockSensors PROVE shown[k] \in Int
    <3>1. k \in Entities
      BY DEF Entities
    <3> QED BY <2>1, <2>2, <3>1, ClockReadings
  <2>4. ASSUME NEW k \in Flags PROVE shown[k] \in BOOLEAN
    <3>1. k \in Entities
      BY DEF Entities
    <3>2. PICK t \in Nat : shown[k] = Reading(k, facts, t)
      BY <2>2, <3>1
    <3>3. Reading(k, facts, t) \in BOOLEAN
      BY <1>1, FlagReadings
    <3> QED BY <3>2, <3>3, Zenon
  <2>5. FactsTyped(facts, fetchedAt)
    BY <1>3 DEF DisplayInv
  <2> QED BY <2>3, <2>4, <2>5
<1> QED BY <1>1, <1>2, <1>3 DEF DisplayInv, DisplayTypeOK

\* A write leaves the availability a Boolean.
LEMMA Availability ==
    ASSUME available \in [Entities -> BOOLEAN], tier' = tier, NEW dated, NEW S, NEW f,
           available' = [k \in Entities |->
                           IF k \in S THEN ~Stale(collectedAt, dated, now) ELSE available[k]]
    PROVE  available' \in [Entities' -> BOOLEAN]
<1>1. Stale(collectedAt, dated, now) \in BOOLEAN
  BY DEF Stale
<1>2. Entities' = Entities
  BY SameTier
<1>3. \A k \in Entities : available[k] \in BOOLEAN
  BY Zenon
<1> QED BY <1>1, <1>2, <1>3

\* The entities in S look at the data they already have: nothing else moves.
LEMMA LookKeeps ==
    ASSUME DisplayInv, HasData, NEW dated, NEW S \in SUBSET Entities, WriteAt(dated, S, facts),
           succeeded' \in BOOLEAN, UNCHANGED <<tier, now, facts, fetchedAt, collectedAt>>
    PROVE  DisplayInv'
<1>1. HasData'
  BY DEF HasData
<1>2. TimerInv'
  <2>1. tier \in ShownTiers /\ now \in Nat /\ FactsRead(facts)
    BY DEF DisplayInv, TimerInv
  <2>2. /\ shown' = [k \in Entities |-> IF k \in S THEN Reading(k, facts, now) ELSE shown[k]]
        /\ armed' = [k \in Entities |-> IF k \in S THEN Alarm(k, facts, now) ELSE armed[k]]
    BY DEF WriteAt
  <2>3. \A k \in Entities \ S :
           /\ armed[k] = None \/ (armed[k] \in Nat /\ armed[k] >= now)
           /\ \E t \in 0 .. now : shown[k] = Reading(k, facts, t) /\ armed[k] = Alarm(k, facts, t)
    BY DEF DisplayInv, TimerInv, WrittenAt
  <2> QED BY <1>1, <2>1, <2>2, <2>3, WriteKeeps
<1>3. available' \in [Entities' -> BOOLEAN]
  BY Availability DEF WriteAt, DisplayInv
<1>4. FactsTyped(facts, fetchedAt)'
  BY DEF DisplayInv, FactsTyped
<1> QED BY <1>1, <1>2, <1>3, <1>4 DEF DisplayInv

\* A publication: every entity reads the new data, which came of an answer.
LEMMA PublishKeeps ==
    ASSUME DisplayInv, NEW answer \in Answers[tier], Publish(answer)
    PROVE  DisplayInv'
<1>1. /\ tier \in ShownTiers /\ now \in Nat /\ now # None /\ tier' = tier /\ now' = now
      /\ fetchedAt' = now /\ collectedAt' = now /\ succeeded' = TRUE /\ facts' = Facts(answer, now)
  BY DEF DisplayInv, TimerInv, Publish, None
<1>2. HasData'
  BY <1>1 DEF HasData
<1>3. FactsRead(Facts(answer, now)) /\ FactsTyped(Facts(answer, now), now)
  BY <1>1, FactsAreRead, FactsAreTyped
<1>4. /\ shown' = [k \in Entities |-> IF k \in Entities THEN Reading(k, facts', now) ELSE shown[k]]
      /\ available' = [k \in Entities |->
                         IF k \in Entities THEN ~Stale(collectedAt, datedAt, now) ELSE available[k]]
      /\ armed' = [k \in Entities |-> IF k \in Entities THEN Alarm(k, facts', now) ELSE armed[k]]
  BY DEF Publish, Write, WriteAt
<1>5. TimerInv'
  <2> DEFINE f == Facts(answer, now)
  <2>1. /\ shown' = [k \in Entities |-> IF k \in Entities THEN Reading(k, f, now) ELSE shown[k]]
        /\ armed' = [k \in Entities |-> IF k \in Entities THEN Alarm(k, f, now) ELSE armed[k]]
    BY <1>1, <1>4
  <2>2. FactsRead(f) /\ facts' = f /\ Entities \in SUBSET Entities
    BY <1>1, <1>3
  <2> HIDE DEF f
  <2> QED BY <1>1, <1>2, <2>1, <2>2, WriteKeeps
<1>6. available' \in [Entities' -> BOOLEAN]
  BY <1>1, <1>4, Availability DEF DisplayInv
<1>7. FactsTyped(facts, fetchedAt)'
  BY <1>1, <1>3 DEF FactsTyped
<1> QED BY <1>1, <1>2, <1>5, <1>6, <1>7 DEF DisplayInv

\* Every step of the entities.
LEMMA StepKeeps == DisplayInv /\ [DisplayNext]_displayVars => DisplayInv'
<1> SUFFICES ASSUME DisplayInv, [DisplayNext]_displayVars PROVE DisplayInv'
  OBVIOUS
<1>1. tier \in ShownTiers /\ now \in Nat /\ MaxNow \in Nat /\ Entities \in SUBSET Entities
  BY DisplayAssumption DEF DisplayInv, TimerInv
<1>2. ASSUME UNCHANGED <<tier, now, facts, fetchedAt, collectedAt, shown, available, armed>>,
             succeeded' \in BOOLEAN
      PROVE  DisplayInv'
  <2>1. Entities' = Entities /\ (HasData' <=> HasData)
    BY <1>2, SameTier DEF HasData
  <2>2. FactsTyped(facts, fetchedAt)' <=> FactsTyped(facts, fetchedAt)
    BY <1>2 DEF FactsTyped
  <2>3. FactsRead(facts)' <=> FactsRead(facts)
    BY <1>2 DEF FactsRead
  <2>4. \A k, t : WrittenAt(k, t)' = WrittenAt(k, t)
    BY <1>2, SameTier DEF WrittenAt
  <2>5. TimerInv'
    BY <1>2, <2>1, <2>3, <2>4 DEF DisplayInv, TimerInv
  <2> QED BY <1>2, <2>1, <2>2, <2>5 DEF DisplayInv
<1>3. CASE CollectionFails
  <2>1. UNCHANGED <<tier, now, facts, fetchedAt, collectedAt>> /\ succeeded' \in BOOLEAN
    BY <1>3 DEF CollectionFails
  <2>2. CASE HasData
    BY <1>1, <1>3, <2>1, <2>2, LookKeeps DEF CollectionFails, Write
  <2>3. CASE ~HasData
    BY <1>2, <1>3, <2>1, <2>3 DEF CollectionFails
  <2> QED BY <2>2, <2>3
<1>4. ASSUME NEW k \in Entities, LookAgain(k) PROVE DisplayInv'
  <2>1. HasData
    <3>1. armed[k] # None
      BY <1>1, <1>4 DEF LookAgain, None
    <3> QED BY <3>1 DEF DisplayInv, TimerInv
  <2>2. WriteAt(datedAt, {k}, facts) /\ UNCHANGED <<tier, now, facts, fetchedAt, collectedAt, succeeded>>
    BY <1>4 DEF LookAgain, Write
  <2>3. succeeded' \in BOOLEAN
    BY <2>2 DEF DisplayInv
  <2> QED BY <2>1, <2>2, <2>3, LookKeeps
<1>5. CASE TickItem
  <2>1. /\ HasData /\ WriteAt(datedAt, {"homework_list"}, facts) /\ tier = "homework"
        /\ UNCHANGED <<tier, now, facts, fetchedAt, collectedAt, succeeded>>
    BY <1>5 DEF TickItem, Write
  <2>2. {"homework_list"} \in SUBSET Entities
    BY <2>1 DEF Entities, PlainSensors
  <2>3. succeeded' \in BOOLEAN
    BY <2>1 DEF DisplayInv
  <2> QED BY <2>1, <2>2, <2>3, LookKeeps
<1>6. ASSUME NEW kept \in BOOLEAN, Reload(kept) PROVE DisplayInv'
  <2>1. HasData /\ UNCHANGED <<tier, now>> /\ succeeded' \in BOOLEAN
    BY <1>6 DEF Reload
  <2>2. CASE kept
    <3>1. WriteAt(None, Entities, facts) /\ UNCHANGED <<facts, fetchedAt, collectedAt>>
      BY <1>6, <2>2 DEF Reload
    <3> QED BY <1>1, <2>1, <3>1, LookKeeps
  <2>3. CASE ~kept
    <3>1. /\ fetchedAt' = None /\ collectedAt' = None
          /\ shown' = [k \in Entities |-> Unknown] /\ available' = [k \in Entities |-> FALSE]
          /\ armed' = [k \in Entities |-> None]
      BY <1>6, <2>3 DEF Reload
    <3>2. Entities' = Entities /\ ~HasData'
      BY <2>1, <3>1, SameTier DEF HasData
    <3>3. TimerInv'
      BY <1>1, <2>1, <3>1, <3>2 DEF TimerInv
    <3> QED BY <2>1, <3>1, <3>2, <3>3 DEF DisplayInv
  <2> QED BY <2>2, <2>3
<1>7. CASE Tick
  <2>1. /\ now' = now + 1 /\ now' <= MaxNow /\ \A k \in Entities : armed[k] # now
        /\ UNCHANGED <<tier, facts, fetchedAt, collectedAt, succeeded, shown, available, armed>>
    BY <1>1, <1>7 DEF Tick
  <2>2. Entities' = Entities /\ (HasData' <=> HasData)
    BY <2>1, SameTier DEF HasData
  <2>3. (FactsTyped(facts, fetchedAt)' <=> FactsTyped(facts, fetchedAt)) /\ (FactsRead(facts)' <=> FactsRead(facts))
    BY <2>1 DEF FactsTyped, FactsRead
  <2>4. \A k, t : WrittenAt(k, t)' = WrittenAt(k, t)
    BY <2>1, SameTier DEF WrittenAt
  <2>5. 0 .. now \subseteq 0 .. now' /\ now' \in Nat
    BY <1>1, <2>1
  <2>6. \A k \in Entities : armed'[k] = None \/ (armed'[k] \in Nat /\ armed'[k] >= now')
    BY <1>1, <2>1 DEF DisplayInv, TimerInv
  <2>7. HasData => \A k \in Entities : \E t \in 0 .. now' : WrittenAt(k, t)'
    BY <2>4, <2>5 DEF DisplayInv, TimerInv
  <2>8. TimerInv'
    BY <2>1, <2>2, <2>3, <2>5, <2>6, <2>7 DEF DisplayInv, TimerInv
  <2> QED BY <2>1, <2>2, <2>3, <2>5, <2>8 DEF DisplayInv
<1>8. CASE UNCHANGED displayVars
  BY <1>2, <1>8 DEF displayVars, DisplayInv
<1> QED BY <1>3, <1>4, <1>5, <1>6, <1>7, <1>8, PublishKeeps DEF DisplayNext

-----------------------------------------------------------------------------
(* One story: what the facts of a timetable keep of the answer.             *)

\* Of two entries of a slot, the one that the other does not supersede.
Outranks(l, x) == x.num <= l.num /\ (x.num = l.num /\ l.canceled => x.canceled)

\* One lesson per slot among those kept, which no lesson read so far supersedes.
OnePerSlot(kept) == \A l, k \in kept : SlotKey(l) = SlotKey(k) => l = k
Covered(kept, x) == \E l \in kept : SlotKey(l) = SlotKey(x) /\ Outranks(l, x)

\* Reading one more lesson (gateway, deduplicate_lessons).
LEMMA OneMoreLesson ==
    ASSUME NEW best \in SUBSET ReadLessons, OnePerSlot(best), NEW l \in ReadLessons
    PROVE  /\ OnePerSlot(BestWith(best, l)) /\ Covered(BestWith(best, l), l)
           /\ \A x \in ReadLessons : Covered(best, x) => Covered(BestWith(best, l), x)
<1> DEFINE rivals == {k \in best : SlotKey(k) = SlotKey(l)}
<1>1. \A x \in ReadLessons : x.num \in Nat /\ x.canceled \in BOOLEAN
  BY DEF ReadLessons
<1>2. CASE \A k \in rivals : Supersedes(l, k)
  <2>1. BestWith(best, l) = (best \ rivals) \union {l}
    BY <1>2 DEF BestWith
  <2>2. \A k \in rivals : Outranks(l, k)
    BY <1>1, <1>2 DEF Supersedes, Outranks
  <2>3. OnePerSlot(BestWith(best, l))
    BY <2>1 DEF OnePerSlot
  <2>4. Outranks(l, l)
    BY <1>1 DEF Outranks
  <2>5. ASSUME NEW x \in ReadLessons, Covered(best, x) PROVE Covered(BestWith(best, l), x)
    <3>1. PICK k \in best : SlotKey(k) = SlotKey(x) /\ Outranks(k, x)
      BY <2>5 DEF Covered
    <3>2. CASE k \in rivals
      <4>1. Outranks(l, x)
        BY <1>1, <2>2, <3>1, <3>2 DEF Outranks
      <4>2. SlotKey(l) = SlotKey(x)
        BY <3>1, <3>2
      <4> QED BY <2>1, <4>1, <4>2 DEF Covered
    <3>3. CASE k \notin rivals
      BY <2>1, <3>1, <3>3 DEF Covered
    <3> QED BY <3>2, <3>3
  <2> QED BY <2>1, <2>3, <2>4, <2>5 DEF Covered
<1>3. CASE ~ \A k \in rivals : Supersedes(l, k)
  <2>1. BestWith(best, l) = best
    BY <1>3 DEF BestWith
  <2>2. PICK k \in rivals : ~ Supersedes(l, k)
    BY <1>3
  <2>3. Outranks(k, l)
    BY <1>1, <2>2 DEF Supersedes, Outranks
  <2> QED BY <2>1, <2>2, <2>3 DEF Covered
<1> QED BY <1>2, <1>3

\* One lesson per slot is kept, and it is the one no other supersedes.
LEMMA KeptAreBest ==
    ASSUME NEW lessons \in Seq(ReadLessons)
    PROVE  /\ OnePerSlot(Deduplicated(lessons))
           /\ \A x \in Range(lessons) : Covered(Deduplicated(lessons), x)
<1> DEFINE N == Len(lessons)
<1>1. PICK f \in [0 .. N -> SUBSET ReadLessons] :
         Deduplicated(lessons) = f[N] /\ Improving(f, lessons)
  BY BestSteps
<1> DEFINE P == {n \in 0 .. N : OnePerSlot(f[n]) /\ \A i \in 1 .. n : Covered(f[n], lessons[i])}
<1>2. N \in Nat
  OBVIOUS
<1>3. 0 \in P
  BY <1>1, <1>2 DEF Improving, OnePerSlot
<1>4. ASSUME NEW n \in 0 .. N - 1, n \in P PROVE n + 1 \in P
  <2>1. n \in 0 .. N /\ n + 1 \in 1 .. N /\ n + 1 \in 0 .. N /\ (n + 1) - 1 = n
    BY <1>2
  <2>2. \A i \in 1 .. N : lessons[i] \in ReadLessons
    OBVIOUS
  <2>3. f[n] \in SUBSET ReadLessons /\ lessons[n + 1] \in ReadLessons
    BY <2>1, <2>2, <1>1
  <2>4. f[n + 1] = BestWith(f[n], lessons[n + 1])
    BY <1>1, <2>1 DEF Improving
  <2>5. /\ OnePerSlot(f[n + 1]) /\ Covered(f[n + 1], lessons[n + 1])
        /\ \A x \in ReadLessons : Covered(f[n], x) => Covered(f[n + 1], x)
    BY <1>4, <2>3, <2>4, OneMoreLesson
  <2>6. ASSUME NEW i \in 1 .. n + 1 PROVE Covered(f[n + 1], lessons[i])
    <3>1. i = n + 1 \/ i \in 1 .. n
      BY <2>1
    <3>2. i \in 1 .. N
      BY <2>1, <1>2
    <3> QED BY <1>4, <2>2, <2>5, <3>1, <3>2
  <2> QED BY <2>1, <2>5, <2>6
<1>5. N \in P
  <2> HIDE DEF P, N
  <2>1. 0 .. N \subseteq P
    BY <1>2, <1>3, <1>4, Induction
  <2> QED BY <1>2, <2>1
<1> QED BY <1>1, <1>5 DEF Range

\* The entries of an answer that a collection made on that day asks for.
AskedOf(entries, today) == {e \in Range(entries) : Week(Day(e.start)) \in TimetableWeeks(today)}

\* What a collection keeps of an answer: one lesson per slot, read out of an entry
\* asked for, and none of the entries asked for in its slot supersedes it.
KeptOf(kept, entries, today) ==
    /\ kept \in SUBSET ReadLessons /\ IsFiniteSet(kept)
    /\ OnePerSlot(kept)
    /\ \A l \in kept : \E e \in AskedOf(entries, today) : l = Lesson(e)
    /\ \A e \in AskedOf(entries, today) : Covered(kept, Lesson(e))

\* Whatever the timetable asked for answers (gateway, timetable and _fetch_week).
LEMMA TimetableKeeps ==
    ASSUME NEW entries \in Seq(TimetableEntries), NEW today
    PROVE  KeptOf(TimetableFacts(entries, today), entries, today)
<1> DEFINE asked == AskedOf(entries, today)
           answer == OnlyIn(entries, asked)
           lessons == [i \in DOMAIN answer |-> Lesson(answer[i])]
           kept == TimetableFacts(entries, today)
<1>1. kept = Deduplicated(lessons)
  BY DEF TimetableFacts, AskedOf
<1>2. answer \in Seq(TimetableEntries) /\ Range(answer) = Range(entries) \intersect asked
  <2> HIDE DEF asked
  <2> QED BY Selection
<1>3. Range(answer) = asked
  BY <1>2 DEF AskedOf
<1> HIDE DEF answer, asked
<1>4. lessons \in Seq(ReadLessons)
  <2>1. \A i \in DOMAIN answer : Lesson(answer[i]) \in ReadLessons
    BY <1>2, LessonIs
  <2>2. DOMAIN answer = 1 .. Len(answer) /\ Len(answer) \in Nat
    BY <1>2
  <2> QED BY <2>1, <2>2
<1>5. Range(lessons) = {Lesson(e) : e \in asked}
  <2>1. asked = {answer[i] : i \in DOMAIN answer}
    BY <1>3 DEF Range
  <2> QED BY <2>1 DEF Range
<1> HIDE DEF lessons
<1>6. kept \subseteq Range(lessons)
  BY <1>1, <1>4, KeptWereRead
<1>7. OnePerSlot(kept) /\ \A x \in Range(lessons) : Covered(kept, x)
  BY <1>1, <1>4, KeptAreBest
<1>8. kept \in SUBSET ReadLessons /\ IsFiniteSet(kept)
  BY TimetableIs
<1> HIDE DEF kept
<1> QED BY <1>5, <1>6, <1>7, <1>8 DEF KeptOf, asked, kept

-----------------------------------------------------------------------------
(* One story: the timetable and the weeks it is asked for.                  *)

\* A number between two multiples that follow one another has the first for quotient.
LEMMA QuotientIs ==
    ASSUME NEW t \in Nat, NEW d \in Nat \ {0}, NEW q \in Nat, q * d <= t, t < q * d + d
    PROVE  t \div d = q
<1> DEFINE n == t \div d
<1>1. n \in Nat /\ t % d \in 0 .. d - 1 /\ t = d * n + (t % d)
  BY Quotient
<1> HIDE DEF n
<1>2. /\ d * n = n * d /\ n * d \in Nat /\ q * d \in Nat
      /\ (n + 1) * d = n * d + d /\ (q + 1) * d = q * d + d
  <2>1. \A x, y \in Nat : x * y \in Nat /\ x * y = y * x /\ (x + 1) * y = x * y + y
    OBVIOUS
  <2> QED BY <1>1, <2>1
<1>3. CASE n + 1 <= q
  <2>1. (n + 1) * d <= q * d
    BY <1>1, <1>3, Monotone
  <2> QED BY <1>1, <1>2, <2>1
<1>4. CASE q + 1 <= n
  <2>1. (q + 1) * d <= n * d
    BY <1>1, <1>4, Monotone
  <2> QED BY <1>1, <1>2, <2>1
<1>5. n = q \/ n + 1 <= q \/ q + 1 <= n
  BY <1>1
<1> QED BY <1>3, <1>4, <1>5 DEF n

\* The days of a week, and of the one that follows it (gateway, _timetable_weeks).
LEMMA WeekIs ==
    ASSUME NEW d \in Nat
    PROVE  /\ Week(d) \in Nat /\ Monday(d) \in Nat
           /\ Monday(d) <= d /\ d <= Monday(d) + WeekLength - 1
           /\ Week(d + WeekLength) = Week(d) + 1
           /\ \A c \in Monday(d) .. Monday(d) + WeekLength - 1 : Week(c) = Week(d)
           /\ \A c \in d .. d + LookAhead : Week(c) \in {Week(d), Week(d) + 1}
<1> DEFINE L == WeekLength
           w == Week(d)
           r == d % WeekLength
<1>1. L \in Nat \ {0} /\ LookAhead \in Nat /\ LookAhead <= L
  BY ViewsAssumption
<1>2. w \in Nat /\ r \in 0 .. L - 1 /\ d = L * w + r
  BY <1>1, Quotient DEF Week
<1>3. Monday(d) = d - r
  BY DEF Monday
<1>4. \A c \in Nat : Week(c) = c \div L
  BY DEF Week
<1> HIDE DEF L, w, r
<1>5. L * w = w * L /\ w * L \in Nat /\ (w + 1) * L = w * L + L /\ w + 1 \in Nat
  <2>1. \A x, y \in Nat : x * y \in Nat /\ x * y = y * x /\ (x + 1) * y = x * y + y
    OBVIOUS
  <2> QED BY <1>1, <1>2, <2>1
<1>6. \A c \in Nat : w * L <= c /\ c < w * L + L => Week(c) = w
  BY <1>1, <1>2, <1>4, QuotientIs
<1>7. \A c \in Nat : (w + 1) * L <= c /\ c < (w + 1) * L + L => Week(c) = w + 1
  BY <1>1, <1>4, <1>5, QuotientIs
<1>8. Monday(d) = w * L
  BY <1>1, <1>2, <1>3, <1>5
<1>9. Week(d + L) = w + 1
  <2>1. d + L \in Nat /\ (w + 1) * L <= d + L /\ d + L < (w + 1) * L + L
    BY <1>1, <1>2, <1>5
  <2> QED BY <2>1, <1>7
<1>10. ASSUME NEW c \in Monday(d) .. Monday(d) + L - 1 PROVE Week(c) = w
  <2>1. c \in Nat /\ w * L <= c /\ c < w * L + L
    BY <1>1, <1>5, <1>8
  <2> QED BY <2>1, <1>6
<1>11. ASSUME NEW c \in d .. d + LookAhead PROVE Week(c) \in {w, w + 1}
  <2>1. c \in Nat /\ w * L <= c /\ c < (w + 1) * L + L
    BY <1>1, <1>2, <1>5
  <2>2. c < w * L + L \/ (w + 1) * L <= c
    BY <2>1, <1>1, <1>5
  <2> QED BY <2>1, <2>2, <1>6, <1>7
<1> QED BY <1>1, <1>2, <1>5, <1>8, <1>9, <1>10, <1>11 DEF L, w

\* The facts of a timetable are those of the last collection.
SchoolKept(lessons) ==
    /\ school \in Seq(TimetableEntries) /\ now \in Nat /\ fetchedAt \in Nat
    /\ KeptOf(lessons, school, Day(fetchedAt))

\* What an entry keeps when it is read (gateway, _lesson and _lesson_raw).
LEMMA EntryIs ==
    ASSUME NEW e \in TimetableEntries
    PROVE  /\ e.start \in Nat /\ Lesson(e).start = e.start /\ Lesson(e).num = e.num
           /\ Lesson(e).canceled = e.canceled
           /\ ~Lesson(e).inferred => e.dated /\ e.end = Lesson(e).end
<1>1. e.start \in Nat /\ e.end \in Nat /\ e.dated \in BOOLEAN
  BY DEF TimetableEntries, Instants
<1>2. Lesson(e).start = e.start /\ Lesson(e).num = e.num /\ Lesson(e).canceled = e.canceled
  BY DEF Lesson
<1>3. ~Lesson(e).inferred => e.dated /\ e.end = Lesson(e).end
  <2> DEFINE stop == IF e.readable \/ e.dated THEN e.end ELSE e.start + Hour * e.duration
  <2>1. Lesson(e).inferred = (~e.dated \/ stop <= e.start) /\ Lesson(e).end = SaneEnd(e.start, stop)
    BY DEF Lesson
  <2>2. e.dated => stop = e.end
    OBVIOUS
  <2> HIDE DEF stop
  <2>3. ASSUME ~Lesson(e).inferred PROVE e.dated /\ ~ (stop <= e.start)
    BY <2>1, <2>3, Zenon
  <2>4. ASSUME e.dated, ~ (stop <= e.start) PROVE e.end = Lesson(e).end
    <3>1. e.end > e.start
      BY <1>1, <2>2, <2>4
    <3>2. SaneEnd(e.start, stop) = e.end
      BY <2>2, <2>4, <3>1 DEF SaneEnd
    <3> QED BY <2>1, <3>2
  <2> QED BY <2>3, <2>4
<1> QED BY <1>1, <1>2, <1>3

\* Every kept lesson is read out of an entry of its slot, and supersedes the others.
LEMMA SlotsTold ==
    ASSUME NEW lessons, SchoolKept(lessons)
    PROVE  SlotsAgree(lessons)
<1> DEFINE today == Day(fetchedAt)
           read == {school[i] : i \in DOMAIN school}
           rivals(l) == {e \in read : SlotKey(Lesson(e)) = SlotKey(l)}
<1>1. /\ lessons \in SUBSET ReadLessons /\ OnePerSlot(lessons)
      /\ \A l \in lessons : \E e \in AskedOf(school, today) : l = Lesson(e)
      /\ \A e \in AskedOf(school, today) : Covered(lessons, Lesson(e))
  BY DEF SchoolKept, KeptOf
<1>2. AskedOf(school, today) = {e \in read : Week(Day(e.start)) \in TimetableWeeks(today)}
  BY DEF AskedOf, Range
<1>3. \A e \in read : /\ Lesson(e).start = e.start /\ Lesson(e).num = e.num
                      /\ Lesson(e).canceled = e.canceled
                      /\ ~Lesson(e).inferred => e.dated /\ e.end = Lesson(e).end
  <2>1. read \subseteq TimetableEntries
    BY DEF SchoolKept
  <2> QED BY <2>1, EntryIs
<1> HIDE DEF read, today
<1>4. ASSUME NEW l \in lessons
      PROVE  /\ l.end > l.start
             /\ \E e \in rivals(l) :
                  /\ e.num = l.num /\ e.canceled = l.canceled
                  /\ ~l.inferred => e.dated /\ e.end = l.end
             /\ \A e \in rivals(l) :
                  e.num <= l.num /\ (e.num = l.num /\ l.canceled => e.canceled)
  <2>1. l.end > l.start
    BY <1>1 DEF ReadLessons
  <2>2. PICK e \in AskedOf(school, today) : l = Lesson(e)
    BY <1>1
  <2>3. e \in read /\ SlotKey(Lesson(e)) = SlotKey(l) /\ Week(Day(e.start)) \in TimetableWeeks(today)
    BY <1>2, <2>2
  <2>4. ASSUME NEW x \in rivals(l)
        PROVE  x.num <= l.num /\ (x.num = l.num /\ l.canceled => x.canceled)
    <3>1. Day(x.start) = Day(e.start)
      BY <1>3, <2>2, <2>3 DEF SlotKey
    <3>2. x \in AskedOf(school, today)
      BY <1>2, <2>3, <3>1
    <3>3. PICK k \in lessons : SlotKey(k) = SlotKey(Lesson(x)) /\ Outranks(k, Lesson(x))
      BY <1>1, <3>2 DEF Covered
    <3>4. k = l
      BY <1>1, <3>3 DEF OnePerSlot
    <3> QED BY <1>3, <3>3, <3>4 DEF Outranks
  <2> QED BY <1>3, <2>1, <2>2, <2>3, <2>4
<1> QED BY <1>1, <1>4 DEF SlotsAgree, OnePerSlot, read

\* What is not in the facts of this week's collection is not at school either
\* (binary_sensor, _is_holiday).
LEMMA HolidaysTold ==
    ASSUME NEW lessons, SchoolKept(lessons)
    PROVE  HolidaysAgree(lessons, Day(now))
<1> DEFINE today == Day(now)
           first == Day(fetchedAt)
           read == {school[i] : i \in DOMAIN school}
           days == {Day(e.start) : e \in read}
           inYear == {d \in days : FirstWeek <= Week(d) /\ Week(d) <= LastWeek}
           window == today .. today + LookAhead \union Monday(today) .. Monday(today) + WeekLength - 1
           asked == inYear \intersect window
<1>1. /\ lessons \in SUBSET ReadLessons
      /\ \A e \in AskedOf(school, first) : Covered(lessons, Lesson(e))
  BY DEF SchoolKept, KeptOf
<1>2. today \in Nat /\ first \in Nat /\ LookAhead \in Nat /\ WeekLength \in Nat \ {0}
  BY DayIs, ViewsAssumption DEF SchoolKept
<1>3. AskedOf(school, first) = {e \in read : Week(Day(e.start)) \in TimetableWeeks(first)}
  BY DEF AskedOf, Range
<1>4. \A e \in read : Lesson(e).start = e.start /\ Day(e.start) \in Nat
  <2>1. read \subseteq TimetableEntries
    BY DEF SchoolKept
  <2> QED BY <2>1, EntryIs, DayIs
<1> HIDE DEF today, first, read
<1>5. SchoolDay(lessons, now) => ~ Holidays(lessons, now)
  <2> SUFFICES ASSUME SchoolDay(lessons, now) PROVE ~ Holidays(lessons, now)
    OBVIOUS
  <2>1. PICK l \in lessons : Day(l.start) = today /\ ~l.canceled
    BY DEF SchoolDay, Teaching, LessonsOn, today
  <2>2. today \in today .. today + LookAhead
    BY <1>2
  <2>3. today \in Monday(today) .. Monday(today) + WeekLength - 1
    <3>1. Monday(today) \in Nat /\ Monday(today) <= today /\ today <= Monday(today) + WeekLength - 1
      BY <1>2, WeekIs
    <3> QED BY <1>2, <3>1
  <2> QED BY <2>1, <2>2, <2>3 DEF Holidays, NothingAhead, NothingThisWeek, today
<1>6. ASSUME Week(today) = Week(first), NEW d \in asked PROVE d \in {Day(l.start) : l \in lessons}
  <2>1. PICK e \in read : d = Day(e.start)
    BY <1>6
  <2>2. Week(d) \in {Week(today), Week(today) + 1}
    BY <1>2, <1>6, WeekIs
  <2>3. Week(first + WeekLength) = Week(first) + 1
    BY <1>2, WeekIs
  <2>4. Week(d) \in TimetableWeeks(first)
    BY <1>6, <2>2, <2>3 DEF TimetableWeeks
  <2>5. e \in AskedOf(school, first)
    BY <1>3, <2>1, <2>4
  <2>6. PICK l \in lessons : SlotKey(l) = SlotKey(Lesson(e))
    BY <1>1, <2>5 DEF Covered
  <2>7. Day(l.start) = d
    BY <1>4, <2>1, <2>6 DEF SlotKey
  <2> QED BY <2>7
<1>7. Week(today) = Week(first) => asked \subseteq {Day(l.start) : l \in lessons}
  BY <1>6
<1> QED BY <1>5, <1>7 DEF HolidaysAgree, today, first, read

-----------------------------------------------------------------------------
(* One story: what the sensors of the timetable read.                       *)

\* Lessons that begin and end on the same day, and no more of them than can be counted.
DayLessons(lessons) ==
    /\ lessons \in SUBSET ReadLessons /\ IsFiniteSet(lessons)
    /\ \A l \in lessons : l.end <= Midnight(Day(l.start) + 1)

\* The times of a lesson.
LEMMA LessonTimes ==
    ASSUME NEW l \in ReadLessons
    PROVE  l.start \in Nat /\ l.end \in Nat /\ l.end > l.start /\ Day(l.start) \in Nat
<1>1. l.start \in Nat /\ l.end \in Nat /\ l.end > l.start
  BY DEF ReadLessons, Instants
<1> QED BY <1>1, DayIs

\* Those a collection keeps do.
LEMMA KeptAreWhole ==
    ASSUME NEW lessons, SchoolKept(lessons),
           \A e \in Range(school) : Lesson(e).end <= Midnight(Day(e.start) + 1)
    PROVE  DayLessons(lessons)
<1>1. /\ lessons \in SUBSET ReadLessons /\ IsFiniteSet(lessons)
      /\ \A l \in lessons : \E e \in AskedOf(school, Day(fetchedAt)) : l = Lesson(e)
  BY DEF SchoolKept, KeptOf
<1>2. AskedOf(school, Day(fetchedAt)) \subseteq Range(school) /\ Range(school) \subseteq TimetableEntries
  BY DEF SchoolKept, AskedOf, Range
<1> QED BY <1>1, <1>2, EntryIs DEF DayLessons

\* A part of them does.
LEMMA PartOfDay ==
    ASSUME NEW lessons, DayLessons(lessons), NEW part \in SUBSET lessons
    PROVE  DayLessons(part)
BY FS_Subset DEF DayLessons

\* A later day has a later midnight, and the other way round.
LEMMA Midnights ==
    ASSUME NEW a \in Nat, NEW b \in Nat
    PROVE  /\ Midnight(a) \in Nat /\ (a <= b => Midnight(a) <= Midnight(b))
           /\ Midnight(a) < Midnight(b) => a < b
<1>1. DayLength \in Nat
  BY ViewsAssumption
<1>2. \A x, y \in Nat : x * y \in Nat
  OBVIOUS
<1>3. \A x, y \in Nat : x <= y => Midnight(x) <= Midnight(y)
  BY <1>1, Monotone DEF Midnight
<1>4. Midnight(a) \in Nat /\ Midnight(b) \in Nat
  BY <1>1, <1>2 DEF Midnight
<1> QED BY <1>3, <1>4

\* Where a lesson and an instant of its day lie.
LEMMA LessonDay ==
    ASSUME NEW lessons, DayLessons(lessons), NEW l \in lessons, NEW t \in Nat
    PROVE  /\ l.start <= t /\ t < l.end => Day(l.start) = Day(t)
           /\ l.start > t /\ Day(l.start) # Day(t) => l.start >= NextMidnight(t)
           /\ Day(l.start) = Day(t) =>
                Midnight(Day(t)) <= l.start /\ l.start < NextMidnight(t) /\ l.end <= NextMidnight(t)
           /\ Midnight(Day(t)) < l.end => Day(l.start) >= Day(t)
           /\ l.start < NextMidnight(t) => Day(l.start) <= Day(t)
<1>1. l \in ReadLessons
  BY DEF DayLessons
<1>2. /\ l.start \in Nat /\ l.end \in Nat /\ l.end > l.start
      /\ Day(l.start) \in Nat /\ Day(t) \in Nat
  BY <1>1, LessonTimes, DayIs
<1>3. l.end <= NextMidnight(l.start)
  BY DEF DayLessons, NextMidnight
<1>4. /\ Midnight(Day(l.start)) <= l.start /\ l.start < NextMidnight(l.start)
      /\ Midnight(Day(t)) <= t /\ t < NextMidnight(t)
  BY <1>2, DayIs
<1>5. /\ NextMidnight(t) \in Nat /\ NextMidnight(l.start) \in Nat
      /\ Midnight(Day(l.start)) \in Nat /\ Midnight(Day(t)) \in Nat
  BY <1>2, Midnights DEF NextMidnight
<1>6. ASSUME l.start <= t, t < l.end PROVE Day(l.start) = Day(t)
  <2>1. t < NextMidnight(l.start)
    BY <1>2, <1>3, <1>5, <1>6
  <2> QED BY <1>2, <1>6, <2>1, SameDay
<1>7. ASSUME l.start > t, Day(l.start) # Day(t) PROVE l.start >= NextMidnight(t)
  <2>1. l.start < NextMidnight(t) => Day(l.start) = Day(t)
    BY <1>2, <1>7, SameDay
  <2> QED BY <1>2, <1>5, <1>7, <2>1
<1>8. ASSUME Midnight(Day(t)) < l.end PROVE Day(l.start) >= Day(t)
  <2>1. Midnight(Day(t)) < Midnight(Day(l.start) + 1)
    BY <1>2, <1>3, <1>5, <1>8 DEF NextMidnight
  <2>2. Day(t) < Day(l.start) + 1
    BY <1>2, <2>1, Midnights
  <2> QED BY <1>2, <2>2
<1>9. ASSUME l.start < NextMidnight(t) PROVE Day(l.start) <= Day(t)
  <2>1. Midnight(Day(l.start)) < Midnight(Day(t) + 1)
    BY <1>2, <1>4, <1>5, <1>9 DEF NextMidnight
  <2>2. Day(l.start) < Day(t) + 1
    BY <1>2, <2>1, Midnights
  <2> QED BY <1>2, <2>2
<1>10. Day(l.start) = Day(t) => NextMidnight(l.start) = NextMidnight(t)
  BY DEF NextMidnight
<1> QED BY <1>3, <1>4, <1>6, <1>7, <1>8, <1>9, <1>10

\* The earliest to come.
LEMMA NextIs ==
    ASSUME NEW S \in SUBSET Nat, NEW t \in Nat
    PROVE  LET m == Least({s \in S : s > t})
           IN  /\ m \in Int /\ (m # None => m \in S /\ m \in Nat /\ m > t)
               /\ \A s \in S : s > t => m # None /\ m \in Nat /\ m <= s
<1> DEFINE Later == {s \in S : s > t}
<1>0. None = -1
  BY DEF None
<1>1. CASE Later = {}
  <2>1. Least(Later) = None
    BY <1>1 DEF Least
  <2>2. None \in Int
    BY <1>0
  <2>3. \A s \in S : ~ (s > t)
    BY <1>1
  <2> QED BY <2>1, <2>2, <2>3
<1>2. CASE Later # {}
  <2>1. Later \in SUBSET Nat
    OBVIOUS
  <2>2. Min(Later) \in Later /\ \A x \in Later : Min(Later) <= x
    BY <1>2, <2>1, MinIs
  <2>3. Least(Later) = Min(Later)
    BY <1>2 DEF Least
  <2>4. Least(Later) \in S /\ Least(Later) \in Nat /\ Least(Later) > t
    BY <2>2, <2>3
  <2>5. \A s \in S : s > t => Least(Later) <= s
    BY <2>2, <2>3
  <2> HIDE DEF Later
  <2>6. Least(Later) \in Int /\ Least(Later) # None
    BY <2>4, <1>0
  <2> QED BY <2>4, <2>5, <2>6 DEF Later
<1> QED BY <1>1, <1>2

\* The last of the ends.
LEMMA LastEnd ==
    ASSUME NEW lessons, DayLessons(lessons), lessons # {}
    PROVE  /\ Max(Ends(lessons)) \in Nat
           /\ \E l \in lessons : l.end = Max(Ends(lessons))
           /\ \A l \in lessons : l.end <= Max(Ends(lessons))
<1>1. Ends(lessons) \in SUBSET Nat /\ IsFiniteSet(Ends(lessons))
  BY StartsAndEnds DEF DayLessons
<1>2. Ends(lessons) # {}
  BY DEF Ends
<1>3. Max(Ends(lessons)) \in Ends(lessons) /\ \A x \in Ends(lessons) : x <= Max(Ends(lessons))
  BY <1>1, <1>2, MaxIs
<1> QED BY <1>1, <1>3 DEF Ends

\* The end of the lessons of a day, and the end that was scheduled (sensor,
\* _end_of_day and its attributes).
LEMMA EndsOfDay ==
    ASSUME NEW lessons, DayLessons(lessons), NEW t
    PROVE  /\ EndOfDay(lessons, t) \in Int
           /\ \A l \in Teaching(LessonsOn(lessons, Day(t))) :
                EndOfDay(lessons, t) \in Nat /\ l.end <= EndOfDay(lessons, t)
           /\ \A l \in LessonsOn(lessons, Day(t)) :
                ScheduledEnd(lessons, t) \in Nat /\ l.end <= ScheduledEnd(lessons, t)
<1> DEFINE on == LessonsOn(lessons, Day(t))
           today == Teaching(on)
<1>1. DayLessons(on) /\ DayLessons(today)
  <2>1. on \subseteq lessons /\ today \subseteq lessons
    BY DEF LessonsOn, Teaching
  <2> HIDE DEF on, today
  <2> QED BY <2>1, PartOfDay
<1>2. EndOfDay(lessons, t) \in Int
  BY DayReadings DEF DayLessons
<1>3. /\ today # {} => EndOfDay(lessons, t) = Max(Ends(today))
      /\ on # {} => ScheduledEnd(lessons, t) = Max(Ends(on))
  BY DEF EndOfDay, ScheduledEnd
<1> HIDE DEF on, today
<1>4. ASSUME NEW l \in today PROVE EndOfDay(lessons, t) \in Nat /\ l.end <= EndOfDay(lessons, t)
  BY <1>1, <1>3, <1>4, LastEnd
<1>5. ASSUME NEW l \in on
      PROVE  ScheduledEnd(lessons, t) \in Nat /\ l.end <= ScheduledEnd(lessons, t)
  BY <1>1, <1>3, <1>5, LastEnd
<1> QED BY <1>2, <1>4, <1>5 DEF on, today

\* The entry of a calendar: one in progress, else the first to come (calendar.event).
LEMMA EventIs ==
    ASSUME NEW entries, \A e \in entries : e.start \in Nat, NEW t \in Nat
    PROVE  /\ \A e \in Current(entries, t) :
                CalendarEvent(entries, t) \in Nat /\ CalendarEvent(entries, t) <= e.start
           /\ Current(entries, t) # {} =>
                \E e \in Current(entries, t) : CalendarEvent(entries, t) = e.start
           /\ Current(entries, t) = {} =>
                CalendarEvent(entries, t) = Least({s \in {e.start : e \in entries} : s > t})
           /\ \A e \in entries : e.start > t =>
                CalendarEvent(entries, t) \in Nat /\ CalendarEvent(entries, t) <= e.start
<1> DEFINE C == {e.start : e \in Current(entries, t)}
           S == {e.start : e \in entries}
           A == {s \in S : s > t}
<1>1. C \in SUBSET Nat /\ S \in SUBSET Nat /\ A \in SUBSET Nat
  BY DEF Current
<1>2. A = {e.start : e \in {e \in entries : e.start > t}}
  OBVIOUS
<1>3. CASE Current(entries, t) # {}
  <2>1. CalendarEvent(entries, t) = Min(C)
    BY <1>3 DEF CalendarEvent
  <2>2. C # {}
    BY <1>3
  <2>3. Min(C) \in C /\ \A x \in C : Min(C) <= x
    <3> HIDE DEF C
    <3> QED BY <1>1, <2>2, MinIs
  <2>4. Min(C) \in Nat
    <3> HIDE DEF C
    <3> QED BY <1>1, <2>3
  <2>5. PICK c \in Current(entries, t) : Min(C) = c.start
    BY <2>3
  <2>6. c.start <= t
    BY DEF Current
  <2>7. \A e \in Current(entries, t) : Min(C) <= e.start
    BY <2>3
  <2>8. \A e \in entries : e.start > t => Min(C) <= e.start
    <3> HIDE DEF C
    <3> QED BY <2>4, <2>5, <2>6
  <2> HIDE DEF C
  <2> QED BY <1>3, <2>1, <2>4, <2>5, <2>7, <2>8
<1>4. CASE Current(entries, t) = {}
  <2>1. CalendarEvent(entries, t) = Least(A)
    BY <1>2, <1>4 DEF CalendarEvent
  <2>2. \A s \in S : s > t => Least(A) \in Nat /\ Least(A) <= s
    <3> HIDE DEF S
    <3> QED BY <1>1, NextIs
  <2>3. \A e \in entries : e.start \in S
    OBVIOUS
  <2>4. CalendarEvent(entries, t) = Least({s \in {e.start : e \in entries} : s > t})
    BY <2>1
  <2> HIDE DEF S, A
  <2>5. \A e \in entries : e.start > t =>
          CalendarEvent(entries, t) \in Nat /\ CalendarEvent(entries, t) <= e.start
    BY <2>1, <2>2, <2>3 DEF A
  <2> QED BY <1>4, <2>4, <2>5
<1> QED BY <1>3, <1>4

\* The lesson to wake up for is the next one, unless today's first has begun and
\* today is not over (sensor, _wake_target).
LEMMA FirstIs ==
    ASSUME NEW lessons, DayLessons(lessons), NEW t \in Nat
    PROVE  /\ FirstLesson(lessons, t) # None =>
                \/ FirstLesson(lessons, t) = NextLesson(lessons, t)
                \/ FirstLesson(lessons, t) <= t /\ t < EndOfDay(lessons, t)
           /\ NextLesson(lessons, t) # None => FirstLesson(lessons, t) # None
<1> DEFINE today == Teaching(LessonsOn(lessons, Day(t)))
           S == Starts(Teaching(lessons))
           future == {s \in S : s > t}
           early == today # {} /\ t < Max(Ends(today))
<1>1. DayLessons(today) /\ DayLessons(Teaching(lessons))
  <2>1. today \subseteq lessons /\ Teaching(lessons) \subseteq lessons
    BY DEF LessonsOn, Teaching
  <2> HIDE DEF today
  <2> QED BY <2>1, PartOfDay
<1>2. S \in SUBSET Nat /\ Starts(today) \in SUBSET Nat
  BY <1>1, StartsAndEnds DEF DayLessons
<1>3. /\ FirstLesson(lessons, t) = IF early THEN Min(Starts(today)) ELSE Least(future)
      /\ NextLesson(lessons, t) = Least(future)
  BY DEF FirstLesson, NextLesson
<1>4. CASE ~early
  BY <1>3, <1>4
<1>5. CASE early
  <2>1. Starts(today) # {}
    BY <1>5 DEF Starts
  <2>2. PICK l \in today : Min(Starts(today)) = l.start
    <3>1. Min(Starts(today)) \in Starts(today)
      BY <1>2, <2>1, MinIs
    <3> QED BY <3>1 DEF Starts
  <2>3. \A x \in Starts(today) : l.start <= x
    BY <1>2, <2>1, <2>2, MinIs
  <2>4. t < EndOfDay(lessons, t)
    BY <1>5 DEF EndOfDay
  <2>5. l \in lessons /\ Day(l.start) = Day(t) /\ l.start \in S /\ l.start \in Nat
    <3>1. l \in Teaching(lessons) /\ Day(l.start) = Day(t)
      BY DEF Teaching, LessonsOn
    <3> QED BY <1>2, <3>1 DEF Starts, Teaching
  <2>6. l.start # None
    BY <2>5 DEF None
  <2>7. ASSUME l.start > t PROVE l.start = Least(future)
    <3>1. /\ Least(future) # None /\ Least(future) \in Nat /\ Least(future) <= l.start
          /\ Least(future) \in S /\ Least(future) > t
      <4> HIDE DEF S
      <4> QED BY <1>2, <2>5, <2>7, NextIs
    <3>2. PICK k \in Teaching(lessons) : Least(future) = k.start
      <4> HIDE DEF future
      <4> QED BY <3>1 DEF Starts
    <3> HIDE DEF future
    <3>3. CASE Day(k.start) = Day(t)
      <4>1. k \in today
        BY <3>3 DEF Teaching, LessonsOn
      <4>2. l.start <= k.start
        BY <2>3, <4>1 DEF Starts
      <4> QED BY <2>5, <3>1, <3>2, <4>2
    <3>4. CASE Day(k.start) # Day(t)
      <4>1. k \in lessons
        BY DEF Teaching
      <4>2. k.start >= NextMidnight(t)
        BY <3>1, <3>2, <3>4, <4>1, LessonDay
      <4>3. l.start < NextMidnight(t)
        BY <2>5, LessonDay
      <4>4. NextMidnight(t) \in Nat
        BY DayIs DEF Instants
      <4> QED BY <2>5, <3>1, <3>2, <4>2, <4>3, <4>4
    <3> QED BY <3>3, <3>4
  <2>8. FirstLesson(lessons, t) = l.start
    BY <1>3, <1>5, <2>2
  <2> HIDE DEF early, future, S
  <2>9. l.start <= t \/ l.start > t
    BY <2>5
  <2> QED BY <1>3, <2>4, <2>6, <2>7, <2>8, <2>9
<1> QED BY <1>4, <1>5

\* The lessons of today and of tomorrow are among those of the facts, and those of
\* today are what the calendar shows of today.
LEMMA CountsAgree ==
    ASSUME NEW lessons, DayLessons(lessons), NEW t \in Nat
    PROVE  /\ LessonsToday(lessons, t) + LessonsTomorrow(lessons, t) <= LessonsFetched(lessons)
           /\ LessonsToday(lessons, t) =
                Cardinality({l \in lessons : [start |-> l.start, end |-> l.end] \in
                   EventsBetween(LessonEntries(lessons), Midnight(Day(t)), NextMidnight(t))})
<1> DEFINE A == LessonsOn(lessons, Day(t))
           B == LessonsOn(lessons, Day(t) + 1)
           E == {l \in lessons : [start |-> l.start, end |-> l.end] \in
                   EventsBetween(LessonEntries(lessons), Midnight(Day(t)), NextMidnight(t))}
<1>0. IsFiniteSet(lessons) /\ lessons \subseteq ReadLessons
  BY DEF DayLessons
<1>1. Day(t) \in Nat
  BY DayIs
<1>2. A \subseteq lessons /\ B \subseteq lessons /\ A \intersect B = {}
  BY <1>1 DEF LessonsOn
<1>3. Cardinality(A) + Cardinality(B) <= Cardinality(lessons)
  <2> HIDE DEF A, B
  <2>1. IsFiniteSet(A) /\ IsFiniteSet(B)
    BY <1>0, <1>2, FS_Subset
  <2>2. Cardinality(A \union B) = Cardinality(A) + Cardinality(B) - Cardinality(A \intersect B)
    BY <2>1, FS_Union
  <2>3. Cardinality(A \intersect B) = 0
    BY <1>2, FS_EmptySet
  <2>4. A \union B \in SUBSET lessons
    BY <1>2
  <2>5. Cardinality(A \union B) <= Cardinality(lessons)
    BY <1>0, <2>4, FS_Subset
  <2>6. Cardinality(A) \in Nat /\ Cardinality(B) \in Nat /\ Cardinality(lessons) \in Nat
    BY <1>0, <2>1, FS_CardinalityType
  <2> QED BY <2>2, <2>3, <2>5, <2>6
<1>4. \A l \in lessons :
        l \in E <=> l.start < NextMidnight(t) /\ l.end > Midnight(Day(t))
  <2>1. \A l \in lessons : [start |-> l.start, end |-> l.end] \in LessonEntries(lessons)
    BY DEF LessonEntries
  <2> QED BY <2>1 DEF EventsBetween
<1>5. \A l \in lessons : l \in A <=> Day(l.start) = Day(t)
  BY DEF LessonsOn
<1>6. A \subseteq lessons /\ E \subseteq lessons
  BY <1>2
<1> HIDE DEF A, E
<1>7. ASSUME NEW l \in lessons PROVE l \in A <=> l \in E
  <2>1. /\ l.start \in Nat /\ l.end \in Nat /\ l.end > l.start
        /\ Day(l.start) \in Nat /\ Midnight(Day(t)) \in Nat
    BY <1>0, <1>1, LessonTimes, Midnights
  <2>2. /\ Day(l.start) = Day(t) => Midnight(Day(t)) <= l.start /\ l.start < NextMidnight(t)
        /\ Midnight(Day(t)) < l.end => Day(l.start) >= Day(t)
        /\ l.start < NextMidnight(t) => Day(l.start) <= Day(t)
    BY LessonDay
  <2> QED BY <1>1, <1>4, <1>5, <2>1, <2>2
<1>8. A = E
  BY <1>6, <1>7
<1> QED BY <1>3, <1>8 DEF LessonsToday, LessonsTomorrow, LessonsFetched, A, E

\* The entities of the timetable tell one story (sensor, binary_sensor, calendar).
LEMMA TimetableTold ==
    ASSUME NEW lessons, DayLessons(lessons), now \in Nat
    PROVE  TimetableAgrees(lessons)
<1> DEFINE entries == LessonEntries(lessons)
           event == CalendarEvent(entries, now)
           T == Teaching(lessons)
<1>0. lessons \subseteq ReadLessons /\ Day(now) \in Nat /\ IsFiniteSet(lessons)
  BY DayIs DEF DayLessons
<1>1. \A l \in lessons : [start |-> l.start, end |-> l.end] \in entries
  BY DEF LessonEntries
<1>2. \A e \in entries : e.start \in Nat
  BY <1>0, LessonTimes DEF LessonEntries
<1>3. T \subseteq lessons /\ Starts(T) \in SUBSET Nat /\ IsFiniteSet(T)
  <2>1. T \in SUBSET lessons
    BY DEF Teaching
  <2> QED BY <1>0, <2>1, StartsAndEnds, FS_Subset
<1>4. None = -1
  BY DEF None
<1> HIDE DEF entries
<1>5. /\ \A e \in entries : e.start > now => event \in Nat /\ event <= e.start
      /\ \A e \in Current(entries, now) : event \in Nat /\ event <= e.start
  <2> HIDE DEF event
  <2> QED BY <1>2, EventIs DEF event
<1> HIDE DEF event
<1>6. ASSUME InClass(lessons, now)
      PROVE  /\ SchoolDay(lessons, now) /\ EndOfDay(lessons, now) > now
             /\ event # None /\ event <= now
  <2>1. PICK l \in T : l.start <= now /\ now < l.end
    BY <1>6 DEF InClass
  <2>2. l.start \in Nat /\ l.end \in Nat /\ Day(l.start) = Day(now)
    BY <1>0, <1>3, <2>1, LessonTimes, LessonDay
  <2>3. l \in Teaching(LessonsOn(lessons, Day(now)))
    BY <2>2 DEF Teaching, LessonsOn
  <2>4. EndOfDay(lessons, now) \in Nat /\ l.end <= EndOfDay(lessons, now)
    BY <2>3, EndsOfDay
  <2>5. [start |-> l.start, end |-> l.end] \in Current(entries, now)
    BY <1>1, <1>3, <2>1 DEF Current
  <2>6. event \in Nat /\ event <= l.start
    BY <1>5, <2>5
  <2> QED BY <1>4, <2>1, <2>2, <2>3, <2>4, <2>6 DEF SchoolDay
<1>7. ASSUME NextLesson(lessons, now) # None
      PROVE  event # None /\ event <= NextLesson(lessons, now)
  <2>1. NextLesson(lessons, now) \in Starts(T) /\ NextLesson(lessons, now) > now
    BY <1>3, <1>7, NextIs DEF NextLesson
  <2>2. PICK l \in T : l.start = NextLesson(lessons, now)
    BY <2>1 DEF Starts
  <2>3. [start |-> l.start, end |-> l.end] \in entries
    BY <1>1, <1>3
  <2>4. event \in Nat /\ event <= l.start
    BY <1>5, <2>1, <2>2, <2>3
  <2> QED BY <1>4, <2>2, <2>4
<1>8. ASSUME NextTest(lessons, now) # None
      PROVE  NextLesson(lessons, now) <= NextTest(lessons, now)
  <2> DEFINE tests == {l \in T : l.test}
  <2>1. Starts(tests) \subseteq Starts(T)
    BY DEF Starts
  <2>2. NextTest(lessons, now) \in Starts(tests) /\ NextTest(lessons, now) > now
    <3>1. NextTest(lessons, now) = Least({s \in Starts(tests) : s > now})
      BY DEF NextTest
    <3>2. Starts(tests) \in SUBSET Nat
      BY <1>3, <2>1
    <3> HIDE DEF tests
    <3> QED BY <1>8, <3>1, <3>2, NextIs
  <2>3. NextTest(lessons, now) \in Starts(T)
    BY <2>1, <2>2
  <2> QED BY <1>3, <2>2, <2>3, NextIs DEF NextLesson
<1>9. ASSUME CanceledAfter(lessons, now) > 0
      PROVE  /\ LessonsCanceled(lessons, now)
             /\ ScheduledEnd(lessons, now) > EndOfDay(lessons, now)
  <2> DEFINE after == {l \in LessonsOn(lessons, Day(now)) :
                         l.canceled /\ l.end > EndOfDay(lessons, now)}
  <2>1. after # {}
    <3>1. CanceledAfter(lessons, now) = Cardinality(after)
      BY DEF CanceledAfter
    <3> HIDE DEF after
    <3> QED BY <1>9, <3>1, FS_EmptySet
  <2>2. PICK l \in LessonsOn(lessons, Day(now)) : l.canceled /\ l.end > EndOfDay(lessons, now)
    BY <2>1
  <2>3. l.end \in Nat
    BY <1>0, LessonTimes DEF LessonsOn
  <2>4. ScheduledEnd(lessons, now) \in Nat /\ l.end <= ScheduledEnd(lessons, now)
    BY EndsOfDay
  <2>5. EndOfDay(lessons, now) \in Int
    BY EndsOfDay
  <2> QED BY <2>2, <2>3, <2>4, <2>5 DEF LessonsCanceled
<1>10. LessonsCanceled(lessons, now) \/ NextCancellation(lessons, now) = None
         \/ Day(NextCancellation(lessons, now)) > Day(now)
  <2> DEFINE P == PendingCancellations(lessons, now)
             m == NextCancellation(lessons, now)
  <2> SUFFICES ASSUME m # None PROVE LessonsCanceled(lessons, now) \/ Day(m) > Day(now)
    OBVIOUS
  <2>1. PICK l \in P : l.start = m
    <3>1. P \in SUBSET ReadLessons
      BY <1>0 DEF PendingCancellations
    <3>2. Starts(P) \in SUBSET Nat
      BY <3>1, StartsAndEnds
    <3>3. m = Least(Starts(P))
      BY DEF NextCancellation
    <3> HIDE DEF m, P
    <3>4. m \in Starts(P)
      BY <3>2, <3>3, LeastIs
    <3> QED BY <3>4 DEF Starts
  <2>2. l \in lessons /\ l.canceled /\ l.end > now
    BY DEF PendingCancellations
  <2>3. /\ Day(l.start) \in Nat /\ l.end \in Nat /\ Midnight(Day(now)) <= now
        /\ Midnight(Day(now)) \in Nat
    BY <1>0, <2>2, LessonTimes, DayIs
  <2>4. Day(l.start) >= Day(now)
    <3>1. Midnight(Day(now)) < l.end
      BY <2>2, <2>3
    <3> QED BY <2>2, <3>1, LessonDay
  <2>5. CASE Day(l.start) = Day(now)
    BY <2>2, <2>5 DEF LessonsCanceled, LessonsOn
  <2> HIDE DEF m
  <2> QED BY <1>0, <2>1, <2>3, <2>4, <2>5
<1>11. /\ FirstLesson(lessons, now) # None =>
            \/ FirstLesson(lessons, now) = NextLesson(lessons, now)
            \/ FirstLesson(lessons, now) <= now /\ now < EndOfDay(lessons, now)
       /\ NextLesson(lessons, now) # None => FirstLesson(lessons, now) # None
  BY FirstIs
<1> HIDE DEF T
<1> QED BY <1>6, <1>7, <1>8, <1>9, <1>10, <1>11, CountsAgree DEF TimetableAgrees, event, entries

-----------------------------------------------------------------------------
(* One story: the break at noon.                                           *)

\* A gap opens where the lessons that began before it have ended, and closes where
\* one begins.
Opens(gap, day) ==
    /\ gap[1] \in Nat /\ gap[2] \in Nat /\ gap[1] < gap[2]
    /\ \E l \in day : l.start < gap[2] /\ l.end = gap[1]
    /\ \E l \in day : l.start = gap[2]
    /\ \A l \in day : l.start < gap[2] => l.end <= gap[1]

\* The gaps of a day are these, and finitely many (sensor, _gaps).
LEMMA GapsAre ==
    ASSUME NEW day, DayLessons(day)
    PROVE  /\ Gaps(day) \in SUBSET (Nat \X Nat) /\ IsFiniteSet(Gaps(day))
           /\ \A gap \in Nat \X Nat : gap \in Gaps(day) <=> Opens(gap, day)
<1>0. day \in SUBSET ReadLessons /\ IsFiniteSet(day)
  BY DEF DayLessons
<1>1. /\ Ends(day) \in SUBSET Nat /\ Starts(day) \in SUBSET Nat
      /\ IsFiniteSet(Ends(day)) /\ IsFiniteSet(Starts(day))
  BY <1>0, StartsAndEnds
<1>2. Gaps(day) \in SUBSET (Ends(day) \X Starts(day))
  BY DEF Gaps
<1>3. Gaps(day) \in SUBSET (Nat \X Nat)
  BY <1>1, <1>2
<1>4. IsFiniteSet(Gaps(day))
  <2> DEFINE E == Ends(day)
             S == Starts(day)
  <2>1. IsFiniteSet(E) /\ IsFiniteSet(S) /\ Gaps(day) \in SUBSET (E \X S)
    BY <1>1, <1>2
  <2> HIDE DEF E, S
  <2>2. IsFiniteSet(E \X S)
    BY <2>1, FS_Product
  <2> QED BY <2>1, <2>2, FS_Subset
<1>5. ASSUME NEW gap \in Nat \X Nat PROVE gap \in Gaps(day) <=> Opens(gap, day)
  <2> DEFINE before == {l \in day : l.start < gap[2]}
  <2>1. gap[1] \in Nat /\ gap[2] \in Nat
    OBVIOUS
  <2>2. before \subseteq day /\ DayLessons(before)
    <3>1. before \subseteq day
      OBVIOUS
    <3> HIDE DEF before
    <3> QED BY <3>1, PartOfDay
  <2>3. before # {} =>
          /\ Max(Ends(before)) \in Nat
          /\ \E l \in before : l.end = Max(Ends(before))
          /\ \A l \in before : l.end <= Max(Ends(before))
    <3> HIDE DEF before
    <3> QED BY <2>2, LastEnd
  <2>4. gap \in Gaps(day) <=>
          /\ gap \in Ends(day) \X Starts(day)
          /\ gap[1] < gap[2] /\ before # {} /\ gap[1] = Max(Ends(before))
    BY DEF Gaps
  <2>5. ASSUME gap \in Gaps(day) PROVE Opens(gap, day)
    <3>1. before # {} /\ gap[1] = Max(Ends(before)) /\ gap[1] < gap[2] /\ gap[2] \in Starts(day)
      BY <2>4, <2>5
    <3>2. /\ \E l \in before : l.end = gap[1]
          /\ \A l \in before : l.end <= gap[1]
      <4> HIDE DEF before
      <4> QED BY <2>3, <3>1
    <3>3. \E l \in day : l.start = gap[2]
      BY <3>1 DEF Starts
    <3> QED BY <2>1, <3>1, <3>2, <3>3 DEF Opens
  <2>6. ASSUME Opens(gap, day) PROVE gap \in Gaps(day)
    <3>1. PICK l \in before : l.end = gap[1]
      BY <2>6 DEF Opens
    <3>2. \A k \in before : k.end <= gap[1]
      BY <2>6 DEF Opens
    <3>3. gap[1] \in Ends(day) /\ gap[2] \in Starts(day)
      BY <2>2, <2>6, <3>1 DEF Opens, Ends, Starts
    <3>4. gap[1] = Max(Ends(before)) /\ before # {}
      <4> HIDE DEF before
      <4>1. before # {}
        BY <3>1
      <4>2. PICK k \in before : k.end = Max(Ends(before))
        BY <2>3, <4>1
      <4>3. Max(Ends(before)) \in Nat /\ l.end <= Max(Ends(before))
        BY <2>3, <3>1
      <4>4. Max(Ends(before)) <= gap[1]
        BY <3>2, <4>2
      <4>5. gap[1] = Max(Ends(before))
        BY <2>1, <3>1, <4>3, <4>4
      <4> QED BY <4>1, <4>5
    <3>5. gap[1] < gap[2]
      BY <2>6 DEF Opens
    <3>6. gap \in Ends(day) \X Starts(day)
      BY <3>3
    <3> HIDE DEF before
    <3> QED BY <2>4, <3>4, <3>5, <3>6
  <2> QED BY <2>5, <2>6
<1> QED BY <1>3, <1>4, <1>5

\* The break that is shown is a gap of the lessons held, and the planned break
\* within it is a gap of the grid (sensor, _midday_break).
LEMMA MiddayIs ==
    ASSUME NEW lessons, DayLessons(lessons), NEW t, MorningEnd(lessons, t) # None
    PROVE  LET day == LessonsOn(lessons, Day(t))
               grid == {l \in day : ~l.exempted}
               gap == <<MorningEnd(lessons, t), ResumesAt(lessons, t)>>
               inside == Inside(gap, day)
           IN  /\ gap \in Nat \X Nat /\ Opens(gap, Teaching(day))
               /\ PlannedMorningEnd(lessons, t) = None =>
                    inside = {} /\ IsLunch(gap)
               /\ PlannedMorningEnd(lessons, t) # None =>
                    \E p \in Nat \X Nat :
                      /\ PlannedMorningEnd(lessons, t) = p[1]
                      /\ gap[1] <= p[1] /\ p[2] <= gap[2] /\ Opens(p, grid)
<1> DEFINE day == LessonsOn(lessons, Day(t))
           grid == {l \in day : ~l.exempted}
           best == Longest(Breaks(day))
           gap == <<MorningEnd(lessons, t), ResumesAt(lessons, t)>>
           inside == Inside(gap, day)
<1>1. DayLessons(day) /\ DayLessons(grid) /\ DayLessons(Teaching(day))
  <2>1. day \subseteq lessons /\ grid \subseteq lessons /\ Teaching(day) \subseteq lessons
    BY DEF LessonsOn, Teaching
  <2> HIDE DEF day, grid
  <2> QED BY <2>1, PartOfDay
<1>2. /\ MorningEnd(lessons, t) = IF Breaks(day) = {} THEN None ELSE best[1]
      /\ ResumesAt(lessons, t) = best[2]
      /\ PlannedMorningEnd(lessons, t) =
           IF Inside(best, day) = {} THEN None ELSE LastLongest(Inside(best, day))[1]
  BY DEF MorningEnd, ResumesAt, PlannedMorningEnd
<1>3. /\ PlannedBreaks(day) = {g \in Gaps(grid) : IsLunch(g)}
      /\ \A g : Inside(g, day) = {p \in PlannedBreaks(day) : g[1] <= p[1] /\ p[2] <= g[2]}
      /\ Breaks(day) = {g \in Gaps(Teaching(day)) : IsLunch(g) \/ Inside(g, day) # {}}
  BY DEF PlannedBreaks, Inside, Breaks
<1>4. Breaks(day) # {}
  BY <1>2
<1>5. best \in Breaks(day)
  <2>1. /\ Breaks(day) \in SUBSET (Nat \X Nat) /\ IsFiniteSet(Breaks(day))
        /\ \A g \in Breaks(day) : g[1] < g[2]
    <3> HIDE DEF day
    <3> QED BY <1>1, BreaksAre DEF DayLessons
  <2> HIDE DEF day
  <2> QED BY <1>4, <2>1, LongestIs
<1> HIDE DEF day, grid, best
<1>6. best \in Nat \X Nat /\ Opens(best, Teaching(day))
  <2>1. best \in Gaps(Teaching(day))
    BY <1>3, <1>5
  <2> QED BY <1>1, <2>1, GapsAre
<1>7. gap = best
  BY <1>2, <1>4, <1>6
<1>8. IsLunch(best) \/ Inside(best, day) # {}
  BY <1>3, <1>5
<1>9. ASSUME Inside(best, day) # {}
      PROVE  LET p == LastLongest(Inside(best, day))
             IN  p \in Nat \X Nat /\ best[1] <= p[1] /\ p[2] <= best[2] /\ Opens(p, grid)
  <2> DEFINE I == Inside(best, day)
  <2>1. I \in SUBSET Gaps(grid)
    BY <1>3
  <2>2. Gaps(grid) \in SUBSET (Nat \X Nat) /\ IsFiniteSet(Gaps(grid))
    BY <1>1, GapsAre
  <2>3. \A g \in I : g \in Nat \X Nat /\ Opens(g, grid) /\ best[1] <= g[1] /\ g[2] <= best[2]
    <3>1. \A g \in I : best[1] <= g[1] /\ g[2] <= best[2]
      BY <1>3
    <3> HIDE DEF I
    <3> QED BY <1>1, <2>1, <2>2, <3>1, GapsAre
  <2> HIDE DEF I
  <2>4. I \in SUBSET (Nat \X Nat) /\ IsFiniteSet(I) /\ I # {}
    BY <1>9, <2>1, <2>2, FS_Subset DEF I
  <2>5. \A g \in I : g[1] < g[2]
    BY <2>3 DEF Opens
  <2>6. LastLongest(I) \in I
    BY <2>4, <2>5, LastLongestIs
  <2> QED BY <2>3, <2>6 DEF I
<1>10. PlannedMorningEnd(lessons, t) = None => Inside(best, day) = {}
  <2> SUFFICES ASSUME Inside(best, day) # {} PROVE PlannedMorningEnd(lessons, t) # None
    OBVIOUS
  <2>1. LastLongest(Inside(best, day))[1] \in Nat
    BY <1>9
  <2> QED BY <1>2, <2>1 DEF None
<1> HIDE DEF gap
<1> QED BY <1>2, <1>6, <1>7, <1>8, <1>9, <1>10 DEF day, grid, gap

\* A day without a cancelled lesson across a gap has the gap in its grid.
LEMMA OwedToCancellation ==
    ASSUME NEW lessons, DayLessons(lessons), NEW t, MorningEnd(lessons, t) # None,
           PlannedMorningEnd(lessons, t) # MorningEnd(lessons, t)
    PROVE  \E l \in LessonsOn(lessons, Day(t)) :
              l.canceled /\ l.end > MorningEnd(lessons, t) /\ l.start < ResumesAt(lessons, t)
<1> DEFINE day == LessonsOn(lessons, Day(t))
           grid == {l \in day : ~l.exempted}
           taught == Teaching(day)
           morning == MorningEnd(lessons, t)
           resumes == ResumesAt(lessons, t)
           gap == <<morning, resumes>>
<1>1. /\ gap \in Nat \X Nat /\ Opens(gap, taught)
      /\ PlannedMorningEnd(lessons, t) = None => Inside(gap, day) = {} /\ IsLunch(gap)
      /\ PlannedMorningEnd(lessons, t) # None =>
           \E p \in Nat \X Nat :
             /\ PlannedMorningEnd(lessons, t) = p[1]
             /\ gap[1] <= p[1] /\ p[2] <= gap[2] /\ Opens(p, grid)
  BY MiddayIs
<1>2. gap[1] = morning /\ gap[2] = resumes
  OBVIOUS
<1>3. day \subseteq lessons /\ grid \subseteq day /\ taught = {l \in grid : ~l.canceled}
  BY DEF LessonsOn, Teaching
<1>4. DayLessons(grid)
  <2> HIDE DEF day, grid
  <2> QED BY <1>3, PartOfDay
<1>5. \A l \in day : l.start \in Nat /\ l.end \in Nat
  <2> HIDE DEF day
  <2> QED BY <1>3, LessonTimes DEF DayLessons
<1>6. Inside(gap, day) = {p \in Gaps(grid) : IsLunch(p) /\ gap[1] <= p[1] /\ p[2] <= gap[2]}
  BY DEF Inside, PlannedBreaks
<1>7. \A l \in day : l.canceled \in BOOLEAN
  <2> HIDE DEF day
  <2> QED BY <1>3 DEF DayLessons, ReadLessons
<1> HIDE DEF day, grid, taught, morning, resumes, gap
<1>8. morning \in Nat /\ resumes \in Nat /\ morning < resumes
  BY <1>1, <1>2 DEF Opens
<1>9. CASE PlannedMorningEnd(lessons, t) = None
  <2> SUFFICES ASSUME \A l \in day : ~ (l.canceled /\ l.end > morning /\ l.start < resumes)
               PROVE  FALSE
    BY DEF day, morning, resumes
  <2>1. \A l \in grid : l.start < resumes => l.end <= morning
    <3> SUFFICES ASSUME NEW l \in grid, l.start < resumes PROVE l.end <= morning
      OBVIOUS
    <3>1. l.end \in Nat /\ l \in day
      BY <1>3, <1>5
    <3>2. CASE l.canceled
      BY <1>8, <3>1, <3>2
    <3>3. CASE ~l.canceled
      BY <1>1, <1>2, <1>3, <3>3 DEF Opens
    <3> QED BY <3>2, <3>3
  <2>2. Opens(gap, grid)
    <3>1. taught \subseteq grid
      BY <1>3
    <3> QED BY <1>1, <1>2, <2>1, <3>1 DEF Opens
  <2>3. gap \in Gaps(grid)
    BY <1>1, <1>4, <2>2, GapsAre
  <2>4. IsLunch(gap) /\ Inside(gap, day) = {}
    BY <1>1, <1>9
  <2>5. gap \in Inside(gap, day)
    BY <1>2, <1>6, <1>8, <2>3, <2>4
  <2> QED BY <2>4, <2>5
<1>10. CASE PlannedMorningEnd(lessons, t) # None
  <2>1. PICK p \in Nat \X Nat : /\ PlannedMorningEnd(lessons, t) = p[1]
                                /\ morning <= p[1] /\ p[2] <= resumes /\ Opens(p, grid)
    BY <1>1, <1>2, <1>10
  <2>2. p[1] \in Nat /\ p[2] \in Nat /\ p[1] # morning
    BY <2>1 DEF morning
  <2>3. PICK l \in grid : l.start < p[2] /\ l.end = p[1]
    BY <2>1 DEF Opens
  <2>4. l \in day /\ l.start \in Nat
    BY <1>3, <1>5
  <2>5. l.start < resumes /\ l.end > morning
    BY <1>8, <2>1, <2>2, <2>3, <2>4
  <2>6. l.canceled
    <3> SUFFICES ASSUME ~l.canceled PROVE FALSE
      BY <1>7, <2>4
    <3>1. l.end <= morning
      BY <1>1, <1>2, <1>3, <2>5 DEF Opens
    <3> QED BY <1>8, <2>2, <2>3, <2>5, <3>1
  <2> QED BY <2>4, <2>5, <2>6 DEF day, morning, resumes
<1> QED BY <1>9, <1>10

\* The homecoming at noon (sensor, _midday_break).
LEMMA MiddayTold ==
    ASSUME NEW lessons, DayLessons(lessons), now \in Nat
    PROVE  MiddayAgrees(lessons)
<1> DEFINE day == LessonsOn(lessons, Day(now))
           grid == {l \in day : ~l.exempted}
           morning == MorningEnd(lessons, now)
           resumes == ResumesAt(lessons, now)
           planned == PlannedMorningEnd(lessons, now)
           gap == <<morning, resumes>>
<1> SUFFICES ASSUME morning # None
             PROVE  /\ morning < resumes /\ resumes < EndOfDay(lessons, now)
                    /\ \A l \in Teaching(lessons) : l.end <= morning \/ l.start >= resumes
                    /\ planned # None => morning <= planned /\ planned < resumes
                    /\ planned # morning => CanceledBeforeBreak(lessons, now) > 0
  BY DEF MiddayAgrees
<1>1. /\ gap \in Nat \X Nat /\ Opens(gap, Teaching(day))
      /\ planned # None =>
           \E p \in Nat \X Nat :
             planned = p[1] /\ gap[1] <= p[1] /\ p[2] <= gap[2] /\ Opens(p, grid)
  BY MiddayIs
<1>2. gap[1] = morning /\ gap[2] = resumes
  OBVIOUS
<1>3. planned # morning =>
        \E l \in day : l.canceled /\ l.end > morning /\ l.start < resumes
  BY OwedToCancellation
<1>4. CanceledBeforeBreak(lessons, now) =
        Cardinality({l \in day : l.canceled /\ l.end > morning /\ l.start < resumes})
  BY DEF CanceledBeforeBreak
<1>5. \A l \in day : l \in lessons /\ Day(l.start) = Day(now)
  BY DEF LessonsOn
<1>6. \A l \in lessons : Day(l.start) = Day(now) => l \in day
  BY DEF LessonsOn
<1>7. \A l \in lessons : l.start \in Nat /\ l.end \in Nat /\ l.end > l.start
  BY LessonTimes DEF DayLessons
<1>8. \A l \in Teaching(day) : EndOfDay(lessons, now) \in Nat /\ l.end <= EndOfDay(lessons, now)
  BY EndsOfDay
<1>9. Teaching(day) \subseteq day /\ Teaching(lessons) \subseteq lessons
      /\ \A l \in Teaching(lessons) : l \in day => l \in Teaching(day)
  BY DEF Teaching
<1> HIDE DEF day, grid, morning, resumes, planned, gap
<1>10. morning \in Nat /\ resumes \in Nat /\ morning < resumes
  BY <1>1, <1>2 DEF Opens
<1>11. resumes < EndOfDay(lessons, now)
  <2>1. PICK l \in Teaching(day) : l.start = resumes
    BY <1>1, <1>2 DEF Opens
  <2> QED BY <1>5, <1>7, <1>8, <1>9, <2>1
<1>12. ASSUME NEW l \in Teaching(lessons) PROVE l.end <= morning \/ l.start >= resumes
  <2> SUFFICES ASSUME l.end > morning, l.start < resumes PROVE FALSE
    BY <1>7, <1>9, <1>10
  <2>0. l \in lessons /\ l.start \in Nat /\ l.end \in Nat
    BY <1>7, <1>9
  <2>1. PICK a \in Teaching(day) : a.start < resumes /\ a.end = morning
    BY <1>1, <1>2 DEF Opens
  <2>2. PICK b \in Teaching(day) : b.start = resumes
    BY <1>1, <1>2 DEF Opens
  <2>3. /\ a \in lessons /\ Day(a.start) = Day(now) /\ b \in lessons /\ Day(b.start) = Day(now)
        /\ a.start \in Nat /\ a.end > a.start
    BY <1>5, <1>7, <1>9
  <2>4. Midnight(Day(now)) <= a.start /\ b.start < NextMidnight(now)
    BY <2>3, LessonDay
  <2>5. Midnight(Day(now)) \in Nat /\ NextMidnight(now) \in Nat /\ Day(now) \in Nat
    BY DayIs DEF Instants
  <2>6. Midnight(Day(now)) < l.end /\ l.start < NextMidnight(now)
    BY <1>10, <2>0, <2>1, <2>2, <2>3, <2>4, <2>5
  <2>7. Day(l.start) >= Day(now) /\ Day(l.start) <= Day(now)
    BY <2>0, <2>6, LessonDay
  <2>8. Day(l.start) = Day(now)
    <3>1. Day(l.start) \in Nat
      BY <2>0, DayIs
    <3> QED BY <2>5, <2>7, <3>1
  <2>9. l \in Teaching(day)
    BY <1>6, <1>9, <2>0, <2>8
  <2>10. l.end <= morning
    BY <1>1, <1>2, <2>9 DEF Opens
  <2> QED BY <1>10, <2>0, <2>10
<1>13. ASSUME planned # None PROVE morning <= planned /\ planned < resumes
  <2>1. PICK p \in Nat \X Nat :
          planned = p[1] /\ morning <= p[1] /\ p[2] <= resumes /\ Opens(p, grid)
    BY <1>1, <1>2, <1>13
  <2> QED BY <1>10, <2>1 DEF Opens
<1>14. ASSUME planned # morning PROVE CanceledBeforeBreak(lessons, now) > 0
  <2> DEFINE before == {l \in day : l.canceled /\ l.end > morning /\ l.start < resumes}
  <2>1. before # {}
    BY <1>3, <1>14
  <2>2. before \in SUBSET lessons
    BY <1>5
  <2>3. CanceledBeforeBreak(lessons, now) = Cardinality(before)
    BY <1>4
  <2> HIDE DEF before
  <2>4. IsFiniteSet(before)
    BY <2>2, FS_Subset DEF DayLessons
  <2>5. Cardinality(before) \in Nat /\ Cardinality(before) # 0
    BY <2>1, <2>4, FS_CardinalityType, FS_EmptySet
  <2> QED BY <2>3, <2>5
<1> QED BY <1>10, <1>11, <1>12, <1>13, <1>14

-----------------------------------------------------------------------------
(* One story: homework and absences.                                       *)

ReadHomework == [id : Nat, due : Nat, done : BOOLEAN]

\* The homework kept is read, and finite as the answer was.
LEMMA HomeworkIs ==
    ASSUME NEW entries \in SUBSET HomeworkItems, IsFiniteSet(entries)
    PROVE  HomeworkFacts(entries) \in SUBSET ReadHomework /\ IsFiniteSet(HomeworkFacts(entries))
<1> DEFINE kept == {e \in entries : e.dated /\ FirstWeek <= Week(e.due) /\ Week(e.due) <= LastWeek}
           read == [e \in kept |-> [id |-> e.id, due |-> e.due, done |-> e.done]]
           items == HomeworkFacts(entries)
<1>1. items = {[id |-> e.id, due |-> e.due, done |-> e.done] : e \in kept}
  BY DEF HomeworkFacts
<1>2. kept \in SUBSET entries
  OBVIOUS
<1> HIDE DEF kept, items
<1>3. items \in SUBSET ReadHomework
  <2>1. \A e \in kept : e.id \in Nat /\ e.due \in Nat /\ e.done \in BOOLEAN
    BY <1>2 DEF HomeworkItems
  <2> QED BY <1>1, <2>1 DEF ReadHomework
<1>4. IsFiniteSet(kept)
  BY <1>2, FS_Subset
<1>5. read \in Surjection(kept, items)
  <2>1. \A e \in kept : read[e] \in items
    BY <1>1
  <2>2. \A i \in items : \E e \in kept : read[e] = i
    BY <1>1
  <2>3. read \in [kept -> items]
    BY <2>1
  <2> HIDE DEF read
  <2> QED BY <2>2, <2>3 DEF Surjection
<1> HIDE DEF read
<1>6. IsFiniteSet(items)
  BY <1>4, <1>5, FS_Surjection
<1> QED BY <1>3, <1>6 DEF items

\* The sensor counts the items that the list still wants done (todo.todo_items).
LEMMA TodoCount ==
    ASSUME NEW items \in SUBSET ReadHomework, IsFiniteSet(items), NEW t
    PROVE  Cardinality(HomeworkTodo(items, t)) =
             Cardinality({i \in {i \in TodoItems(items) : i.status = "needs_action"} :
                            i.due <= Day(t) + HomeworkHorizon})
<1> DEFINE S == HomeworkTodo(items, t)
           T == {i \in {i \in TodoItems(items) : i.status = "needs_action"} :
                   i.due <= Day(t) + HomeworkHorizon}
           entry(i) == [uid |-> i.id, due |-> i.due, status |-> "needs_action"]
           f == [i \in S |-> entry(i)]
<1>1. S = {i \in items : i.due <= Day(t) + HomeworkHorizon /\ ~i.done}
  BY DEF HomeworkTodo, VisibleHomework
<1>2. TodoItems(items) = {[uid |-> i.id, due |-> i.due,
                           status |-> IF i.done THEN "completed" ELSE "needs_action"] : i \in items}
  BY DEF TodoItems
<1>3. T = {x \in TodoItems(items) : x.status = "needs_action" /\ x.due <= Day(t) + HomeworkHorizon}
  OBVIOUS
<1> HIDE DEF S, T
<1>4. \A i \in S : f[i] \in T
  <2> SUFFICES ASSUME NEW i \in S PROVE entry(i) \in T
    OBVIOUS
  <2>1. i \in items /\ ~i.done /\ i.due <= Day(t) + HomeworkHorizon
    BY <1>1
  <2>2. entry(i) \in TodoItems(items)
    BY <1>2, <2>1
  <2> QED BY <1>3, <2>1, <2>2
<1>5. \A x \in T : \E i \in S : f[i] = x
  <2> SUFFICES ASSUME NEW x \in T PROVE \E i \in S : entry(i) = x
    OBVIOUS
  <2>1. x \in TodoItems(items) /\ x.status = "needs_action" /\ x.due <= Day(t) + HomeworkHorizon
    BY <1>3
  <2>2. PICK i \in items : x = [uid |-> i.id, due |-> i.due,
                                status |-> IF i.done THEN "completed" ELSE "needs_action"]
    BY <1>2, <2>1
  <2>3. ~i.done
    BY <2>1, <2>2
  <2>4. i \in S
    BY <1>1, <2>1, <2>2, <2>3
  <2> QED BY <2>2, <2>3, <2>4
<1>6. \A i, j \in S : f[i] = f[j] => i = j
  <2> SUFFICES ASSUME NEW i \in S, NEW j \in S, entry(i) = entry(j) PROVE i = j
    OBVIOUS
  <2>1. i \in ReadHomework /\ j \in ReadHomework /\ ~i.done /\ ~j.done
    BY <1>1
  <2>2. i.id = j.id /\ i.due = j.due
    OBVIOUS
  <2>3. i.done = FALSE /\ j.done = FALSE
    BY <2>1 DEF ReadHomework
  <2> QED BY <2>1, <2>2, <2>3 DEF ReadHomework
<1>7. f \in Bijection(S, T)
  <2>1. f \in [S -> T]
    BY <1>4
  <2> HIDE DEF f
  <2> QED BY <1>5, <1>6, <2>1 DEF Bijection, Injection, Surjection, IsInjective
<1>8. IsFiniteSet(S)
  <2>1. S \in SUBSET items
    BY <1>1
  <2> QED BY <2>1, FS_Subset
<1>9. ExistsBijection(S, T)
  BY <1>7 DEF ExistsBijection
<1>10. Cardinality(T) = Cardinality(S)
  BY <1>8, <1>9, FS_Bijection
<1> QED BY <1>10 DEF S, T

\* The homework sensors, the flag, the list and the calendar agree (sensor,
\* binary_sensor, todo, calendar).
LEMMA HomeworkTold ==
    ASSUME NEW items \in SUBSET ReadHomework, IsFiniteSet(items), now \in Nat
    PROVE  HomeworkAgrees(items)
<1>0. Day(now) \in Nat /\ HomeworkHorizon \in Nat \ {0}
  BY DayIs, ViewsAssumption
<1>1. \A i \in items : i.due \in Nat
  BY DEF ReadHomework
<1>2. ASSUME HomeworkOverdue(items, now)
      PROVE  NextDue(items, now) # None /\ NextDue(items, now) < Day(now)
  <2> DEFINE D == {i.due : i \in HomeworkTodo(items, now)}
  <2>1. PICK i \in items : ~i.done /\ i.due < Day(now)
    BY <1>2 DEF HomeworkOverdue, Late
  <2>2. i.due \in D
    BY <1>0, <1>1, <2>1 DEF HomeworkTodo, VisibleHomework
  <2>3. D \in SUBSET Nat
    BY <1>1 DEF HomeworkTodo, VisibleHomework
  <2>4. NextDue(items, now) = Min(D)
    <3>1. NextDue(items, now) = Least(D)
      BY DEF NextDue
    <3> HIDE DEF D
    <3> QED BY <2>2, <3>1 DEF Least
  <2> HIDE DEF D
  <2>5. Min(D) \in Nat /\ Min(D) <= i.due
    BY <2>2, <2>3, MinIs
  <2> QED BY <1>0, <1>1, <2>1, <2>4, <2>5 DEF None
<1>3. HomeworkTomorrow(items, now) \subseteq VisibleHomework(items, now)
  BY <1>0, <1>1 DEF HomeworkTomorrow, VisibleHomework
<1>4. ASSUME NEW i \in items, i.due = Day(now)
      PROVE  CalendarEvent(HomeworkEntries(items), now) = Midnight(Day(now))
  <2> DEFINE entries == HomeworkEntries(items)
  <2>1. \A e \in entries : \E k \in items : e.start = Midnight(k.due) /\ e.end = Midnight(k.due + 1)
    BY DEF HomeworkEntries
  <2>2. [start |-> Midnight(i.due), end |-> Midnight(i.due + 1)] \in entries
    BY DEF HomeworkEntries
  <2> HIDE DEF entries
  <2>3. \A e \in entries : e.start \in Nat
    BY <1>1, <2>1, Midnights
  <2>4. /\ Midnight(Day(now)) <= now /\ now < Midnight(Day(now) + 1)
        /\ Midnight(Day(now)) \in Nat /\ Midnight(Day(now) + 1) \in Nat
    BY <1>0, DayIs, Midnights DEF NextMidnight
  <2>5. Current(entries, now) # {}
    BY <1>4, <2>2, <2>4 DEF Current
  <2>6. PICK e \in Current(entries, now) : CalendarEvent(entries, now) = e.start
    BY <2>3, <2>5, EventIs
  <2>7. e \in entries /\ e.start <= now /\ now < e.end
    BY DEF Current
  <2>8. PICK k \in items : e.start = Midnight(k.due) /\ e.end = Midnight(k.due + 1)
    BY <2>1, <2>7
  <2>9. /\ k.due \in Nat /\ k.due + 1 \in Nat /\ Day(now) + 1 \in Nat
        /\ Midnight(k.due) \in Nat /\ Midnight(k.due + 1) \in Nat
    BY <1>0, <1>1, Midnights
  <2>10. Midnight(k.due) < Midnight(Day(now) + 1) /\ Midnight(Day(now)) < Midnight(k.due + 1)
    BY <2>4, <2>7, <2>8, <2>9
  <2>11. k.due < Day(now) + 1 /\ Day(now) < k.due + 1
    BY <1>0, <2>9, <2>10, Midnights
  <2>12. k.due = Day(now)
    BY <1>0, <2>9, <2>11
  <2> QED BY <2>6, <2>8, <2>12 DEF entries
<1> QED BY <1>2, <1>3, <1>4, TodoCount DEF HomeworkAgrees

\* The detention sensor, its flag, its calendar and the absence in progress (sensor,
\* binary_sensor, calendar).
LEMMA AttendanceTold ==
    ASSUME school \in [session : Sessions, entries : SUBSET AttendanceEntries], now \in Nat
    PROVE  AttendanceAgrees(AttendanceTier(school))
<1> DEFINE f == AttendanceTier(school)
           S == {s.start : s \in Slots(f)}
           entries == PunishmentEntries(f)
<1>1. f.absences \in SUBSET ReadAbsences /\ Slots(f) \in SUBSET ReadSlots
  BY AttendanceIs
<1> HIDE DEF f
<1>2. S \in SUBSET Nat
  BY <1>1 DEF ReadSlots, Instants
<1>3. NextPunishment(f, now) = Least({s \in S : s > now})
  <2>1. {s.start : s \in {s \in Slots(f) : s.start > now}} = {s \in S : s > now}
    OBVIOUS
  <2> QED BY <2>1 DEF NextPunishment
<1>4. PunishmentUpcoming(f, now) <=> \E s \in S : s > now
  BY DEF PunishmentUpcoming
<1>5. {e.start : e \in entries} = S
  <2>1. entries = {[start |-> s.start, end |-> s.start + s.duration] : s \in Slots(f)}
    BY DEF PunishmentEntries
  <2>2. ASSUME NEW e \in entries PROVE e.start \in S
    BY <2>1
  <2>3. ASSUME NEW s \in Slots(f) PROVE \E e \in entries : e.start = s.start
    <3>1. [start |-> s.start, end |-> s.start + s.duration] \in entries
      BY <2>1
    <3> QED BY <3>1
  <2> HIDE DEF entries
  <2>4. {e.start : e \in entries} \subseteq S
    BY <2>2
  <2>5. S \subseteq {e.start : e \in entries}
    BY <2>3
  <2> QED BY <2>4, <2>5
<1> HIDE DEF S, entries
<1>6. PunishmentUpcoming(f, now) <=> NextPunishment(f, now) # None
  <2>1. ASSUME PunishmentUpcoming(f, now) PROVE NextPunishment(f, now) # None
    BY <1>2, <1>3, <1>4, <2>1, NextIs
  <2>2. ASSUME NextPunishment(f, now) # None PROVE PunishmentUpcoming(f, now)
    BY <1>2, <1>3, <1>4, <2>2, NextIs
  <2> QED BY <2>1, <2>2
<1>7. Current(entries, now) = {} => CalendarEvent(entries, now) = NextPunishment(f, now)
  <2>1. \A e \in entries : e.start \in Nat
    BY <1>2, <1>5
  <2>2. ASSUME Current(entries, now) = {}
        PROVE  CalendarEvent(entries, now) = Least({s \in {e.start : e \in entries} : s > now})
    BY <2>1, <2>2, EventIs
  <2> QED BY <1>3, <1>5, <2>2
<1>8. ASSUME AbsenceInProgress(f, now)
      PROVE  \E e \in school.entries :
               e.readable /\ e.kind = "absence" /\ e.from <= now /\ now < e.to
  <2>1. PICK a \in f.absences : a.from <= now /\ now < a.to
    BY <1>8 DEF AbsenceInProgress
  <2>2. HasPeriod(school)
    <3> SUFFICES ASSUME ~HasPeriod(school) PROVE FALSE
      OBVIOUS
    <3>1. f.absences = {}
      BY DEF f, AttendanceTier, NoAttendance
    <3> QED BY <2>1, <3>1
  <2>3. f.absences = {[from |-> e.from, to |-> e.to, justified |-> e.justified] :
                        e \in {e \in school.entries : e.readable /\ e.kind = "absence"}}
    BY <2>2 DEF f, AttendanceTier, AttendanceFacts
  <2> QED BY <2>1, <2>3
<1>9. ASSUME ~HasPeriod(school) PROVE Incidents(f) = <<0, 0, 0>>
  <2>1. f.absences = {} /\ f.delays = {} /\ f.punishments = {}
    BY <1>9 DEF f, AttendanceTier, NoAttendance
  <2> QED BY <2>1, FS_EmptySet DEF Incidents
<1>10. PunishmentUpcoming(f, now) = (NextPunishment(f, now) # None)
  <2>1. PunishmentUpcoming(f, now) \in BOOLEAN
    BY DEF PunishmentUpcoming
  <2> QED BY <1>6, <2>1, Zenon
<1> QED BY <1>7, <1>8, <1>9, <1>10 DEF AttendanceAgrees, f, entries

-----------------------------------------------------------------------------
(* One story: lists of marks, of meals and of news.                         *)

\* A list computed entry by entry is as long as the one it is computed from.
LEMMA MappedList ==
    ASSUME NEW A, NEW seq \in Seq(A), NEW B, NEW list \in [DOMAIN seq -> B]
    PROVE  list \in Seq(B) /\ Len(list) = Len(seq) /\ DOMAIN list = DOMAIN seq
<1>1. DOMAIN seq = 1 .. Len(seq) /\ Len(seq) \in Nat
  OBVIOUS
<1> QED BY <1>1

\* A list is empty when nothing is in it.
LEMMA EmptyList ==
    ASSUME NEW A, NEW seq \in Seq(A)
    PROVE  /\ seq = <<>> <=> Range(seq) = {}
           /\ Len(seq) = 0 <=> seq = <<>>
           /\ seq # <<>> => 1 \in DOMAIN seq /\ seq[1] \in Range(seq)
<1>1. DOMAIN seq = 1 .. Len(seq) /\ Len(seq) \in Nat /\ (Len(seq) = 0 <=> seq = <<>>)
  OBVIOUS
<1>2. seq # <<>> => 1 \in DOMAIN seq
  BY <1>1
<1>3. seq = <<>> => Range(seq) = {}
  BY DEF Range
<1> QED BY <1>1, <1>2, <1>3 DEF Range

\* What is picked from a list is not longer than the list.
LEMMA SelectionLength ==
    ASSUME NEW A, NEW seq \in Seq(A), NEW S
    PROVE  Len(OnlyIn(seq, S)) \in Nat /\ Len(OnlyIn(seq, S)) <= Len(seq)
<1> DEFINE only == OnlyIn(seq, S)
           m == Len(only)
           n == Len(seq)
<1>1. only \in Seq(A)
  BY Selection
<1>2. PICK e \in [DOMAIN only -> DOMAIN seq] : IsInjective(e)
  BY Selection
<1> HIDE DEF only
<1>3. DOMAIN only = 1 .. m /\ DOMAIN seq = 1 .. n /\ m \in Nat /\ n \in Nat
  BY <1>1
<1> HIDE DEF m, n
<1>4. e \in Injection(1 .. m, 1 .. n)
  BY <1>2, <1>3 DEF Injection, IsInjective
<1>5. /\ IsFiniteSet(1 .. m) /\ IsFiniteSet(1 .. n)
      /\ Cardinality(1 .. m) = m /\ Cardinality(1 .. n) = n
  BY <1>3, FS_Interval
<1>6. Cardinality(1 .. m) <= Cardinality(1 .. n)
  BY <1>4, <1>5, FS_Injection
<1> QED BY <1>3, <1>5, <1>6 DEF m, n, only

\* The grades are those of the dated entries, in their order, and the last grade is
\* the first of the list on the last of its days (sensor, _latest_grade_value).
LEMMA LastIs ==
    ASSUME NEW answer \in Marksheets
    PROVE  LET f == MarksFacts(answer)
               dated == {e \in Range(answer.grades) : e.dated}
               last == {e \in dated : \A d \in dated : d.day <= e.day}
           IN  /\ GradesCount(f) = 0 <=> dated = {}
               /\ f.grades = <<>> <=> dated = {}
               /\ dated # {} => \E e \in last : LatestGrade(f) = Grade(e)
<1> DEFINE f == MarksFacts(answer)
           Entries == [day : Nat, dated : BOOLEAN, note : Notes]
           dated == {e \in Range(answer.grades) : e.dated}
           last == {e \in dated : \A d \in dated : d.day <= e.day}
           D == OnlyIn(answer.grades, dated)
           G == {Grade(e) : e \in dated}
<1>1. answer.grades \in Seq(Entries)
  BY DEF Marksheets
<1>2. D \in Seq(Entries) /\ Range(D) = Range(answer.grades) \intersect dated
  <2> HIDE DEF dated, Entries
  <2> QED BY <1>1, Selection
<1>3. Range(D) = dated
  BY <1>2
<1>4. f.grades = [i \in DOMAIN D |-> Grade(D[i])]
  BY DEF MarksFacts
<1> HIDE DEF f, D, dated
<1>5. \A i \in DOMAIN D : D[i] \in dated
  BY <1>3 DEF Range
<1>6. f.grades \in [DOMAIN D -> G]
  BY <1>4, <1>5
<1> HIDE DEF G
<1>7. f.grades \in Seq(G) /\ Len(f.grades) = Len(D) /\ DOMAIN f.grades = DOMAIN D
  <2> HIDE DEF Entries
  <2> QED BY <1>2, <1>6, MappedList
<1>8. (Len(D) = 0 <=> D = <<>>) /\ (D = <<>> <=> dated = {})
  <2> HIDE DEF Entries
  <2> QED BY <1>2, <1>3, EmptyList
<1>9. Len(f.grades) = 0 <=> f.grades = <<>>
  BY <1>7, EmptyList
<1>10. ASSUME dated # {} PROVE \E e \in last : LatestGrade(f) = Grade(e)
  <2> DEFINE days == {g.day : g \in Range(f.grades)}
             indices == {i \in DOMAIN f.grades : f.grades[i].day = Max(days)}
  <2>1. \A i \in DOMAIN D : f.grades[i].day = D[i].day
    BY <1>4 DEF Grade
  <2>2. days = {D[i].day : i \in DOMAIN D}
    <3>1. Range(f.grades) = {f.grades[i] : i \in DOMAIN D}
      BY <1>7 DEF Range
    <3>2. days = {f.grades[i].day : i \in DOMAIN D}
      BY <3>1
    <3> QED BY <2>1, <3>2
  <2>3. days \in SUBSET Nat
    <3>1. \A i \in DOMAIN D : D[i] \in Entries
      <4> HIDE DEF Entries
      <4> QED BY <1>2
    <3>2. \A i \in DOMAIN D : D[i].day \in Nat
      BY <3>1
    <3> QED BY <2>2, <3>2
  <2>4. IsFiniteSet(days)
    <3> DEFINE read == [i \in DOMAIN D |-> D[i].day]
    <3>1. IsFiniteSet(DOMAIN D)
      <4>1. DOMAIN D = 1 .. Len(D) /\ Len(D) \in Nat
        BY <1>2
      <4> QED BY <4>1, FS_Interval
    <3>2. read \in [DOMAIN D -> days] /\ \A x \in days : \E i \in DOMAIN D : read[i] = x
      BY <2>2
    <3>3. read \in Surjection(DOMAIN D, days)
      <4> HIDE DEF read, days
      <4> QED BY <3>2 DEF Surjection
    <3> HIDE DEF read, days
    <3> QED BY <3>1, <3>3, FS_Surjection
  <2>5. days # {}
    BY <1>3, <1>10, <2>2 DEF Range
  <2>6. Max(days) \in days /\ \A x \in days : x <= Max(days)
    <3> HIDE DEF days
    <3> QED BY <2>3, <2>4, <2>5, MaxIs
  <2>7. indices \in SUBSET Nat /\ indices # {}
    <3>1. DOMAIN f.grades \subseteq Nat
      BY <1>7
    <3>2. PICK i \in DOMAIN D : D[i].day = Max(days)
      <4> HIDE DEF days
      <4> QED BY <2>2, <2>6
    <3>3. i \in indices
      BY <1>7, <2>1, <3>2
    <3> QED BY <3>1, <3>3
  <2>8. Min(indices) \in indices
    <3> HIDE DEF indices
    <3> QED BY <2>7, MinIs
  <2>9. LatestGrade(f) = f.grades[Min(indices)]
    BY DEF LatestGrade
  <2> DEFINE m == Min(indices)
  <2>10. m \in DOMAIN D /\ D[m].day = Max(days)
    BY <1>7, <2>1, <2>8
  <2> HIDE DEF m, indices
  <2>11. LatestGrade(f) = Grade(D[m])
    BY <1>4, <2>9, <2>10 DEF m
  <2>12. \A d \in dated : d.day <= D[m].day
    <3> SUFFICES ASSUME NEW d \in dated PROVE d.day \in days
      BY <2>6, <2>10
    <3>1. PICK i \in DOMAIN D : D[i] = d
      BY <1>3 DEF Range
    <3> QED BY <2>2, <3>1
  <2>13. D[m] \in last
    BY <1>5, <2>10, <2>12
  <2> QED BY <2>11, <2>13
<1> QED BY <1>7, <1>8, <1>9, <1>10 DEF GradesCount, f, dated

\* The last grade and the reason there is none (sensor, _latest_grade_value).
LEMMA MarksTold ==
    ASSUME school \in Marksheets
    PROVE  MarksAgree(MarksTier(school))
<1> DEFINE f == MarksTier(school)
           dated == {e \in Range(school.grades) : e.dated}
           last == {e \in dated : \A d \in dated : d.day <= e.day}
<1>1. CASE ~HasPeriod(school)
  BY <1>1 DEF MarksTier, MarksAgree
<1>2. CASE HasPeriod(school)
  <2>1. f = MarksFacts(school)
    BY <1>2 DEF MarksTier
  <2>2. /\ GradesCount(f) = 0 <=> dated = {}
        /\ f.grades = <<>> <=> dated = {}
        /\ dated # {} => \E e \in last : LatestGrade(f) = Grade(e)
    BY <2>1, LastIs
  <2>3. \A e \in last : e.note \in Notes
    <3> DEFINE Entries == [day : Nat, dated : BOOLEAN, note : Notes]
    <3>1. school.grades \in Seq(Entries)
      BY DEF Marksheets
    <3>2. \A e \in Entries : e.note \in Notes
      OBVIOUS
    <3> HIDE DEF Entries
    <3>3. Range(school.grades) \subseteq Entries
      BY <3>1 DEF Range
    <3> QED BY <3>2, <3>3
  <2>4. f.report = IF school.report.kind = "published" THEN school.report.subjects ELSE None
    BY <2>1 DEF MarksFacts, Report
  <2>5. /\ LastGrade(f) = IF f.grades = <<>> THEN None ELSE LatestGrade(f).value
        /\ LastGradeStatus(f) = IF f.grades = <<>> THEN None ELSE LatestGrade(f).status
    BY DEF LastGrade, LastGradeStatus
  <2>6. last # {} => dated # {}
    OBVIOUS
  <2>7. \A e : /\ Grade(e).value = IF e.note.kind = "number" THEN e.note.v ELSE None
               /\ Grade(e).status = IF e.note.kind = "sentinel" THEN e.note.v ELSE None
    BY DEF Grade, Number, Sentinel
  <2> HIDE DEF f, dated, last
  <2>8. ASSUME LastGrade(f) # None
        PROVE  /\ LastGradeStatus(f) = None
               /\ \E e \in last : e.note = [kind |-> "number", v |-> LastGrade(f)]
    <3>1. f.grades # <<>>
      BY <2>5, <2>8
    <3>2. PICK e \in last : LatestGrade(f) = Grade(e)
      BY <2>2, <3>1
    <3>3. e.note.kind = "number" /\ LastGrade(f) = e.note.v /\ LastGradeStatus(f) = None
      BY <2>5, <2>7, <2>8, <3>1, <3>2
    <3>4. e.note = [kind |-> "number", v |-> LastGrade(f)]
      BY <2>3, <3>3 DEF Notes
    <3> QED BY <3>3, <3>4
  <2>9. ASSUME \A e \in last : e.note.kind = "sentinel", last # {}
        PROVE  LastGrade(f) = None /\ LastGradeStatus(f) # None
    <3>1. f.grades # <<>>
      BY <2>2, <2>6, <2>9
    <3>2. PICK e \in last : LatestGrade(f) = Grade(e)
      BY <2>2, <2>6, <2>9
    <3>3. e.note.kind = "sentinel" /\ e.note.v \in Nat
      BY <2>3, <2>9 DEF Notes
    <3>4. LastGrade(f) = None /\ LastGradeStatus(f) = e.note.v
      BY <2>5, <2>7, <3>1, <3>2, <3>3
    <3> QED BY <3>3, <3>4 DEF None
  <2>10. f.report = 0 => school.report.kind = "published"
    BY <2>4 DEF None
  <2> QED BY <1>2, <2>2, <2>8, <2>9, <2>10 DEF MarksAgree, f, dated, last
<1> QED BY <1>1, <1>2

\* What is served that day, lunch before the others (sensor, _menu_for).
LEMMA MenuForIs ==
    ASSUME NEW A, \A m \in A : m.lunch \in BOOLEAN, NEW meals \in Seq(A), NEW day
    PROVE  LET served == {m \in Range(meals) : m.day = day}
           IN  /\ served = {} => MenuFor(meals, day) = None
               /\ served # {} => \E m \in served :
                    MenuFor(meals, day) = m.dishes /\ ((\E x \in served : x.lunch) => m.lunch)
<1> DEFINE served == {m \in Range(meals) : m.day = day}
           list == OnlyIn(meals, served)
           lunch == {m \in Range(list) : m.lunch}
           lunches == OnlyIn(list, lunch)
<1>1. list \in Seq(A) /\ Range(list) = served
  <2>1. list \in Seq(A) /\ Range(list) = Range(meals) \intersect served
    <3> HIDE DEF served
    <3> QED BY Selection
  <2> QED BY <2>1
<1>2. MenuFor(meals, day) = IF lunches # <<>> THEN lunches[1].dishes
                            ELSE IF list # <<>> THEN list[1].dishes ELSE None
  BY DEF MenuFor
<1> HIDE DEF list, served
<1>3. lunches \in Seq(A) /\ Range(lunches) = lunch
  <2>1. lunches \in Seq(A) /\ Range(lunches) = Range(list) \intersect lunch
    <3> HIDE DEF lunch
    <3> QED BY <1>1, Selection
  <2> QED BY <2>1
<1>4. lunch = {m \in served : m.lunch}
  BY <1>1
<1> HIDE DEF lunch, lunches
<1>5. /\ lunches = <<>> <=> lunch = {}
      /\ lunches # <<>> => lunches[1] \in lunch
      /\ list = <<>> <=> served = {}
      /\ list # <<>> => list[1] \in served
  BY <1>1, <1>3, EmptyList
<1>6. ASSUME served = {} PROVE MenuFor(meals, day) = None
  BY <1>2, <1>4, <1>5, <1>6
<1>7. ASSUME served # {}
      PROVE  \E m \in served :
               MenuFor(meals, day) = m.dishes /\ ((\E x \in served : x.lunch) => m.lunch)
  <2>1. CASE lunch # {}
    <3>1. lunches[1] \in served /\ lunches[1].lunch /\ MenuFor(meals, day) = lunches[1].dishes
      BY <1>2, <1>4, <1>5, <2>1
    <3> QED BY <3>1
  <2>2. CASE lunch = {}
    <3>1. list[1] \in served /\ MenuFor(meals, day) = list[1].dishes
      BY <1>2, <1>5, <1>7, <2>2
    <3>2. ~ \E x \in served : x.lunch
      BY <1>4, <2>2
    <3> QED BY <3>1, <3>2
  <2> QED BY <2>1, <2>2
<1> QED BY <1>6, <1>7 DEF served

\* A later instant is not of an earlier day.
LEMMA DayOrder ==
    ASSUME NEW t \in Nat, NEW u \in Nat, t <= u
    PROVE  Day(t) <= Day(u)
<1>1. /\ Day(t) \in Nat /\ Day(u) \in Nat /\ Midnight(Day(t)) <= t /\ u < Midnight(Day(u) + 1)
      /\ Midnight(Day(t)) \in Nat
  BY DayIs DEF NextMidnight
<1>2. Midnight(Day(u) + 1) \in Nat
  BY <1>1, Midnights
<1>3. Midnight(Day(t)) < Midnight(Day(u) + 1)
  BY <1>1, <1>2
<1>4. Day(t) < Day(u) + 1
  BY <1>1, <1>3, Midnights
<1> QED BY <1>1, <1>4

\* A meal is shown on the days that were asked for, and on no other.
LEMMA MenusTold ==
    ASSUME school \in Seq([day : Nat, lunch : BOOLEAN, dishes : Nat]),
           now \in Nat, fetchedAt \in Nat, fetchedAt <= now
    PROVE  MenusAgree(MenusFacts(school, Day(fetchedAt)))
<1> DEFINE Meals == [day : Nat, lunch : BOOLEAN, dishes : Nat]
           first == Day(fetchedAt)
           meals == MenusFacts(school, first)
           asked == {m \in Range(school) : m.day \in {first, first + 1}}
<1>1. first \in Nat /\ Day(now) \in Nat /\ first <= Day(now)
  BY DayIs, DayOrder
<1>2. meals \in Seq(Meals) /\ Range(meals) = asked
  <2>1. meals = OnlyIn(school, asked)
    BY DEF MenusFacts
  <2>2. OnlyIn(school, asked) \in Seq(Meals) /\ Range(OnlyIn(school, asked)) = Range(school) \intersect asked
    <3> HIDE DEF asked, Meals
    <3> QED BY Selection DEF Meals
  <2> QED BY <2>1, <2>2
<1>3. \A m \in Meals : m.lunch \in BOOLEAN /\ m.dishes \in Nat
  OBVIOUS
<1>4. Range(school) \subseteq Meals
  <2>1. school \in Seq(Meals)
    OBVIOUS
  <2> HIDE DEF Meals
  <2> QED BY <2>1 DEF Range
<1> HIDE DEF Meals, first, meals
<1>5. ASSUME NEW day \in Day(now) .. Day(now) + 1
      PROVE  LET served == {m \in Range(school) : m.day = day}
                 covered == day <= first + 1
             IN  /\ (MenuFor(meals, day) # None) = (covered /\ served # {})
                 /\ covered /\ (\E m \in served : m.lunch) =>
                      \E m \in served : m.lunch /\ m.dishes = MenuFor(meals, day)
  <2> DEFINE served == {m \in Range(school) : m.day = day}
             kept == {m \in Range(meals) : m.day = day}
             covered == day <= first + 1
  <2>1. covered => kept = served
    <3>1. covered => day \in {first, first + 1}
      BY <1>1
    <3> QED BY <1>2, <3>1
  <2>2. ~covered => kept = {}
    <3>1. ~covered => day \notin {first, first + 1}
      BY <1>1
    <3> QED BY <1>2, <3>1
  <2>3. \A m \in kept : m.dishes # None
    BY <1>2, <1>3, <1>4 DEF None
  <2>4. /\ kept = {} => MenuFor(meals, day) = None
        /\ kept # {} => \E m \in kept :
             MenuFor(meals, day) = m.dishes /\ ((\E x \in kept : x.lunch) => m.lunch)
    BY <1>2, <1>3, MenuForIs
  <2> HIDE DEF served, kept, covered
  <2>5. MenuFor(meals, day) # None <=> kept # {}
    BY <2>3, <2>4
  <2>6. MenuFor(meals, day) # None <=> covered /\ served # {}
    BY <2>1, <2>2, <2>5
  <2>7. covered \in BOOLEAN
    BY DEF covered
  <2>8. (MenuFor(meals, day) # None) = (covered /\ served # {})
    BY <2>6, <2>7, Zenon
  <2>9. ASSUME covered, \E m \in served : m.lunch
        PROVE  \E m \in served : m.lunch /\ m.dishes = MenuFor(meals, day)
    <3>1. kept = served /\ kept # {}
      BY <2>1, <2>9
    <3> QED BY <2>4, <2>9, <3>1
  <2> QED BY <2>8, <2>9 DEF served, covered
<1> QED BY <1>5 DEF MenusAgree, meals, first

\* The news of the facts are the dated ones, whatever their group.
LEMMA NewsAre ==
    ASSUME NEW answer \in Seq(Seq([id : Nat, read : BOOLEAN, dated : BOOLEAN]))
    PROVE  /\ NewsFacts(answer) \in Seq([id : Nat, read : BOOLEAN])
           /\ Range(NewsFacts(answer)) =
                {[id |-> e.id, read |-> e.read] :
                   e \in {e \in UNION {Range(answer[g]) : g \in DOMAIN answer} : e.dated}}
<1> DEFINE Entries == [id : Nat, read : BOOLEAN, dated : BOOLEAN]
           Items == [id : Nat, read : BOOLEAN]
           dated(g) == {e \in Range(answer[g]) : e.dated}
           groups == [g \in DOMAIN answer |-> OnlyIn(answer[g], dated(g))]
           entries == FlattenSeq(groups)
           items == [i \in DOMAIN entries |-> [id |-> entries[i].id, read |-> entries[i].read]]
           sent == UNION {Range(answer[g]) : g \in DOMAIN answer}
<1>1. NewsFacts(answer) = items
  BY DEF NewsFacts
<1>2. \A e \in Entries : [id |-> e.id, read |-> e.read] \in Items
  OBVIOUS
<1>3. answer \in Seq(Seq(Entries))
  OBVIOUS
<1> HIDE DEF Entries, Items
<1>4. ASSUME NEW g \in DOMAIN answer
      PROVE  OnlyIn(answer[g], dated(g)) \in Seq(Entries) /\ Range(OnlyIn(answer[g], dated(g))) = dated(g)
  <2>1. answer[g] \in Seq(Entries)
    BY <1>3
  <2>2. dated(g) \subseteq Range(answer[g])
    OBVIOUS
  <2> HIDE DEF dated
  <2>3. /\ OnlyIn(answer[g], dated(g)) \in Seq(Entries)
        /\ Range(OnlyIn(answer[g], dated(g))) = Range(answer[g]) \intersect dated(g)
    BY <2>1, Selection
  <2> QED BY <2>2, <2>3
<1>5. groups \in Seq(Seq(Entries)) /\ DOMAIN groups = DOMAIN answer
  <2> HIDE DEF dated
  <2>1. groups \in [DOMAIN answer -> Seq(Entries)]
    BY <1>4
  <2> HIDE DEF groups
  <2> QED BY <1>3, <2>1, MappedList
<1>6. \A g \in DOMAIN answer : Range(groups[g]) = dated(g)
  <2> HIDE DEF dated
  <2> QED BY <1>4
<1> HIDE DEF groups
<1>7. entries \in Seq(Entries) /\ Range(entries) = UNION {Range(groups[g]) : g \in DOMAIN groups}
  BY <1>5, FlattenIs
<1> HIDE DEF entries
<1>8. Range(entries) = {e \in sent : e.dated}
  <2>1. Range(entries) = UNION {dated(g) : g \in DOMAIN answer}
    <3> HIDE DEF dated
    <3> QED BY <1>5, <1>6, <1>7
  <2>2. \A e : e \in Range(entries) <=> \E g \in DOMAIN answer : e \in Range(answer[g]) /\ e.dated
    BY <2>1
  <2> QED BY <2>2
<1>9. \A i \in DOMAIN entries : entries[i] \in Entries
  BY <1>7
<1>10. items \in Seq(Items)
  <2>1. items \in [DOMAIN entries -> Items]
    BY <1>2, <1>9
  <2> HIDE DEF items
  <2> QED BY <1>7, <2>1, MappedList
<1>11. Range(items) = {[id |-> e.id, read |-> e.read] : e \in Range(entries)}
  BY DEF Range
<1> HIDE DEF items, sent
<1>12. Range(items) = {[id |-> e.id, read |-> e.read] : e \in {e \in sent : e.dated}}
  BY <1>8, <1>11
<1> QED BY <1>1, <1>10, <1>12 DEF Items, sent

\* The unread news are among the news (sensor, _unread_news).
LEMMA NewsTold ==
    ASSUME school \in Seq(Seq([id : Nat, read : BOOLEAN, dated : BOOLEAN]))
    PROVE  NewsAgree(NewsFacts(school))
<1> DEFINE Items == [id : Nat, read : BOOLEAN]
           items == NewsFacts(school)
           sent == UNION {Range(school[g]) : g \in DOMAIN school}
           missed == {i \in Range(items) : ~i.read}
           list == OnlyIn(items, missed)
<1>1. /\ items \in Seq(Items)
      /\ Range(items) = {[id |-> e.id, read |-> e.read] : e \in {e \in sent : e.dated}}
  BY NewsAre
<1>2. UnreadNews(items) = Len(list) /\ NewsCount(items) = Len(items)
  BY DEF UnreadNews, NewsCount
<1> HIDE DEF Items, items
<1>3. /\ Len(list) <= Len(items)
      /\ list \in Seq(Items) /\ Range(list) = Range(items) \intersect missed
  <2> HIDE DEF missed
  <2> QED BY <1>1, Selection, SelectionLength
<1>4. Len(list) = 0 <=> Range(list) = {}
  <2> HIDE DEF list
  <2> QED BY <1>3, EmptyList
<1>5. Range(list) = {} <=> \A i \in Range(items) : i.read
  BY <1>3
<1>6. (\A i \in Range(items) : i.read) <=> \A e \in sent : e.dated => e.read
  <2> HIDE DEF sent
  <2>1. ASSUME \A i \in Range(items) : i.read, NEW e \in sent, e.dated PROVE e.read
    <3>1. [id |-> e.id, read |-> e.read] \in Range(items)
      BY <1>1, <2>1
    <3>2. [id |-> e.id, read |-> e.read].read
      BY <2>1, <3>1
    <3> QED BY <3>2
  <2>2. ASSUME \A e \in sent : e.dated => e.read, NEW i \in Range(items) PROVE i.read
    <3>1. PICK e \in {e \in sent : e.dated} : i = [id |-> e.id, read |-> e.read]
      BY <1>1
    <3>2. e.read /\ i.read = e.read
      BY <2>2, <3>1
    <3> QED BY <3>2, Zenon
  <2> QED BY <2>1, <2>2
<1> HIDE DEF sent, list
<1> QED BY <1>2, <1>3, <1>4, <1>5, <1>6 DEF NewsAgree, items, sent

-----------------------------------------------------------------------------
(* One story: threads of messages.                                         *)

\* The sum of the messages not read in the first n threads.
Sums(s, threads) ==
    s[0] = 0 /\ \A n \in 1 .. Len(threads) : s[n] = s[n - 1] + threads[n].unread
Totals(threads, s) ==
    [n \in 0 .. Len(threads) |-> IF n = 0 THEN 0 ELSE s[n - 1] + threads[n].unread]

\* The sensor adds them up thread by thread (sensor, _unread_messages).
LEMMA SumSteps ==
    ASSUME NEW A, \A t \in A : t.unread \in Nat, NEW threads \in Seq(A)
    PROVE  \E s \in [0 .. Len(threads) -> Nat] :
              UnreadMessages(threads) = s[Len(threads)] /\ Sums(s, threads)
<1> DEFINE N == Len(threads)
           step == [n \in 1 .. N |-> [x \in Nat |-> x + threads[n].unread]]
<1>1. N \in Nat /\ \A n \in 1 .. N : threads[n] \in A
  OBVIOUS
<1>2. \A n \in 1 .. N : threads[n].unread \in Nat
  BY <1>1
<1>3. step \in [1 .. N -> [Nat -> Nat]]
  <2>1. \A n \in 1 .. N, x \in Nat : x + threads[n].unread \in Nat
    BY <1>2
  <2> HIDE DEF N
  <2> QED BY <2>1
<1>4. PICK g \in [0 .. N -> Nat] : Steps(g, N, 0, step)
  <2>1. 0 \in Nat
    OBVIOUS
  <2> HIDE DEF N, step
  <2> QED BY <1>1, <1>3, <2>1, Recursion
<1>5. \A n \in 1 .. N : n - 1 \in 0 .. N /\ g[n] = g[n - 1] + threads[n].unread
  <2> SUFFICES ASSUME NEW n \in 1 .. N
               PROVE  n - 1 \in 0 .. N /\ g[n] = g[n - 1] + threads[n].unread
    OBVIOUS
  <2>1. n - 1 \in 0 .. N
    BY <1>1
  <2>2. g[n - 1] \in Nat
    <3> HIDE DEF N, step
    <3> QED BY <2>1
  <2>3. step[n][g[n - 1]] = g[n - 1] + threads[n].unread
    <3> HIDE DEF N
    <3> QED BY <2>2
  <2> QED BY <2>1, <2>3, <1>4 DEF Steps
<1>6. g[0] = 0
  BY <1>4 DEF Steps
<1> HIDE DEF step
<1>7. g = Totals(threads, g)
  <2>1. g = [n \in 0 .. N |-> g[n]]
    OBVIOUS
  <2>2. ASSUME NEW n \in 0 .. N
        PROVE  g[n] = IF n = 0 THEN 0 ELSE g[n - 1] + threads[n].unread
    <3>1. n = 0 \/ n \in 1 .. N
      BY <1>1
    <3> QED BY <1>5, <1>6, <3>1
  <2> QED BY <2>1, <2>2 DEF Totals
<1> DEFINE s == CHOOSE s : s = Totals(threads, s)
<1>8. s = Totals(threads, s)
  BY <1>7
<1>9. UnreadMessages(threads) = s[N]
  BY DEF UnreadMessages, Totals
<1>10. s[0] = 0 /\ \A n \in 1 .. N : s[n] = s[n - 1] + threads[n].unread
  <2> HIDE DEF s
  <2>1. /\ Totals(threads, s)[0] = 0
        /\ \A n \in 1 .. N : Totals(threads, s)[n] = s[n - 1] + threads[n].unread
    BY <1>1 DEF Totals
  <2> QED BY <2>1, <1>8
<1>11. s[N] = g[N]
  <2> DEFINE P == {n \in 0 .. N : s[n] = g[n]}
  <2>1. 0 \in P
    <3> HIDE DEF s, N
    <3>1. 0 \in 0 .. N
      BY <1>1
    <3>2. s[0] = g[0]
      BY <1>6, <1>10
    <3> QED BY <3>1, <3>2
  <2>2. ASSUME NEW n \in 0 .. N - 1, n \in P PROVE n + 1 \in P
    <3>1. n + 1 \in 1 .. N /\ n + 1 \in 0 .. N /\ (n + 1) - 1 = n
      BY <1>1
    <3> HIDE DEF s, N
    <3>2. s[n + 1] = s[n] + threads[n + 1].unread /\ g[n + 1] = g[n] + threads[n + 1].unread
      BY <3>1, <1>5, <1>10
    <3> QED BY <2>2, <3>1, <3>2
  <2> HIDE DEF P, N
  <2>3. 0 .. N \subseteq P
    BY <1>1, <2>1, <2>2, Induction
  <2> QED BY <1>1, <2>3 DEF P
<1>12. Sums(g, threads) /\ UnreadMessages(threads) = g[N]
  BY <1>5, <1>6, <1>9, <1>11 DEF Sums
<1> QED BY <1>12

\* The sum is not less than the threads that hold unread messages, and zero exactly
\* when there is none.
LEMMA SumOfThreads ==
    ASSUME NEW A, \A t \in A : t.unread \in Nat, NEW threads \in Seq(A)
    PROVE  /\ UnreadMessages(threads) >= Len(UnreadThreads(threads))
           /\ UnreadMessages(threads) = 0 <=> UnreadThreads(threads) = <<>>
<1> DEFINE N == Len(threads)
           S == {t \in Range(threads) : t.unread # 0}
<1>1. N \in Nat /\ \A n \in 1 .. N : threads[n] \in A
  OBVIOUS
<1>2. PICK s \in [0 .. N -> Nat] : UnreadMessages(threads) = s[N] /\ Sums(s, threads)
  BY SumSteps
<1>3. PICK f \in [0 .. N -> Seq(A)] : OnlyIn(threads, S) = f[N] /\ Growing(f, threads, S)
  <2> HIDE DEF S
  <2> QED BY KeptSteps
<1>4. UnreadThreads(threads) = f[N]
  BY <1>3 DEF UnreadThreads
<1>5. \A n \in 1 .. N : threads[n].unread \in Nat /\ (threads[n] \in S <=> threads[n].unread # 0)
  BY <1>1 DEF Range
<1>6. /\ s[0] = 0 /\ \A n \in 1 .. N : s[n] = s[n - 1] + threads[n].unread
      /\ f[0] = <<>>
      /\ \A n \in 1 .. N :
           f[n] = IF threads[n] \in S THEN Append(f[n - 1], threads[n]) ELSE f[n - 1]
  <2> HIDE DEF S
  <2> QED BY <1>2, <1>3 DEF Sums, Growing
<1> HIDE DEF S
<1> DEFINE P == {n \in 0 .. N : s[n] >= Len(f[n]) /\ (s[n] = 0 <=> f[n] = <<>>)}
<1>7. 0 \in P
  BY <1>1, <1>6
<1>8. ASSUME NEW n \in 0 .. N - 1, n \in P PROVE n + 1 \in P
  <2>1. n \in 0 .. N /\ n + 1 \in 1 .. N /\ n + 1 \in 0 .. N /\ (n + 1) - 1 = n
    BY <1>1
  <2> HIDE DEF N
  <2> DEFINE u == threads[n + 1].unread
             old == f[n]
             new == f[n + 1]
  <2>2. s[n] \in Nat /\ old \in Seq(A) /\ u \in Nat /\ threads[n + 1] \in A
    BY <1>1, <1>5, <2>1
  <2>3. s[n + 1] = s[n] + u
    BY <1>6, <2>1
  <2>4. new = IF u # 0 THEN Append(old, threads[n + 1]) ELSE old
    BY <1>5, <1>6, <2>1
  <2>5. s[n] >= Len(old) /\ (s[n] = 0 <=> old = <<>>)
    BY <1>8
  <2> HIDE DEF u, old, new
  <2>6. CASE u = 0
    <3>1. s[n + 1] = s[n] /\ new = old
      BY <2>2, <2>3, <2>4, <2>6
    <3> QED BY <2>1, <2>5, <3>1 DEF new
  <2>7. CASE u # 0
    <3>1. new = Append(old, threads[n + 1])
      BY <2>4, <2>7
    <3>2. Len(new) = Len(old) + 1 /\ new # <<>> /\ Len(old) \in Nat
      BY <2>2, <3>1
    <3>3. s[n + 1] >= Len(new) /\ s[n + 1] # 0
      BY <2>2, <2>3, <2>5, <2>7, <3>2
    <3> QED BY <2>1, <3>2, <3>3 DEF new
  <2> QED BY <2>6, <2>7
<1>9. N \in P
  <2> HIDE DEF P, N
  <2>1. 0 .. N \subseteq P
    BY <1>1, <1>7, <1>8, Induction
  <2> QED BY <1>1, <2>1
<1> QED BY <1>2, <1>4, <1>9

\* It reads zero exactly when no thread of the school that is shown has any.
LEMMA DiscussionsTold ==
    ASSUME school \in Seq([id : Nat, unread : Nat, hidden : BOOLEAN])
    PROVE  DiscussionsAgree(ThreadFacts(school))
<1> DEFINE Talks == [id : Nat, unread : Nat, hidden : BOOLEAN]
           Shows == [id : Nat, unread : Nat]
           kept == {t \in Range(school) : ~t.hidden}
           visible == OnlyIn(school, kept)
           threads == [i \in DOMAIN visible |-> [id |-> visible[i].id, unread |-> visible[i].unread]]
           open == {t \in Range(threads) : t.unread # 0}
<1>1. ThreadFacts(school) = threads
  BY DEF ThreadFacts
<1>2. /\ \A t \in Talks : [id |-> t.id, unread |-> t.unread] \in Shows /\ t.unread \in Nat
      /\ \A t \in Shows : t.unread \in Nat
  OBVIOUS
<1>3. school \in Seq(Talks)
  OBVIOUS
<1> HIDE DEF Talks, Shows
<1>4. visible \in Seq(Talks) /\ Range(visible) = kept
  <2>1. kept \subseteq Range(school)
    OBVIOUS
  <2> HIDE DEF kept
  <2>2. visible \in Seq(Talks) /\ Range(visible) = Range(school) \intersect kept
    BY <1>3, Selection
  <2> QED BY <2>1, <2>2
<1> HIDE DEF visible
<1>5. \A i \in DOMAIN visible : visible[i] \in Talks /\ visible[i] \in kept
  <2> HIDE DEF kept
  <2> QED BY <1>4 DEF Range
<1>6. threads \in Seq(Shows)
  <2>1. threads \in [DOMAIN visible -> Shows]
    BY <1>2, <1>5
  <2> HIDE DEF threads
  <2> QED BY <1>4, <2>1, MappedList
<1>7. Range(threads) = {[id |-> t.id, unread |-> t.unread] : t \in Range(visible)}
  BY DEF Range
<1> HIDE DEF threads
<1>8. /\ UnreadMessages(threads) >= Len(UnreadThreads(threads))
      /\ UnreadMessages(threads) = 0 <=> UnreadThreads(threads) = <<>>
  BY <1>2, <1>6, SumOfThreads
<1>9. UnreadThreads(threads) = <<>> <=> open = {}
  <2>1. UnreadThreads(threads) = OnlyIn(threads, open)
    BY DEF UnreadThreads
  <2>2. open \subseteq Range(threads)
    OBVIOUS
  <2> HIDE DEF open
  <2>3. OnlyIn(threads, open) \in Seq(Shows) /\ Range(OnlyIn(threads, open)) = Range(threads) \intersect open
    BY <1>6, Selection
  <2>4. OnlyIn(threads, open) = <<>> <=> Range(OnlyIn(threads, open)) = {}
    BY <2>3, EmptyList
  <2> QED BY <2>1, <2>2, <2>3, <2>4
<1>10. open = {} <=> \A t \in kept : t.unread = 0
  <2>1. open = {} <=> \A t \in Range(threads) : t.unread = 0
    OBVIOUS
  <2>2. (\A t \in Range(threads) : t.unread = 0) <=> \A t \in kept : t.unread = 0
    <3> HIDE DEF kept
    <3>1. ASSUME \A t \in Range(threads) : t.unread = 0, NEW t \in kept PROVE t.unread = 0
      <4>1. [id |-> t.id, unread |-> t.unread] \in Range(threads)
        BY <1>4, <1>7
      <4>2. [id |-> t.id, unread |-> t.unread].unread = 0
        BY <3>1, <4>1
      <4> QED BY <4>2
    <3>2. ASSUME \A t \in kept : t.unread = 0, NEW t \in Range(threads) PROVE t.unread = 0
      <4>1. PICK k \in kept : t = [id |-> k.id, unread |-> k.unread]
        BY <1>4, <1>7
      <4> QED BY <3>2, <4>1
    <3> QED BY <3>1, <3>2
  <2> QED BY <2>1, <2>2
<1>11. (\A t \in kept : t.unread = 0) <=> \A t \in Range(school) : t.unread > 0 => t.hidden
  <2>1. Range(school) \subseteq Talks
    BY <1>3 DEF Range
  <2>2. \A t \in Range(school) : t.unread \in Nat
    BY <1>2, <2>1
  <2>3. \A t \in Range(school) : t.unread > 0 <=> t.unread # 0
    BY <2>2
  <2> QED BY <2>3
<1> HIDE DEF open, kept
<1> QED BY <1>1, <1>8, <1>9, <1>10, <1>11 DEF DiscussionsAgree

-----------------------------------------------------------------------------
(* One story: the terms looked back on, and the snapshot.                   *)

\* Of the closed terms the latest are kept, as many as the option says
\* (sensor, PronoteHistorySensor).
LEMMA LatestTerms ==
    ASSUME NEW closed \in SUBSET Nat, IsFiniteSet(closed)
    PROVE  /\ LookedBack(closed) \subseteq closed
           /\ HistoryKept # 0 => Cardinality(LookedBack(closed)) <= HistoryKept
           /\ \A p \in LookedBack(closed), q \in closed : q > p => q \in LookedBack(closed)
<1> DEFINE D == LookedBack(closed)
           after(p) == {q \in closed : q > p}
<1>1. D = {p \in closed : HistoryKept = 0 \/ Cardinality(after(p)) < HistoryKept}
  BY DEF LookedBack
<1>2. D \subseteq closed /\ D \subseteq Nat /\ HistoryKept \in Nat
  BY <1>1, ViewsAssumption
<1>3. ASSUME NEW p \in closed
      PROVE  IsFiniteSet(after(p)) /\ Cardinality(after(p)) \in Nat
  <2>1. after(p) \in SUBSET closed
    OBVIOUS
  <2> HIDE DEF after
  <2> QED BY <2>1, FS_Subset, FS_CardinalityType
<1> HIDE DEF D
<1>4. ASSUME NEW p \in D, NEW q \in closed, q > p PROVE q \in D
  <2>1. p \in closed /\ p \in Nat /\ q \in Nat
    BY <1>2
  <2>2. after(q) \in SUBSET after(p)
    <3>1. \A r \in closed : r \in Nat
      OBVIOUS
    <3>2. \A r \in closed : r > q => r > p
      BY <1>4, <2>1, <3>1
    <3> QED BY <3>2
  <2> HIDE DEF after
  <2>3. Cardinality(after(q)) <= Cardinality(after(p))
    BY <1>3, <2>1, <2>2, FS_Subset
  <2>4. Cardinality(after(q)) \in Nat /\ Cardinality(after(p)) \in Nat
    BY <1>3, <2>1
  <2> QED BY <1>1, <1>2, <2>3, <2>4
<1>5. ASSUME HistoryKept # 0 PROVE Cardinality(D) <= HistoryKept
  <2>1. CASE D = {}
    BY <1>2, <2>1, FS_EmptySet
  <2>2. CASE D # {}
    <3> DEFINE m == Min(D)
    <3>1. m \in D /\ \A x \in D : m <= x
      BY <1>2, <2>2, MinIs
    <3> HIDE DEF m
    <3>2. m \in closed /\ Cardinality(after(m)) < HistoryKept
      BY <1>1, <1>5, <3>1
    <3>3. D \in SUBSET (after(m) \union {m})
      <4> SUFFICES ASSUME NEW x \in D, x # m PROVE x \in after(m)
        OBVIOUS
      <4>1. x \in closed /\ x \in Nat /\ m \in Nat /\ m <= x
        BY <1>2, <3>1
      <4> QED BY <4>1
    <3> HIDE DEF after
    <3>4. IsFiniteSet(after(m)) /\ Cardinality(after(m)) \in Nat
      BY <1>3, <3>2
    <3>5. /\ IsFiniteSet(after(m) \union {m})
          /\ Cardinality(after(m) \union {m}) <= Cardinality(after(m)) + 1
      BY <3>4, FS_AddElement
    <3>6. Cardinality(D) <= Cardinality(after(m) \union {m}) /\ IsFiniteSet(D)
      BY <3>3, <3>5, FS_Subset
    <3>7. Cardinality(D) \in Nat /\ Cardinality(after(m) \union {m}) \in Nat
      BY <3>5, <3>6, FS_CardinalityType
    <3> QED BY <1>2, <3>2, <3>4, <3>5, <3>6, <3>7
  <2> QED BY <2>1, <2>2
<1> QED BY <1>2, <1>4, <1>5 DEF D

\* Only terms that were over are looked back on.
LEMMA HistoryTold ==
    ASSUME school.session \in Sessions
    PROVE  HistoryAgree(HistoryFacts(school, fetchedAt))
<1> DEFINE f == HistoryFacts(school, fetchedAt)
           over == ClosedPeriods(school.session, fetchedAt)
<1>1. over = {p \in school.session.dated : PeriodEnd[p] <= Day(fetchedAt)}
               \ {CurrentPeriod(school.session)}
  BY DEF ClosedPeriods
<1>2. DOMAIN f = LookedBack(over)
  BY DEF HistoryFacts
<1>3. DOMAIN PeriodEnd = 1 .. Len(PeriodEnd) /\ Len(PeriodEnd) \in Nat
  BY ViewsAssumption
<1>4. over \in SUBSET (DOMAIN PeriodEnd)
  BY <1>1 DEF Sessions
<1> HIDE DEF over, f
<1>5. over \in SUBSET Nat /\ IsFiniteSet(over)
  <2>1. IsFiniteSet(DOMAIN PeriodEnd)
    BY <1>3, FS_Interval
  <2>2. DOMAIN PeriodEnd \subseteq Nat
    BY <1>3
  <2> QED BY <1>4, <2>1, <2>2, FS_Subset
<1>6. /\ LookedBack(over) \subseteq over
      /\ HistoryKept # 0 => Cardinality(LookedBack(over)) <= HistoryKept
      /\ \A p \in LookedBack(over), q \in over : q > p => q \in LookedBack(over)
  BY <1>5, LatestTerms
<1>7. \A p : p \notin DOMAIN f => PastGrades(f, p) = None
  BY DEF PastGrades
<1> QED BY <1>1, <1>2, <1>6, <1>7 DEF HistoryAgree, f

\* While there is data, it is what the tier makes of the last answer, at the instant it
\* was collected (coordinator: what is published is replaced and never edited).
Snapshot == HasData => school \in Answers[tier] /\ facts = Facts(school, fetchedAt)

\* What the snapshot is after a step: the tier followed is the same.
LEMMA NextSnapshot ==
    ASSUME tier' = tier, fetchedAt' # None => school' \in Answers[tier],
           fetchedAt' # None => facts' = Facts(school', fetchedAt')
    PROVE  Snapshot'
<1>1. Facts(school, fetchedAt)' = Facts(school', fetchedAt')
  BY DEF Facts
<1> QED BY <1>1 DEF Snapshot, HasData

\* It is replaced by a collection, dropped by a reload that does not find the child, and
\* left alone by everything else.
LEMMA StepKeepsSnapshot == Snapshot /\ [DisplayNext]_displayVars => Snapshot'
<1> SUFFICES ASSUME Snapshot, [DisplayNext]_displayVars PROVE Snapshot'
  OBVIOUS
<1>1. ASSUME UNCHANGED <<tier, school, facts, fetchedAt>> PROVE Snapshot'
  BY <1>1, NextSnapshot DEF Snapshot, HasData
<1>2. ASSUME NEW answer \in Answers[tier], Publish(answer) PROVE Snapshot'
  <2>1. tier' = tier /\ school' = answer /\ fetchedAt' = now /\ facts' = Facts(answer, now)
    BY <1>2 DEF Publish
  <2> QED BY <2>1, NextSnapshot
<1>3. CASE CollectionFails
  BY <1>1, <1>3 DEF CollectionFails
<1>4. ASSUME NEW k \in Entities, LookAgain(k) PROVE Snapshot'
  BY <1>1, <1>4 DEF LookAgain
<1>5. CASE TickItem
  BY <1>1, <1>5 DEF TickItem
<1>6. ASSUME NEW kept \in BOOLEAN, Reload(kept) PROVE Snapshot'
  <2>1. CASE kept
    <3>1. UNCHANGED <<tier, school, facts, fetchedAt>>
      BY <1>6, <2>1 DEF Reload
    <3> QED BY <1>1, <3>1
  <2>2. CASE ~kept
    <3>1. tier' = tier /\ fetchedAt' = None
      BY <1>6, <2>2 DEF Reload
    <3> QED BY <3>1, NextSnapshot
  <2> QED BY <2>1, <2>2
<1>7. CASE Tick
  BY <1>1, <1>7 DEF Tick
<1>8. CASE UNCHANGED displayVars
  BY <1>1, <1>8 DEF displayVars
<1> QED BY <1>2, <1>3, <1>4, <1>5, <1>6, <1>7, <1>8 DEF DisplayNext

\* Whatever the school answers, the entities of a tier that have data agree.
LEMMA OneStory ==
    ASSUME WithinADay, DisplayInv, Snapshot
    PROVE  ViewsAgree
<1> SUFFICES ASSUME HasData
             PROVE  CASE tier = "timetable" -> /\ SlotsAgree(facts) /\ HolidaysAgree(facts, Day(now))
                                               /\ MiddayAgrees(facts) /\ TimetableAgrees(facts)
                      [] tier = "homework" -> HomeworkAgrees(facts)
                      [] tier = "attendance" -> AttendanceAgrees(facts)
                      [] tier = "marks" -> MarksAgree(facts)
                      [] tier = "evaluations" -> facts # {} => HasPeriod(school)
                      [] tier = "menus" -> MenusAgree(facts)
                      [] tier = "news" -> NewsAgree(facts)
                      [] tier = "discussions" -> DiscussionsAgree(facts)
                      [] tier = "history" -> HistoryAgree(facts)
  BY DEF ViewsAgree
<1>1. /\ tier \in ShownTiers /\ now \in Nat /\ fetchedAt \in Nat /\ fetchedAt <= now
      /\ school \in AnswersOf(tier) /\ facts = Facts(school, fetchedAt)
  <2>1. tier \in ShownTiers /\ now \in Nat /\ fetchedAt \in 0 .. now
    BY DEF DisplayInv, TimerInv, HasData
  <2>2. school \in AnswersOf(tier) /\ facts = Facts(school, fetchedAt)
    BY <2>1, DisplayAssumption DEF Snapshot
  <2> QED BY <2>1, <2>2
<1>2. tier \in {"timetable", "homework", "attendance", "marks", "evaluations", "menus",
                "history", "news", "discussions"}
  BY <1>1, DisplayAssumption
<1>3. CASE tier = "timetable"
  <2>1. school \in Seq(TimetableEntries) /\ facts = TimetableFacts(school, Day(fetchedAt))
    BY <1>1, <1>3 DEF AnswersOf, Facts
  <2>2. SchoolKept(facts)
    BY <1>1, <2>1, TimetableKeeps DEF SchoolKept
  <2>3. DayLessons(facts)
    <3>1. tier \in ShownTiers /\ school \in Answers[tier]
      BY DEF DisplayInv, TimerInv, Snapshot
    <3>2. \A e \in Range(school) : Lesson(e).end <= Midnight(Day(e.start) + 1)
      BY <1>3, <3>1 DEF WithinADay, Range
    <3> QED BY <2>2, <3>2, KeptAreWhole
  <2> QED BY <1>1, <1>3, <2>2, <2>3, SlotsTold, HolidaysTold, MiddayTold, TimetableTold
<1>4. CASE tier = "homework"
  <2>1. /\ school \in SUBSET HomeworkItems /\ IsFiniteSet(school)
        /\ facts = HomeworkFacts(school)
    BY <1>1, <1>4 DEF AnswersOf, Facts
  <2>2. facts \in SUBSET ReadHomework /\ IsFiniteSet(facts)
    BY <2>1, HomeworkIs
  <2> QED BY <1>1, <1>4, <2>2, HomeworkTold
<1>5. CASE tier = "attendance"
  <2>1. /\ school \in [session : Sessions, entries : SUBSET AttendanceEntries]
        /\ facts = AttendanceTier(school)
    BY <1>1, <1>5 DEF AnswersOf, Facts
  <2>2. AttendanceAgrees(facts)
    BY <1>1, <2>1, AttendanceTold
  <2> QED BY <1>5, <2>2
<1>6. CASE tier = "marks"
  <2>1. school \in Marksheets /\ facts = MarksTier(school)
    BY <1>1, <1>6 DEF AnswersOf, Facts
  <2>2. MarksAgree(facts)
    BY <2>1, MarksTold
  <2> QED BY <1>6, <2>2
<1>7. CASE tier = "evaluations"
  <2>1. facts = EvaluationsTier(school)
    BY <1>1, <1>7 DEF Facts
  <2>2. facts # {} => HasPeriod(school)
    BY <2>1 DEF EvaluationsTier
  <2> QED BY <1>7, <2>2
<1>8. CASE tier = "menus"
  <2>1. /\ school \in Seq([day : Nat, lunch : BOOLEAN, dishes : Nat])
        /\ facts = MenusFacts(school, Day(fetchedAt))
    BY <1>1, <1>8 DEF AnswersOf, Facts
  <2>2. MenusAgree(facts)
    BY <1>1, <2>1, MenusTold
  <2> QED BY <1>8, <2>2
<1>9. CASE tier = "news"
  <2>1. /\ school \in Seq(Seq([id : Nat, read : BOOLEAN, dated : BOOLEAN]))
        /\ facts = NewsFacts(school)
    BY <1>1, <1>9 DEF AnswersOf, Facts
  <2>2. NewsAgree(facts)
    BY <2>1, NewsTold
  <2> QED BY <1>9, <2>2
<1>10. CASE tier = "discussions"
  <2>1. /\ school \in Seq([id : Nat, unread : Nat, hidden : BOOLEAN])
        /\ facts = ThreadFacts(school)
    BY <1>1, <1>10 DEF AnswersOf, Facts
  <2>2. DiscussionsAgree(facts)
    BY <2>1, DiscussionsTold
  <2> QED BY <1>10, <2>2
<1>11. CASE tier = "history"
  <2>1. /\ school.session \in Sessions /\ facts = HistoryFacts(school, fetchedAt)
    BY <1>1, <1>11 DEF AnswersOf, Facts
  <2>2. HistoryAgree(facts)
    BY <2>1, HistoryTold
  <2> QED BY <1>11, <2>2
<1> QED BY <1>2, <1>3, <1>4, <1>5, <1>6, <1>7, <1>8, <1>9, <1>10, <1>11

-----------------------------------------------------------------------------
(* The theorems.                                                           *)

\* What is announced of a child is what the change detector announces, whatever is shown of it.
THEOREM DayAnnounces == DaySpec => Spec
<1>1. DayInit => Init
  BY DEF DayInit
<1>2. [DayNext]_dayVars => [Next]_vars
  BY DEF DayNext, dayVars
<1> QED BY <1>1, <1>2, PTL DEF DaySpec, Spec

\* The timers, the snapshot and the schedule, at all times.
LEMMA DisplayInvariance == DaySpec => []DisplayInv
<1>1. ASSUME DayInit PROVE DisplayInv
  <2>1. /\ tier \in ShownTiers /\ now = 0 /\ fetchedAt = None /\ collectedAt = None /\ succeeded = TRUE
        /\ shown = [k \in Entities |-> Unknown] /\ available = [k \in Entities |-> FALSE]
        /\ armed = [k \in Entities |-> None]
    BY <1>1 DEF DayInit, DisplayInit
  <2>2. ~HasData /\ MaxNow \in Nat
    BY <2>1, DisplayAssumption DEF HasData
  <2>3. TimerInv
    BY <2>1, <2>2 DEF TimerInv
  <2> QED BY <2>1, <2>2, <2>3 DEF DisplayInv
<1>2. DisplayInv /\ [DayNext]_dayVars => DisplayInv'
  <2>1. [DayNext]_dayVars => [DisplayNext]_displayVars
    BY DEF DayNext, dayVars
  <2> QED BY <2>1, StepKeeps
<1> QED BY <1>1, <1>2, PTL DEF DaySpec

\* Whatever the school answers and whenever it does, through failures and reloads: every
\* flag, the next lesson, test and punishment, and whatever no clock changes, shows what
\* it would read now, or what it would have read before the boundary of this very instant
\* (ClockDrivenMixin, _arm).
THEOREM EntitiesOnTime == DaySpec => []ShownOnTime
<1>1. DisplayInv => ShownOnTime
  BY OnTime DEF DisplayInv
<1> QED BY <1>1, DisplayInvariance, PTL

\* The snapshot, at all times.
LEMMA SnapshotInvariance == DaySpec => []Snapshot
<1>1. DayInit => Snapshot
  BY DEF DayInit, DisplayInit, Snapshot, HasData
<1>2. Snapshot /\ [DayNext]_dayVars => Snapshot'
  <2>1. [DayNext]_dayVars => [DisplayNext]_displayVars
    BY DEF DayNext, dayVars
  <2> QED BY <2>1, StepKeepsSnapshot
<1> QED BY <1>1, <1>2, PTL DEF DaySpec

\* Entities read from one snapshot at one instant do not contradict each other, nor
\* what the school answered, whatever it answered and however long ago, as long as no
\* lesson runs past midnight: whether the child is in class is asked of every lesson,
\* whether it is a school day of today's (binary_sensor, _in_class and _is_school_day).
THEOREM EntitiesAgree ==
    ASSUME WithinADay
    PROVE  DaySpec => []ViewsAgree
<1>1. DisplayInv /\ Snapshot => ViewsAgree
  BY OneStory
<1> QED BY <1>1, DisplayInvariance, SnapshotInvariance, PTL

\* Both halves keep their types, and data, snapshot and schedule come and go together.
THEOREM DayTypes == DaySpec => []DayTypeOK
<1>1. DayInit => followed \in {"announced", "shown"}
  BY DEF DayInit
<1>2. followed \in {"announced", "shown"} /\ [DayNext]_dayVars => (followed \in {"announced", "shown"})'
  BY DEF DayNext, dayVars
<1>3. followed \in {"announced", "shown"} /\ TypeInv /\ DisplayInv => DayTypeOK
  BY Shapes DEF TypeInv, DayTypeOK
<1> QED BY <1>1, <1>2, <1>3, DayAnnounces, Typed, DisplayInvariance, PTL DEF DaySpec
=============================================================================
