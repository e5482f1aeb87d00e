------------------------------- MODULE Roster -------------------------------
(***************************************************************************)
(* Which children an account follows, under which identity, and what is     *)
(* held under that identity (account.py, child_keys.py).                    *)
(*                                                                         *)
(* PRONOTE may rename every child at any login, and any unit of work may    *)
(* log in.  The account reads the roster at set-up and again, after a batch,*)
(* when a login announced an identifier it had never heard; in between it   *)
(* works with identifiers the client no longer knows, which the session     *)
(* resolves through the key.  One tier stands for all of them.              *)
(* Identifiers are numbered in the order they are issued: whose[i] is the   *)
(* pupil identifier i was issued for, and none is issued twice.             *)
(***************************************************************************)
EXTENDS ChildKeys, Functions

CONSTANTS
    Pupils,
    Order,          \* the order in which PRONOTE announces the pupils
    Rosters,        \* the pupils that may be enrolled when the entry is created
    Legacy,         \* owners of the device rows older than the keys, oldest first
    FirstNames,     \* the names the pupils may have at first, as functions
    Rotations,      \* sets of pupils a login may give a new identifier
    Departures,     \* the pupils who may leave the account
    MayFail,        \* TRUE: reading the roster again may fail
    MaxIds, MaxNames   \* bounds: identifiers issued, names used

ASSUME RosterAssumption ==
    /\ Order \in Seq(Pupils) /\ IsInjective(Order) /\ Range(Order) = Pupils
    /\ Rosters \subseteq (SUBSET Pupils) \ {{}} /\ Rotations \subseteq SUBSET Pupils
    /\ Legacy \in Seq(Pupils)
    /\ \A f \in FirstNames : f \in [Pupils -> 1 .. MaxNames]
    /\ Departures \subseteq Pupils /\ MayFail \in BOOLEAN /\ MaxIds \in Nat /\ MaxNames \in Nat

VARIABLES
    enrolled,     \* pupils the account of the school lists
    idOf, nameOf, \* the identifier and the name the school gives each pupil
    whose,        \* history: the pupil each identifier was issued for
    mintedFor,    \* history: the pupil each key was minted for
    namesakes,    \* history: two pupils have had the same name
    caught,       \* history: a login changed the roster while facts were being loaded
    client,       \* what the last login announced, in order
    table,        \* CONF_CHILD_KEYS
    selected,     \* CONF_CHILDREN: identifiers the user chose, and adopted ones
    phase,        \* "down", "idle", or the roster being read: "opening", "loading"
    announced,    \* _announced_children
    wanted,       \* the identifiers whose facts are being loaded, one by one
    heard,        \* the children whose facts are in
    students,     \* state.students, by identifier
    keys,         \* _child_keys
    keysEver,     \* _keys_ever
    data,         \* per identifier, the pupil whose snapshot is held under it
    memory,       \* per identifier, the pupil the change detector compares with
    saved,        \* per key, the snapshots handed over a reload
    devices       \* rows of the registry, oldest first

schoolVars == <<enrolled, idOf, nameOf, whose, namesakes, caught>>
heldVars == <<data, memory, saved>>
entryVars == <<table, mintedFor, selected>>
accountVars == <<phase, announced, wanted, heard, students, keys, keysEver>>
vars == <<enrolled, idOf, nameOf, whose, mintedFor, namesakes, caught, client, table,
          selected, phase, announced, wanted, heard, students, keys, keysEver, data, memory,
          saved, devices>>

NoChild == 0
Row(kind, n) == [kind |-> kind, n |-> n]
InOrder(S) == OnlyIn(Order, S)
Announcement(ids, names) ==
    LET present == InOrder(enrolled)
    IN  [i \in DOMAIN present |-> Child(ids[present[i]], names[present[i]])]

-----------------------------------------------------------------------------
(* A login: the school may rename whom it likes, and the client hears it.  *)

LogIn(rotated) ==
    LET fresh == InOrder(rotated \intersect enrolled)
        Position(p) == CHOOSE i \in DOMAIN fresh : fresh[i] = p
    IN  /\ Len(whose) + Len(fresh) <= MaxIds
        /\ whose' = whose \o fresh
        /\ idOf' = [p \in Pupils |->
                      IF p \in Range(fresh) THEN Len(whose) + Position(p) ELSE idOf[p]]
        /\ client' = Announcement(idOf', nameOf)
        /\ caught' = (caught \/ (phase = "loading" /\ client' # client))
        /\ UNCHANGED <<enrolled, nameOf, namesakes>>

\* What the table can tell of a pupil: the environment never changes both its
\* name and its identifier between two readings of the roster.
Recorded(p) == {k \in DOMAIN table : mintedFor[k] = p}
NameKnown(p) == \A k \in Recorded(p) : table[k].name = nameOf[p]
IdKnown(p) == \A k \in Recorded(p) : table[k].id = idOf[p]

Relogin(rotated) ==
    /\ phase # "down"
    /\ \A p \in rotated : NameKnown(p)
    /\ LogIn(rotated)
    /\ UNCHANGED <<entryVars, accountVars, heldVars, devices>>

-----------------------------------------------------------------------------
(* Whom to follow, and the child behind an identifier.                     *)

\* _student_ids: the selection, or everybody when it matches nobody.
Followed(roster) ==
    LET chosen == OnlyIn(roster, {c \in Range(roster) : c.id \in selected})
    IN  IF chosen = <<>> THEN roster ELSE chosen

\* _live_child_id: an identifier the client does not know is found by its key.
LiveChild_FirstChild(id) == IF id \in Ids(client) THEN id ELSE client[1].id
LiveChild(id) ==
    IF id \in Ids(client) THEN id
    ELSE IF id \notin DOMAIN keysEver THEN NoChild
    ELSE LET paired == Pair(table, client).keys
             live == {c \in DOMAIN paired : paired[c] = keysEver[id]}
         IN  IF live = {} THEN NoChild ELSE CHOOSE c \in live : TRUE

\* A service is called on a device and served when the unit of work has its turn,
\* behind a batch perhaps, with the identifier resolved when it was called: that
\* of the child paired with the key, of a row older than the keys, or of the only
\* child when the device is the account's.
ChildOf(row) ==
    IF row.kind = "id" THEN {row.n} \intersect DOMAIN keys
    ELSE {id \in DOMAIN keys : keys[id] = row.n}
OnlyChild == IF Len(students) = 1 THEN Range(students) ELSE {}
ServiceTargets == OnlyChild \union UNION {ChildOf(devices[i].row) : i \in DOMAIN devices}

-----------------------------------------------------------------------------
(* _async_adopt_existing_registry_rows.                                    *)

HasRow(rows, row) == \E i \in DOMAIN rows : rows[i].row = row
Rename(rows, from, to) ==
    [i \in DOMAIN rows |-> IF rows[i].row = from THEN [rows[i] EXCEPT !.row = to] ELSE rows[i]]

\* Rows under the identifier announced now, unless the key has rows of its own.
Movable(paired) ==
    {id \in DOMAIN paired :
        HasRow(devices, Row("id", id)) /\ ~HasRow(devices, Row("key", paired[id]))}
AdoptAnnounced(paired) ==
    [i \in DOMAIN devices |->
        IF devices[i].row.kind = "id" /\ devices[i].row.n \in Movable(paired)
        THEN [devices[i] EXCEPT !.row = Row("key", paired[devices[i].row.n])]
        ELSE devices[i]]

\* Rows nobody announces any more: the newest is adopted for a single child
\* that found none of its own.
MayGuess_AlwaysFirst(unclaimed) == unclaimed # {}
MayGuess(unclaimed) == Cardinality(unclaimed) = 1
AdoptRotated(rows, paired) ==
    LET unclaimed == {paired[id] : id \in DOMAIN paired \ Movable(paired)}
        candidates == {i \in DOMAIN rows :
                         rows[i].row.kind = "id" /\ rows[i].row.n \notin DOMAIN paired}
        newest == CHOOSE i \in candidates : \A j \in candidates : j <= i
        heir == CHOOSE k \in unclaimed : \A j \in unclaimed : k <= j
    IN  IF /\ MayGuess(unclaimed)
           /\ candidates # {}
           /\ ~HasRow(rows, Row("key", heir))
        THEN Rename(rows, rows[newest].row, Row("key", heir))
        ELSE rows

\* add_child_entities: the rows of a child that has none are created.
CreateMissing(rows, children, paired, owners) ==
    LET missing == OnlyIn(children,
                          {c \in Range(children) : ~HasRow(rows, Row("key", paired[c.id]))})
    IN  rows \o [i \in DOMAIN missing |->
                   [row |-> Row("key", paired[missing[i].id]), owner |-> owners[missing[i].id]]]

-----------------------------------------------------------------------------
(* _async_load_session_facts, once every fact is in.                       *)

\* _async_pair_children.
AdoptPairing(children, owners) ==
    LET paired == Pair(table, children)
    IN  /\ table' = paired.table
        /\ mintedFor' = [k \in DOMAIN paired.table |->
                           IF k \in DOMAIN mintedFor THEN mintedFor[k]
                           ELSE owners[paired.table[k].id]]
        /\ keys' = paired.keys
        /\ students' = [i \in DOMAIN children |-> children[i].id]
        /\ devices' = CreateMissing(AdoptRotated(AdoptAnnounced(paired.keys), paired.keys),
                                    children, paired.keys, owners)

\* _keys_ever: every identifier of this process, the latest pairing on top.
Remembered_AtSetUpOnly == keysEver
Remembered ==
    [id \in DOMAIN keysEver \union DOMAIN keys' |->
        IF id \in DOMAIN keys' THEN keys'[id] ELSE keysEver[id]]

\* _async_follow_renamed_children: old identifier to new one.
Renamed ==
    LET now(k) == CHOOSE id \in DOMAIN keys' : keys'[id] = k
        moved == {s \in Range(students) :
                    s \in DOMAIN keys /\ keys[s] \in Range(keys') /\ now(keys[s]) # s}
    IN  [s \in moved |-> now(keys[s])]

Moved(held, renamed) ==
    LET source(id) == {s \in DOMAIN renamed \intersect DOMAIN held : renamed[s] = id}
        targets == {renamed[s] : s \in DOMAIN renamed \intersect DOMAIN held}
    IN  [id \in (DOMAIN held \ DOMAIN renamed) \union targets |->
            IF id \in DOMAIN held \ DOMAIN renamed THEN held[id]
            ELSE held[CHOOSE s \in source(id) : TRUE]]

-----------------------------------------------------------------------------
(* Set-up and unload.                                                      *)

\* _restore_snapshots, after pairing.
Restored ==
    [s \in {s \in DOMAIN keys' : keys'[s] \in DOMAIN saved} |-> saved[keys'[s]]]

SetUp(rotated) ==
    /\ phase = "down"
    /\ \A p \in rotated : NameKnown(p)
    /\ LogIn(rotated)
    /\ announced' = Ids(client')
    /\ AdoptPairing(Followed(client'), whose')
    /\ keysEver' = keys'
    /\ data' = Restored
    /\ memory' = Empty
    /\ phase' = "idle"
    /\ UNCHANGED <<wanted, heard, selected, saved>>

Unload_ByIdentifier ==
    /\ phase = "idle"
    /\ phase' = "down"
    /\ saved' = data
    /\ data' = Empty /\ memory' = Empty
    /\ announced' = {} /\ students' = <<>> /\ keys' = Empty /\ keysEver' = Empty
    /\ client' = <<>>
    /\ UNCHANGED <<schoolVars, entryVars, wanted, heard, devices>>
Unload ==
    /\ phase = "idle"
    /\ phase' = "down"
    /\ saved' = [k \in {keys[s] : s \in DOMAIN data \intersect DOMAIN keys} |->
                   data[CHOOSE s \in DOMAIN data \intersect DOMAIN keys : keys[s] = k]]
    /\ data' = Empty /\ memory' = Empty
    /\ announced' = {} /\ students' = <<>> /\ keys' = Empty /\ keysEver' = Empty
    /\ client' = <<>>
    /\ UNCHANGED <<schoolVars, entryVars, wanted, heard, devices>>

-----------------------------------------------------------------------------
(* A batch: collections, then the adoption of what a login announced.      *)

\* Filed under the identifier it was asked for, whoever answers.
Collect(s) ==
    /\ phase = "idle"
    /\ s \in Range(students)
    /\ LiveChild(s) # NoChild
    /\ data' = Bind(data, s, whose[LiveChild(s)])
    /\ memory' = Bind(memory, s, whose[LiveChild(s)])
    /\ UNCHANGED <<schoolVars, entryVars, accountVars, client, saved, devices>>

Newcomers == Ids(client) \ announced

AdoptNewcomers ==
    /\ phase = "idle"
    /\ Newcomers # {}
    /\ selected' = selected \union Newcomers
    /\ phase' = "opening"
    /\ UNCHANGED <<schoolVars, table, mintedFor, client, announced, wanted, heard,
                   students, keys, keysEver, heldVars, devices>>

Open ==
    /\ phase = "opening"
    /\ announced' = Ids(client)
    /\ wanted' = [i \in DOMAIN Followed(client) |-> Followed(client)[i].id]
    /\ phase' = "loading"
    /\ UNCHANGED <<schoolVars, entryVars, client, heard, students, keys, keysEver, heldVars,
                   devices>>

\* The child that answers for the next identifier, as the client now knows it.
Answering == LiveChild(wanted[Len(heard) + 1])
Facts == CHOOSE c \in Range(client) : c.id = Answering

ReadFacts ==
    /\ phase = "loading"
    /\ Len(heard) + 1 < Len(wanted) /\ Answering # NoChild
    /\ heard' = Append(heard, Facts)
    /\ UNCHANGED <<schoolVars, entryVars, phase, announced, wanted, students, keys, keysEver,
                   client, heldVars, devices>>

LoadFacts ==
    /\ phase = "loading"
    /\ Len(heard) + 1 = Len(wanted) /\ Answering # NoChild
    /\ AdoptPairing(Append(heard, Facts), whose)
    /\ keysEver' = Remembered
    /\ data' = Moved(data, Renamed)
    /\ memory' = Moved(memory, Renamed)
    /\ phase' = "idle"
    /\ wanted' = <<>> /\ heard' = <<>>
    /\ UNCHANGED <<schoolVars, selected, client, announced, saved>>

\* The session fails while the roster is read: what was noted stays noted.
ReadingFails ==
    /\ phase \in {"opening", "loading"}
    /\ \/ MayFail
       \/ phase = "loading" /\ Answering = NoChild
    /\ phase' = "idle"
    /\ wanted' = <<>> /\ heard' = <<>>
    /\ UNCHANGED <<schoolVars, entryVars, client, announced, students, keys, keysEver, heldVars,
                   devices>>

-----------------------------------------------------------------------------
(* The school.                                                             *)

Enrol(p) ==
    /\ p \notin enrolled
    /\ NameKnown(p)
    /\ Len(whose) < MaxIds
    /\ enrolled' = enrolled \union {p}
    /\ whose' = Append(whose, p)
    /\ idOf' = [idOf EXCEPT ![p] = Len(whose) + 1]
    /\ UNCHANGED <<nameOf, namesakes, caught, client, entryVars, accountVars, heldVars, devices>>

Depart(p) ==
    /\ p \in enrolled \intersect Departures /\ enrolled # {p}
    /\ enrolled' = enrolled \ {p}
    /\ UNCHANGED <<idOf, nameOf, whose, namesakes, caught, client, entryVars, accountVars, heldVars,
                   devices>>

\* A spelling is corrected, a family changes its name.
Respell(p, name) ==
    /\ name \notin Range(nameOf) /\ \A k \in DOMAIN table : table[k].name # name
    /\ \A n \in 1 .. name - 1 : n \in Range(nameOf) \union {table[k].name : k \in DOMAIN table}
    /\ Recorded(p) # {} /\ IdKnown(p) /\ NameKnown(p)
    /\ nameOf' = [nameOf EXCEPT ![p] = name]
    /\ UNCHANGED <<enrolled, idOf, whose, namesakes, caught, client, entryVars, accountVars, heldVars,
                   devices>>

-----------------------------------------------------------------------------
\* The entry was created before the keys (Legacy) or has just been: the flow
\* announced the roster of the day and the user chose among it.
Init ==
    /\ enrolled \in Rosters
    /\ nameOf \in FirstNames
    /\ LET first == Legacy \o InOrder(enrolled)
       IN  /\ whose = first
           /\ idOf = [p \in Pupils |->
                        IF p \in enrolled
                        THEN Len(Legacy) + CHOOSE i \in DOMAIN InOrder(enrolled) :
                                              InOrder(enrolled)[i] = p
                        ELSE NoChild]
    /\ namesakes = ~IsInjective(nameOf) /\ caught = FALSE
    /\ \E chosen \in (SUBSET enrolled) \ {{}} :
          selected = {idOf[p] : p \in chosen}
    /\ client = <<>> /\ table = <<>> /\ mintedFor = <<>>
    /\ phase = "down" /\ announced = {} /\ wanted = <<>> /\ heard = <<>> /\ students = <<>>
    /\ keys = Empty /\ keysEver = Empty /\ data = Empty /\ memory = Empty /\ saved = Empty
    /\ devices = [i \in DOMAIN Legacy |-> [row |-> Row("id", i), owner |-> Legacy[i]]]

Next ==
    \/ \E rotated \in Rotations : SetUp(rotated) \/ Relogin(rotated)
    \/ Unload
    \/ \E s \in DOMAIN whose : Collect(s)
    \/ AdoptNewcomers \/ Open \/ ReadFacts \/ LoadFacts \/ ReadingFails
    \/ \E p \in Pupils : Enrol(p) \/ Depart(p)
    \/ \E p \in Pupils, name \in 1 .. MaxNames : Respell(p, name)

Spec == Init /\ [][Next]_vars

-----------------------------------------------------------------------------
TypeOK ==
    /\ enrolled \subseteq Pupils /\ {namesakes, caught} \subseteq BOOLEAN
    /\ whose \in Seq(Pupils) /\ mintedFor \in Seq(Pupils) /\ DOMAIN mintedFor = DOMAIN table
    /\ nameOf \in [Pupils -> 1 .. MaxNames]
    /\ idOf \in [Pupils -> DOMAIN whose \union {NoChild}]
    /\ phase \in {"down", "idle", "opening", "loading"}
    /\ Ids(client) \union announced \union selected \union Range(students) \union Range(wanted)
          \subseteq DOMAIN whose
    /\ Ids(heard) \subseteq DOMAIN whose /\ Len(heard) <= Len(wanted)
    /\ DOMAIN keys = Range(students) /\ DOMAIN keys \subseteq DOMAIN keysEver
    /\ Range(keysEver) \union DOMAIN saved \subseteq DOMAIN table
    /\ DOMAIN memory \subseteq DOMAIN data /\ ServiceTargets \subseteq DOMAIN keysEver

\* Two followed children never share a key, nor two records an identifier,
\* twins the school does not tell apart included (child_keys.pair), unless a
\* login changed the roster while the facts of such twins were being loaded.
KeysDistinct ==
    ~(namesakes /\ caught) => IsInjective(keys) /\ Cardinality(Ids(table)) = Len(table)

\* A key never passes from one child to another, and a child the table can
\* still recognise by one of its two marks gets no second key, as long as no
\* two children have had the same name (child_keys, module docstring).
KeyStaysWithChild ==
    ~namesakes =>
        /\ IsInjective(mintedFor)
        /\ \A id \in DOMAIN keysEver : mintedFor[keysEver[id]] = whose[id]

\* What is filed under a child's identifier was read from that child, the detector
\* compares it with that child's own past, and whatever identifier a call took
\* from a device since the set-up (keysEver holds them all), it acts for that child
\* or fails, whenever it is served and whatever logins happened in between
\* (coordinator.publish, account._live_child_id, services._resolve).
FiledUnderOwner ==
    ~namesakes =>
        /\ \A id \in DOMAIN data : data[id] = whose[id]
        /\ \A id \in DOMAIN memory : memory[id] = whose[id]
        /\ \A id \in DOMAIN keysEver :
              LiveChild(id) # NoChild => whose[LiveChild(id)] = whose[id]

Held ==
    IF phase = "down" THEN Range(saved)
    ELSE {data[s] : s \in Range(students) \intersect DOMAIN data}
FollowedPupils == {whose[s] : s \in Range(students)}

\* A child followed before and after a step keeps the snapshot its entities
\* show, through every rotation and adoption, and an unload hands every
\* snapshot of a followed child over to the next set-up
\* (_restore_snapshots, _async_follow_renamed_children).
NothingShownIsLost ==
    [][~namesakes =>
         \A p \in Held : (p \in FollowedPupils' \/ phase' = "down") => p \in Held']_vars

\* When every child the account lists is followed, rows made under a rotated
\* identifier are never handed to another pupil (_async_adopt_rotated_rows:
\* "guessing would hand one pupil's history to another").
RowsKeepOwner ==
    [][~namesakes /\ FollowedPupils' = {whose'[id] : id \in Ids(client')} =>
         \A i \in DOMAIN devices :
            devices[i].row.kind = "id" /\ devices'[i].row.kind = "key" =>
                mintedFor'[devices'[i].row.n] = devices[i].owner]_vars
=============================================================================
