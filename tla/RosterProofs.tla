---------------------------- MODULE RosterProofs ----------------------------
(***************************************************************************)
(* Theorems about Roster, for any pupils, renamings and departures.          *)
(***************************************************************************)
EXTENDS Roster, ChildKeysProofs

-----------------------------------------------------------------------------
(* The inductive invariant.                                                *)

Record == [id : DOMAIN whose, name : 1 .. MaxNames]
Rows == [row : [kind : {"id", "key"}, n : Nat], owner : Pupils]

\* What everything is made of.
SchoolShapes ==
    /\ enrolled \subseteq Pupils /\ namesakes \in BOOLEAN /\ caught \in BOOLEAN
    /\ whose \in Seq(Pupils) /\ nameOf \in [Pupils -> 1 .. MaxNames]
    /\ idOf \in [Pupils -> DOMAIN whose \union {NoChild}]
    /\ client \in Seq(Record)
EntryShapes ==
    /\ table \in Seq(Record) /\ mintedFor \in Seq(Pupils) /\ Len(mintedFor) = Len(table)
    /\ phase \in {"down", "idle", "opening", "loading"}
    /\ heard \in Seq(Record) /\ wanted \in Seq(DOMAIN whose) /\ students \in Seq(DOMAIN whose)
    /\ announced \subseteq DOMAIN whose /\ selected \subseteq DOMAIN whose
    /\ Len(heard) <= Len(wanted)
    /\ phase # "loading" => heard = <<>>
    /\ phase = "down" => client = <<>>
HeldShapes ==
    /\ keys \in [Range(students) -> DOMAIN table]
    /\ DOMAIN keysEver \subseteq DOMAIN whose /\ keysEver \in [DOMAIN keysEver -> DOMAIN table]
    /\ \A id \in DOMAIN keys : id \in DOMAIN keysEver /\ keysEver[id] = keys[id]
    /\ DOMAIN memory \subseteq DOMAIN data /\ DOMAIN data \subseteq DOMAIN whose
    /\ DOMAIN saved \subseteq DOMAIN table
Shapes == SchoolShapes /\ EntryShapes /\ HeldShapes

\* Whoever is enrolled has an identifier, issued for that pupil.
SchoolInv ==
    \A p \in Pupils :
        /\ p \in enrolled => idOf[p] # NoChild
        /\ idOf[p] # NoChild => whose[idOf[p]] = p

\* What distinguishes the children, twins included.
DistinctInv ==
    /\ DistinctPupils(client, whose)
    /\ \A i, j \in DOMAIN wanted : whose[wanted[i]] = whose[wanted[j]] => i = j
    /\ (phase = "loading" /\ ~caught) =>
         /\ Range(wanted) \subseteq Ids(client)
         /\ \A i \in DOMAIN heard : heard[i].id = wanted[i]
    /\ ~(namesakes /\ caught) => IsInjective(keys) /\ DistinctIds(table)

\* The table and the children that are known agree on who is who.
IdentityInv ==
    ~namesakes =>
        /\ IsInjective(nameOf)
        /\ Identity(table, mintedFor, whose, idOf, nameOf, Range(client) \union Range(heard))
        /\ Earlier(Range(heard), Range(client), whose, nameOf)
        /\ \A i \in DOMAIN heard : whose[heard[i].id] = whose[wanted[i]]

\* What is held is the owner's.
OwnerInv ==
    ~namesakes =>
        /\ \A id \in DOMAIN keysEver : mintedFor[keysEver[id]] = whose[id]
        /\ \A id \in DOMAIN data : data[id] = whose[id]
        /\ \A id \in DOMAIN memory : memory[id] = whose[id]
        /\ \A k \in DOMAIN saved : saved[k] = mintedFor[k]

\* A row older than the keys is that of the pupil its identifier was issued for.
OwnRow(entry) ==
    entry.row.kind = "id" => entry.row.n \in DOMAIN whose /\ entry.owner = whose[entry.row.n]
RowsInv == devices \in Seq(Rows) /\ \A i \in DOMAIN devices : OwnRow(devices[i])

RosterInv == Shapes /\ SchoolInv /\ DistinctInv /\ IdentityInv /\ OwnerInv /\ RowsInv

-----------------------------------------------------------------------------
(* A login.                                                                *)

\* g is f, and more.
Prolongs(f, g) == DOMAIN f \subseteq DOMAIN g /\ \A x \in DOMAIN f : g[x] = f[x]

\* The pupils in the order PRONOTE lists them, each once.
LEMMA InOrderIs ==
    ASSUME NEW S \in SUBSET Pupils
    PROVE  InOrder(S) \in Seq(Pupils) /\ Range(InOrder(S)) = S /\ IsInjective(InOrder(S))
<1>1. Order \in Seq(Pupils) /\ IsInjective(Order) /\ Range(Order) = Pupils
  BY RosterAssumption
<1>2. /\ InOrder(S) \in Seq(Pupils) /\ Range(InOrder(S)) = Range(Order) \intersect S
      /\ \E e \in [DOMAIN InOrder(S) -> DOMAIN Order] :
            IsInjective(e) /\ \A i \in DOMAIN InOrder(S) : InOrder(S)[i] = Order[e[i]]
  BY <1>1, Selection DEF InOrder
<1>3. IsInjective(InOrder(S))
  BY <1>1, <1>2 DEF IsInjective
<1> QED BY <1>1, <1>2, <1>3

\* Every enrolled pupil is announced, once, as the school knows it.
LEMMA AnnouncementIs ==
    ASSUME enrolled \subseteq Pupils, NEW ids, NEW names, NEW who,
           \A p \in enrolled : who[ids[p]] = p
    PROVE  /\ Announcement(ids, names) \in Seq({Child(ids[p], names[p]) : p \in enrolled})
           /\ Range(Announcement(ids, names)) = {Child(ids[p], names[p]) : p \in enrolled}
           /\ DistinctPupils(Announcement(ids, names), who)
<1> DEFINE present == InOrder(enrolled)
           A == Announcement(ids, names)
<1>1. present \in Seq(enrolled) /\ Range(present) = enrolled /\ IsInjective(present)
  <2>1. present \in Seq(Pupils) /\ Range(present) = enrolled /\ IsInjective(present)
    BY InOrderIs
  <2>2. \A i \in 1 .. Len(present) : present[i] \in enrolled
    BY <2>1 DEF Range
  <2> HIDE DEF present
  <2>3. present \in Seq(enrolled)
    BY <2>1, <2>2
  <2> QED BY <2>1, <2>3
<1>2. A = [i \in 1 .. Len(present) |-> Child(ids[present[i]], names[present[i]])]
  <2>1. DOMAIN present = 1 .. Len(present)
    BY <1>1
  <2> QED BY <2>1 DEF Announcement
<1> HIDE DEF present
<1>3. A \in Seq({Child(ids[p], names[p]) : p \in enrolled})
  <2>1. \A i \in 1 .. Len(present) :
           Child(ids[present[i]], names[present[i]]) \in {Child(ids[p], names[p]) : p \in enrolled}
    BY <1>1
  <2>2. Len(present) \in Nat
    BY <1>1
  <2> HIDE DEF A
  <2> QED BY <1>2, <2>1, <2>2
<1>4. DOMAIN A = DOMAIN present /\ \A i \in DOMAIN present : A[i] = Child(ids[present[i]], names[present[i]])
  BY <1>1, <1>2
<1> HIDE DEF A
<1>5. Range(A) = {Child(ids[p], names[p]) : p \in enrolled}
  BY <1>1, <1>4 DEF Range
<1>6. DistinctPupils(A, who)
  BY <1>1, <1>4 DEF DistinctPupils, Child, IsInjective, Range
<1> QED BY <1>3, <1>5, <1>6 DEF A

\* What a login issues is new, and goes to whom it should.
LEMMA LogInIs ==
    ASSUME SchoolShapes, SchoolInv, NEW rotated \in SUBSET Pupils, LogIn(rotated)
    PROVE  /\ SchoolShapes' /\ SchoolInv'
           /\ Prolongs(whose, whose')
           /\ \A p \in Pupils : idOf[p] <= idOf'[p] /\ (p \notin rotated => idOf'[p] = idOf[p])
           /\ DistinctPupils(client', whose')
           /\ Range(client') = {Child(idOf'[p], nameOf[p]) : p \in enrolled}
<1> DEFINE fresh == InOrder(rotated \intersect enrolled)
           at(p) == CHOOSE i \in DOMAIN fresh : fresh[i] = p
           N == Len(whose)
<1>1. /\ fresh \in Seq(Pupils) /\ Range(fresh) = rotated \intersect enrolled
      /\ whose \in Seq(Pupils) /\ N \in Nat /\ idOf \in [Pupils -> DOMAIN whose \union {NoChild}]
  BY InOrderIs DEF SchoolShapes
<1>2. /\ whose' = whose \o fresh
      /\ idOf' = [p \in Pupils |-> IF p \in Range(fresh) THEN N + at(p) ELSE idOf[p]]
      /\ client' = Announcement(idOf', nameOf)
      /\ caught' \in BOOLEAN
      /\ UNCHANGED <<enrolled, nameOf, namesakes>>
  <2>1. caught' = (caught \/ (phase = "loading" /\ client' # client))
    BY DEF LogIn
  <2> QED BY <2>1 DEF LogIn, SchoolShapes
<1>3. \A p \in Range(fresh) : at(p) \in DOMAIN fresh /\ fresh[at(p)] = p
  BY DEF Range
<1> HIDE DEF fresh, at
<1>4. /\ whose' \in Seq(Pupils) /\ DOMAIN whose' = 1 .. N + Len(fresh) /\ Len(fresh) \in Nat
      /\ \A i \in 1 .. N : whose'[i] = whose[i]
      /\ \A i \in 1 .. Len(fresh) : whose'[N + i] = fresh[i]
      /\ DOMAIN whose = 1 .. N /\ DOMAIN fresh = 1 .. Len(fresh)
  BY <1>1, <1>2
<1>5. Prolongs(whose, whose')
  BY <1>1, <1>4 DEF Prolongs
<1>6. ASSUME NEW p \in Range(fresh)
      PROVE  idOf'[p] = N + at(p) /\ idOf'[p] \in DOMAIN whose' /\ whose'[idOf'[p]] = p
  <2>1. p \in Pupils /\ at(p) \in 1 .. Len(fresh) /\ fresh[at(p)] = p
    BY <1>1, <1>3, <1>4
  <2>2. idOf'[p] = N + at(p)
    BY <1>2, <2>1
  <2> QED BY <2>1, <2>2, <1>1, <1>4
<1>7. ASSUME NEW p \in Pupils
      PROVE  /\ idOf'[p] \in DOMAIN whose' \union {NoChild}
             /\ idOf[p] <= idOf'[p]
             /\ p \notin rotated => idOf'[p] = idOf[p]
             /\ p \in enrolled => idOf'[p] # NoChild
             /\ idOf'[p] # NoChild => whose'[idOf'[p]] = p
  <2>0. idOf[p] \in 1 .. N \union {NoChild}
    BY <1>1, <1>4
  <2>1. CASE p \in Range(fresh)
    <3>1. idOf'[p] = N + at(p) /\ at(p) \in 1 .. Len(fresh) /\ p \in rotated
      BY <2>1, <1>1, <1>3, <1>4, <1>6
    <3>2. idOf[p] <= idOf'[p] /\ idOf'[p] # NoChild
      BY <3>1, <2>0, <1>1, <1>4 DEF NoChild
    <3> QED BY <2>1, <3>1, <3>2, <1>6
  <2>2. CASE p \notin Range(fresh)
    <3>1. idOf'[p] = idOf[p]
      BY <2>2, <1>2
    <3>2. idOf[p] # NoChild => idOf[p] \in 1 .. N /\ whose[idOf[p]] = p /\ whose'[idOf[p]] = p
      BY <2>0, <1>4 DEF SchoolInv
    <3>3. idOf[p] <= idOf[p] /\ idOf[p] \in DOMAIN whose' \union {NoChild}
      BY <2>0, <1>1, <1>4 DEF NoChild
    <3> QED BY <3>1, <3>2, <3>3 DEF SchoolInv
  <2> QED BY <2>1, <2>2
<1>8. idOf' \in [Pupils -> DOMAIN whose' \union {NoChild}]
  BY <1>2, <1>7
<1>9. SchoolInv'
  BY <1>2, <1>7 DEF SchoolInv
<1>10. \A p \in enrolled : p \in Pupils /\ idOf'[p] \in DOMAIN whose' /\ whose'[idOf'[p]] = p
  BY <1>7 DEF SchoolShapes
<1>11. /\ client' \in Seq({Child(idOf'[p], nameOf[p]) : p \in enrolled})
       /\ Range(client') = {Child(idOf'[p], nameOf[p]) : p \in enrolled}
       /\ DistinctPupils(client', whose')
  <2>1. enrolled \subseteq Pupils /\ \A p \in enrolled : whose'[idOf'[p]] = p
    BY <1>10 DEF SchoolShapes
  <2>2. /\ Announcement(idOf', nameOf) \in Seq({Child(idOf'[p], nameOf[p]) : p \in enrolled})
        /\ Range(Announcement(idOf', nameOf)) = {Child(idOf'[p], nameOf[p]) : p \in enrolled}
        /\ DistinctPupils(Announcement(idOf', nameOf), whose')
    BY ONLY <2>1, AnnouncementIs
  <2>3. client' = Announcement(idOf', nameOf)
    BY <1>2
  <2> QED BY <2>2, <2>3
<1>12. client' \in Seq(Record')
  <2>1. \A p \in enrolled : Child(idOf'[p], nameOf[p]) \in Record'
    BY <1>10 DEF Child, Record, SchoolShapes
  <2> DEFINE S == {Child(idOf'[p], nameOf[p]) : p \in enrolled}
  <2>2. S \subseteq Record'
    BY <2>1
  <2> HIDE DEF S
  <2>3. \A s \in Seq(S) : s \in Seq(Record')
    BY <2>2
  <2> QED BY <2>3, <1>11 DEF S
<1>13. SchoolShapes'
  BY <1>2, <1>4, <1>8, <1>12 DEF SchoolShapes
<1> QED BY <1>5, <1>7, <1>9, <1>11, <1>13

\* What has been recorded or heard is an identifier that was issued, of a pupil.
Known(tab, minted, who, name, kids) ==
    /\ DOMAIN minted = DOMAIN tab
    /\ \A k \in DOMAIN tab :
          minted[k] \in DOMAIN name /\ tab[k].id \in Nat /\ tab[k].id \in DOMAIN who
    /\ \A c \in kids : c.id \in DOMAIN who /\ who[c.id] \in DOMAIN name /\ c.id \in Nat

\* What is known of the pupils stays known through a login that gives another
\* identifier to some whose name has not moved.
Issued(tab, minted, who, who2, ids, ids2, name, kids, older, clients, rotated, E) ==
    /\ IsInjective(name) /\ ids \in [DOMAIN name -> Nat] /\ ids2 \in [DOMAIN name -> Nat]
    /\ Known(tab, minted, who, name, kids) /\ Identity(tab, minted, who, ids, name, kids)
    /\ Prolongs(who, who2) /\ older \subseteq kids /\ E \subseteq DOMAIN name
    /\ \A p \in DOMAIN name : ids[p] <= ids2[p] /\ (p \notin rotated => ids2[p] = ids[p])
    /\ \A p \in E : who2[ids2[p]] = p
    /\ clients = {Child(ids2[p], name[p]) : p \in E}
    /\ \A p \in rotated, k \in DOMAIN tab : minted[k] = p => tab[k].name = name[p]

\* What is known of the pupils survives a login, and what it announces is not older.
LEMMA LogInIdentity ==
    ASSUME NEW tab, NEW minted, NEW who, NEW who2, NEW ids, NEW ids2, NEW name, NEW kids,
           NEW older, NEW clients, NEW rotated, NEW E,
           Issued(tab, minted, who, who2, ids, ids2, name, kids, older, clients, rotated, E)
    PROVE  /\ Identity(tab, minted, who2, ids2, name, clients \union older)
           /\ Earlier(older, clients, who2, name)
<1>0. /\ IsInjective(name) /\ ids \in [DOMAIN name -> Nat] /\ ids2 \in [DOMAIN name -> Nat]
      /\ DOMAIN minted = DOMAIN tab /\ Identity(tab, minted, who, ids, name, kids)
      /\ \A k \in DOMAIN tab : /\ minted[k] \in DOMAIN name /\ tab[k].id \in Nat
                               /\ tab[k].id \in DOMAIN who
      /\ \A c \in kids : c.id \in DOMAIN who /\ who[c.id] \in DOMAIN name /\ c.id \in Nat
      /\ Prolongs(who, who2) /\ older \subseteq kids /\ E \subseteq DOMAIN name
      /\ \A p \in DOMAIN name : ids[p] <= ids2[p] /\ (p \notin rotated => ids2[p] = ids[p])
      /\ \A p \in E : who2[ids2[p]] = p
      /\ clients = {Child(ids2[p], name[p]) : p \in E}
      /\ \A p \in rotated, k \in DOMAIN tab : minted[k] = p => tab[k].name = name[p]
  BY DEF Issued, Known
<1> USE <1>0
<1>1. \A c \in clients : c.id = ids2[who2[c.id]] /\ c.name = name[who2[c.id]] /\ who2[c.id] \in E
  BY DEF Child
<1>2. \A c \in older : who2[c.id] = who[c.id] /\ c \in kids
  BY DEF Prolongs
<1>3. \A k \in DOMAIN tab : who2[tab[k].id] = who[tab[k].id]
  BY DEF Prolongs
<1>4. OwnRecords(tab, minted, who2) /\ OwnNames(tab, minted, name)
  BY <1>3 DEF Identity, OwnRecords
<1>5. NamesKept(tab, minted, who2, name, clients \union older)
  <2> SUFFICES ASSUME NEW c \in clients \union older, c.name # name[who2[c.id]]
               PROVE  \E k \in DOMAIN tab : minted[k] = who2[c.id] /\ tab[k].name = c.name
    BY DEF NamesKept
  <2>1. c \in kids /\ who2[c.id] = who[c.id]
    BY <1>1, <1>2
  <2> QED BY <2>1 DEF Identity, NamesKept
<1>6. Newer(tab, minted, who2, ids2, clients \union older)
  <2>1. ASSUME NEW k \in DOMAIN tab PROVE tab[k].id <= ids2[minted[k]]
    <3>1. tab[k].id <= ids[minted[k]] /\ ids[minted[k]] <= ids2[minted[k]]
      BY DEF Identity, Newer
    <3>2. tab[k].id \in Nat /\ ids[minted[k]] \in Nat /\ ids2[minted[k]] \in Nat
      OBVIOUS
    <3> QED BY <3>1, <3>2
  <2>2. ASSUME NEW c \in older PROVE c.id <= ids2[who2[c.id]]
    <3>1. c.id <= ids[who[c.id]] /\ ids[who[c.id]] <= ids2[who[c.id]]
      BY <1>2 DEF Identity, Newer
    <3>2. c.id \in Nat /\ ids[who[c.id]] \in Nat /\ ids2[who[c.id]] \in Nat
      BY <1>2
    <3> QED BY <3>1, <3>2, <1>2
  <2>3. ASSUME NEW c \in clients PROVE c.id <= ids2[who2[c.id]]
    <3>1. c.id = ids2[who2[c.id]] /\ ids2[who2[c.id]] \in Nat
      BY <1>1
    <3> QED BY <3>1
  <2>4. ASSUME NEW k \in DOMAIN tab, NEW c \in clients \union older, minted[k] = who2[c.id]
        PROVE  tab[k].id <= c.id
    <3>1. CASE c \in clients
      BY <3>1, <2>1, <2>4, <1>1
    <3>2. CASE c \in older
      BY <3>2, <2>4, <1>2 DEF Identity, Newer
    <3> QED BY <3>1, <3>2, <2>4
  <2> QED BY <2>1, <2>2, <2>3, <2>4 DEF Newer
<1>7. ASSUME NEW k \in DOMAIN tab
      PROVE  \/ SameName(tab[k], minted[k], who2, name, clients \union older)
             \/ SameId(tab[k], minted[k], who2, ids2, clients \union older)
  <2> DEFINE p == minted[k]
  <2>1. ASSUME name[p] = tab[k].name PROVE SameName(tab[k], p, who2, name, clients \union older)
    <3>1. \A c \in clients : who2[c.id] = p => c.name = tab[k].name
      BY <2>1, <1>1
    <3>2. ASSUME NEW c \in older, who2[c.id] = p PROVE c.name = tab[k].name
      <4>1. CASE c.name = name[who[c.id]]
        BY <4>1, <2>1, <3>2, <1>2
      <4>2. CASE \E l \in DOMAIN tab : minted[l] = who[c.id] /\ tab[l].name = c.name
        <5>1. PICK l \in DOMAIN tab : minted[l] = p /\ tab[l].name = c.name
          BY <4>2, <3>2, <1>2
        <5>2. l = k
          BY <5>1 DEF Identity, OwnRecords, IsInjective
        <5> QED BY <5>1, <5>2
      <4> QED BY <4>1, <4>2, <1>2 DEF Identity, NamesKept
    <3> QED BY <3>1, <3>2, <2>1 DEF SameName
  <2>2. CASE p \in rotated
    BY <2>1, <2>2
  <2>3. CASE p \notin rotated
    <3>1. CASE SameName(tab[k], p, who, name, kids)
      BY <3>1, <2>1 DEF SameName
    <3>2. CASE SameId(tab[k], p, who, ids, kids)
      <4>1. ids2[p] = tab[k].id
        BY <2>3, <3>2 DEF SameId
      <4>2. \A c \in clients : who2[c.id] = p => c.id = tab[k].id
        BY <4>1, <1>1
      <4>3. \A c \in older : who2[c.id] = p => c.id = tab[k].id
        BY <3>2, <1>2 DEF SameId
      <4> QED BY <4>1, <4>2, <4>3 DEF SameId
    <3> QED BY <3>1, <3>2 DEF Identity, OneMark
  <2> QED BY <2>2, <2>3
<1>8. OneMark(tab, minted, who2, ids2, name, clients \union older)
  BY <1>7 DEF OneMark
<1>9. Earlier(older, clients, who2, name)
  <2> SUFFICES ASSUME NEW h \in older, NEW c \in clients, who2[h.id] = who2[c.id]
               PROVE  h.id <= c.id /\ c.name = name[who2[c.id]]
    BY DEF Earlier
  <2>1. h.id <= ids2[who2[h.id]]
    BY <1>6 DEF Newer
  <2> QED BY <2>1, <1>1
<1> QED BY <1>4, <1>5, <1>6, <1>8, <1>9 DEF Identity

\* What the entry knows is typed.
LEMMA KnownIs ==
    ASSUME SchoolShapes, EntryShapes
    PROVE  /\ Known(table, mintedFor, whose, nameOf, Range(client) \union Range(heard))
           /\ DOMAIN nameOf = Pupils /\ idOf \in [Pupils -> Nat] /\ DOMAIN whose \subseteq Nat
<1>1. /\ whose \in Seq(Pupils) /\ mintedFor \in Seq(Pupils) /\ Len(mintedFor) = Len(table)
      /\ table \in Seq(Record) /\ client \in Seq(Record) /\ heard \in Seq(Record)
      /\ nameOf \in [Pupils -> 1 .. MaxNames] /\ idOf \in [Pupils -> DOMAIN whose \union {NoChild}]
  BY DEF SchoolShapes, EntryShapes
<1>2. DOMAIN whose \subseteq Nat /\ \A i \in DOMAIN whose : whose[i] \in Pupils
  BY <1>1
<1>3. idOf \in [Pupils -> Nat]
  BY <1>1, <1>2 DEF NoChild
<1>4. DOMAIN mintedFor = DOMAIN table /\ \A k \in DOMAIN table : mintedFor[k] \in Pupils
  BY <1>1
<1>5. \A r \in Record : r.id \in DOMAIN whose
  BY DEF Record
<1>6. \A c \in Range(client) \union Range(heard) : c \in Record
  BY <1>1 DEF Range
<1>7. \A k \in DOMAIN table : table[k] \in Record
  BY <1>1
<1> QED BY <1>1, <1>2, <1>3, <1>4, <1>5, <1>6, <1>7 DEF Known

-----------------------------------------------------------------------------
(* Whom to follow, and the child behind an identifier.                     *)

\* Those followed are among those announced, and as distinct.
LEMMA FollowedIs ==
    ASSUME NEW R, NEW roster \in Seq(R), NEW who
    PROVE  /\ Followed(roster) \in Seq(R) /\ Range(Followed(roster)) \subseteq Range(roster)
           /\ DistinctPupils(roster, who) => DistinctPupils(Followed(roster), who)
           /\ DistinctIds(roster) => DistinctIds(Followed(roster))
<1> DEFINE S == {c \in Range(roster) : c.id \in selected}
           chosen == OnlyIn(roster, S)
<1>1. /\ chosen \in Seq(R) /\ Range(chosen) = Range(roster) \intersect S
      /\ \E e \in [DOMAIN chosen -> DOMAIN roster] :
            IsInjective(e) /\ \A i \in DOMAIN chosen : chosen[i] = roster[e[i]]
  <2> HIDE DEF S
  <2> QED BY Selection
<1>2. Followed(roster) = IF chosen = <<>> THEN roster ELSE chosen
  BY DEF Followed
<1> HIDE DEF chosen
<1>3. CASE chosen = <<>>
  BY <1>2, <1>3
<1>4. CASE chosen # <<>>
  <2>1. Followed(roster) = chosen
    BY <1>2, <1>4
  <2>2. DistinctPupils(roster, who) => DistinctPupils(chosen, who)
    BY <1>1 DEF DistinctPupils, IsInjective
  <2>3. DistinctIds(roster) => DistinctIds(chosen)
    BY <1>1 DEF DistinctIds, IsInjective
  <2> QED BY <2>1, <2>2, <2>3, <1>1
<1> QED BY <1>3, <1>4

\* _live_child_id returns a child the client knows.
LEMMA LiveChildIs ==
    ASSUME SchoolShapes, EntryShapes, NEW id, LiveChild(id) # NoChild
    PROVE  LiveChild(id) \in Ids(client)
<1>1. table \in Seq(Record) /\ client \in Seq(Record)
  BY DEF SchoolShapes, EntryShapes
<1> DEFINE paired == Pair(table, client).keys
           live == {c \in DOMAIN paired : paired[c] = keysEver[id]}
<1>2. DOMAIN paired = Ids(client)
  BY <1>1, PairIs
<1>3. CASE id \in Ids(client)
  BY <1>3 DEF LiveChild
<1>4. CASE id \notin Ids(client)
  <2>1. live # {} /\ LiveChild(id) = CHOOSE c \in live : TRUE
    BY <1>4 DEF LiveChild
  <2>2. LiveChild(id) \in live
    BY <2>1
  <2> QED BY <2>2, <1>2
<1> QED BY <1>3, <1>4

\* The child that answers for an identifier of this process is the same pupil.
LEMMA LiveChildOwner ==
    ASSUME Shapes, DistinctInv, IdentityInv, OwnerInv, ~namesakes,
           NEW id, LiveChild(id) # NoChild
    PROVE  whose[LiveChild(id)] = whose[id]
<1> DEFINE P == Pair(table, client)
           live == {c \in DOMAIN P.keys : P.keys[c] = keysEver[id]}
           kids == Range(client) \union Range(heard)
<1>1. table \in Seq(Record) /\ client \in Seq(Record) /\ DistinctPupils(client, whose)
  BY DEF Shapes, SchoolShapes, EntryShapes, DistinctInv
<1>2. DOMAIN P.keys = Ids(client) /\ Paired(table, client, P)
  BY <1>1, PairIs, PupilsTellIds
<1>3. CASE id \in Ids(client)
  BY <1>3 DEF LiveChild
<1>4. CASE id \notin Ids(client)
  <2>1. id \in DOMAIN keysEver /\ live # {} /\ LiveChild(id) = CHOOSE c \in live : TRUE
    BY <1>4 DEF LiveChild
  <2>2. PICK c \in Ids(client) : LiveChild(id) = c /\ P.keys[c] = keysEver[id]
    BY <2>1, <1>2
  <2>3. PICK j \in DOMAIN client : client[j].id = c
    BY DEF Ids
  <2>4. keysEver[id] \in DOMAIN table /\ mintedFor[keysEver[id]] = whose[id]
    BY <2>1 DEF Shapes, HeldShapes, OwnerInv
  <2>5. /\ Identity(table, mintedFor, whose, idOf, nameOf, kids) /\ Range(client) \subseteq kids
        /\ \A k \in kids : whose[k.id] \in DOMAIN nameOf
    BY KnownIs DEF Shapes, IdentityInv, Known
  <2> HIDE DEF P, kids
  <2>6. mintedFor[P.keys[client[j].id]] = whose[client[j].id]
    BY <1>1, <1>2, <2>2, <2>3, <2>4, <2>5, OldKeyOwner
  <2> QED BY <2>2, <2>3, <2>4, <2>6
<1> QED BY <1>3, <1>4

-----------------------------------------------------------------------------
(* A pairing that is adopted.                                              *)

\* What _async_pair_children and the snapshot of it leave.
LEMMA AdoptIs ==
    ASSUME SchoolShapes, EntryShapes, Prolongs(whose, whose'), whose' \in Seq(Pupils),
           NEW children \in Seq(Record'), AdoptPairing(children, whose')
    PROVE  /\ table' = Pair(table, children).table /\ table' \in Seq(Record')
           /\ table \in Seq(Record') /\ DOMAIN table \subseteq DOMAIN table'
           /\ mintedFor' = Minted(Pair(table, children), mintedFor, whose')
           /\ mintedFor' \in Seq(Pupils) /\ Len(mintedFor') = Len(table')
           /\ Prolongs(mintedFor, mintedFor')
           /\ keys' = Pair(table, children).keys /\ keys' \in [Range(students') -> DOMAIN table']
           /\ students' \in Seq(DOMAIN whose') /\ Range(students') = Ids(children)
           /\ DistinctIds(children) => Paired(table, children, Pair(table, children))
<1> DEFINE P == Pair(table, children)
<1>1. /\ table \in Seq(Record) /\ mintedFor \in Seq(Pupils) /\ Len(mintedFor) = Len(table)
      /\ whose \in Seq(Pupils)
  BY DEF SchoolShapes, EntryShapes
<1>0. \A r \in Record' : r.id \in DOMAIN whose'
  BY DEF Record
<1>2. table \in Seq(Record')
  <2>1. Record \subseteq Record'
    BY DEF Record, Prolongs
  <2>2. \A s \in Seq(Record) : s \in Seq(Record')
    BY <2>1
  <2> QED BY <2>2, <1>1
<1>3. /\ P.table \in Seq(Record') /\ Len(table) <= Len(P.table)
      /\ P.keys \in [Ids(children) -> DOMAIN P.table]
      /\ DistinctIds(children) => Paired(table, children, P)
  BY <1>2, PairIs
<1>4. /\ table' = P.table /\ keys' = P.keys
      /\ mintedFor' = Minted(P, mintedFor, whose')
      /\ students' = [i \in DOMAIN children |-> children[i].id]
  BY DEF AdoptPairing, Minted
<1> HIDE DEF P
<1>5. DOMAIN table \subseteq DOMAIN table' /\ DOMAIN mintedFor = DOMAIN table /\ Len(table') \in Nat
      /\ DOMAIN table' = 1 .. Len(table')
  BY <1>1, <1>3, <1>4
<1>6. mintedFor' \in Seq(Pupils) /\ Len(mintedFor') = Len(table') /\ DOMAIN mintedFor' = DOMAIN table'
  <2>1. ASSUME NEW k \in DOMAIN table' PROVE mintedFor'[k] \in Pupils
    <3>1. table'[k] \in Record'
      BY <1>3, <1>4
    <3>2. table'[k].id \in DOMAIN whose'
      BY <3>1, <1>0
    <3>3. whose'[table'[k].id] \in Pupils
      BY <3>2
    <3>4. k \in DOMAIN mintedFor => mintedFor[k] \in Pupils
      BY <1>1
    <3> QED BY <3>3, <3>4, <1>4 DEF Minted
  <2>2. mintedFor' = [k \in 1 .. Len(table') |-> mintedFor'[k]]
    BY <1>4, <1>5 DEF Minted
  <2> QED BY <2>1, <2>2, <1>5
<1>7. Prolongs(mintedFor, mintedFor')
  BY <1>4, <1>5, <1>6 DEF Minted, Prolongs
<1>8. students' \in Seq(DOMAIN whose') /\ Range(students') = Ids(children)
  <2>1. \A i \in DOMAIN children : children[i].id \in DOMAIN whose'
    BY <1>0
  <2>2. DOMAIN children = 1 .. Len(children) /\ Len(children) \in Nat
    OBVIOUS
  <2>3. students' \in Seq(DOMAIN whose')
    BY <2>1, <2>2, <1>4
  <2> QED BY <2>3, <1>4 DEF Range, Ids
<1> QED BY <1>2, <1>3, <1>4, <1>5, <1>6, <1>7, <1>8 DEF P

-----------------------------------------------------------------------------
(* The rows of the registry.                                               *)

\* One row after another, of the same pupil, and handed over to a key at most.
Handed(row, after) ==
    /\ after \in Rows /\ after.owner = row.owner
    /\ after = row \/ (row.row.kind = "id" /\ after.row.kind = "key")
Moves(rows, after) ==
    /\ after \in Seq(Rows) /\ Len(after) = Len(rows)
    /\ \A i \in DOMAIN rows : Handed(rows[i], after[i])

\* The rows of the identifiers announced now go to their keys.
LEMMA AnnouncedRows ==
    ASSUME devices \in Seq(Rows), NEW n \in Nat, NEW paired, paired \in [DOMAIN paired -> 1 .. n]
    PROVE  /\ Moves(devices, AdoptAnnounced(paired))
           /\ \A i \in DOMAIN devices :
                 \/ AdoptAnnounced(paired)[i] = devices[i]
                 \/ /\ devices[i].row.kind = "id" /\ devices[i].row.n \in DOMAIN paired
                    /\ AdoptAnnounced(paired)[i].row = Row("key", paired[devices[i].row.n])
<1> SUFFICES ASSUME NEW after, after = AdoptAnnounced(paired)
             PROVE  /\ Moves(devices, after)
                    /\ \A i \in DOMAIN devices :
                          \/ after[i] = devices[i]
                          \/ /\ devices[i].row.kind = "id" /\ devices[i].row.n \in DOMAIN paired
                             /\ after[i].row = Row("key", paired[devices[i].row.n])
  OBVIOUS
<1>1. DOMAIN devices = 1 .. Len(devices) /\ Len(devices) \in Nat
  OBVIOUS
<1>2. DOMAIN after = 1 .. Len(devices)
  BY <1>1 DEF AdoptAnnounced
<1>3. ASSUME NEW i \in DOMAIN devices
      PROVE  /\ Handed(devices[i], after[i])
             /\ \/ after[i] = devices[i]
                \/ /\ devices[i].row.kind = "id" /\ devices[i].row.n \in DOMAIN paired
                   /\ after[i].row = Row("key", paired[devices[i].row.n])
  <2>1. devices[i] \in Rows
    OBVIOUS
  <2>2. CASE devices[i].row.kind = "id" /\ devices[i].row.n \in Movable(paired)
    <3>1. devices[i].row.n \in DOMAIN paired
      BY <2>2 DEF Movable
    <3>2. after[i] = [devices[i] EXCEPT !.row = Row("key", paired[devices[i].row.n])]
      BY <2>2 DEF AdoptAnnounced
    <3>3. paired[devices[i].row.n] \in Nat
      BY <3>1
    <3>4. Row("key", paired[devices[i].row.n]) \in [kind : {"id", "key"}, n : Nat]
      BY <3>3 DEF Row
    <3>5. after[i] \in Rows /\ after[i].owner = devices[i].owner
          /\ after[i].row = Row("key", paired[devices[i].row.n])
      BY <2>1, <3>2, <3>4 DEF Rows
    <3>6. after[i].row.kind = "key"
      BY <3>5 DEF Row
    <3>7. Handed(devices[i], after[i])
      BY <2>2, <3>5, <3>6 DEF Handed
    <3> QED BY <2>2, <3>1, <3>5, <3>7
  <2>3. CASE ~(devices[i].row.kind = "id" /\ devices[i].row.n \in Movable(paired))
    <3>1. after[i] = devices[i]
      BY <2>3 DEF AdoptAnnounced
    <3> QED BY <3>1, <2>1 DEF Handed
  <2> QED BY <2>2, <2>3
<1>4. after = [i \in 1 .. Len(devices) |-> after[i]]
  BY <1>1 DEF AdoptAnnounced
<1>5. \A i \in 1 .. Len(devices) : after[i] \in Rows
  BY <1>1, <1>3 DEF Handed
<1>6. after \in Seq(Rows) /\ Len(after) = Len(devices)
  BY <1>1, <1>2, <1>4, <1>5
<1> QED BY <1>3, <1>6 DEF Moves

\* The keys that found no row under an identifier announced now.
Unmoved(paired) == {paired[id] : id \in DOMAIN paired \ Movable(paired)}

\* A row nobody announces goes to the key of the child that found none.
LEMMA RotatedRows ==
    ASSUME NEW rows \in Seq(Rows), NEW n \in Nat, NEW paired, paired \in [DOMAIN paired -> 1 .. n]
    PROVE  /\ Moves(rows, AdoptRotated(rows, paired))
           /\ \A i \in DOMAIN rows :
                 \/ AdoptRotated(rows, paired)[i] = rows[i]
                 \/ /\ rows[i].row.kind = "id" /\ rows[i].row.n \notin DOMAIN paired
                    /\ \E heir : /\ Unmoved(paired) = {heir}
                                 /\ AdoptRotated(rows, paired)[i].row = Row("key", heir)
<1> DEFINE candidates == {i \in DOMAIN rows :
                            rows[i].row.kind = "id" /\ rows[i].row.n \notin DOMAIN paired}
           newest == CHOOSE i \in candidates : \A j \in candidates : j <= i
           heir == CHOOSE k \in Unmoved(paired) : \A j \in Unmoved(paired) : k <= j
<1> SUFFICES ASSUME NEW after, after = AdoptRotated(rows, paired)
             PROVE  /\ Moves(rows, after)
                    /\ \A i \in DOMAIN rows :
                          \/ after[i] = rows[i]
                          \/ /\ rows[i].row.kind = "id" /\ rows[i].row.n \notin DOMAIN paired
                             /\ \E h : Unmoved(paired) = {h} /\ after[i].row = Row("key", h)
  OBVIOUS
<1>1. DOMAIN rows = 1 .. Len(rows) /\ Len(rows) \in Nat
  OBVIOUS
<1>2. \/ after = rows
      \/ /\ Cardinality(Unmoved(paired)) = 1 /\ candidates # {}
         /\ after = Rename(rows, rows[newest].row, Row("key", heir))
  BY DEF AdoptRotated, Unmoved, MayGuess
<1>3. CASE after = rows
  <2>1. \A i \in DOMAIN rows : rows[i] \in Rows
    OBVIOUS
  <2>2. Moves(rows, after)
    BY <2>1, <1>3 DEF Moves, Handed
  <2> QED BY <2>2, <1>3
<1>4. CASE /\ Cardinality(Unmoved(paired)) = 1 /\ candidates # {}
           /\ after = Rename(rows, rows[newest].row, Row("key", heir))
  <2>1. Unmoved(paired) \subseteq 1 .. n
    BY DEF Unmoved
  <2>2. IsFiniteSet(Unmoved(paired))
    BY <2>1, FS_Interval, FS_Subset
  <2>3. PICK h : Unmoved(paired) = {h}
    BY <2>2, <1>4, FS_Singleton
  <2>4. h \in Nat
    BY <2>1, <2>3
  <2>5. heir = h
    BY <2>3, <2>4
  <2>6. newest \in candidates
    <3>1. candidates \in SUBSET (1 .. Len(rows))
      BY <1>1
    <3> HIDE DEF candidates
    <3>2. \E i \in candidates : \A j \in candidates : j <= i
      BY <3>1, <1>1, <1>4, GreatestIndex
    <3> QED BY <3>2
  <2>7. newest \in DOMAIN rows /\ rows[newest].row.kind = "id" /\ rows[newest].row.n \notin DOMAIN paired
    BY <2>6
  <2> HIDE DEF newest, heir
  <2> DEFINE to == Row("key", h)
  <2>8. to \in [kind : {"id", "key"}, n : Nat] /\ to.kind = "key"
    BY <2>4 DEF Row
  <2>9. after = [i \in DOMAIN rows |->
                   IF rows[i].row = rows[newest].row THEN [rows[i] EXCEPT !.row = to] ELSE rows[i]]
    BY <1>4, <2>5 DEF Rename
  <2> HIDE DEF to
  <2>10. ASSUME NEW i \in DOMAIN rows
         PROVE  /\ Handed(rows[i], after[i])
                /\ \/ after[i] = rows[i]
                   \/ rows[i].row = rows[newest].row /\ after[i].row = to
    <3>1. rows[i] \in Rows
      OBVIOUS
    <3>2. CASE rows[i].row = rows[newest].row
      <4>1. after[i] = [rows[i] EXCEPT !.row = to]
        BY <2>9, <3>2
      <4>2. after[i] \in Rows /\ after[i].owner = rows[i].owner /\ after[i].row = to
        BY <3>1, <4>1, <2>8 DEF Rows
      <4>3. Handed(rows[i], after[i])
        BY <4>2, <3>2, <2>7, <2>8 DEF Handed
      <4> QED BY <4>2, <4>3, <3>2
    <3>3. CASE rows[i].row # rows[newest].row
      BY <2>9, <3>1, <3>3 DEF Handed
    <3> QED BY <3>2, <3>3
  <2>11. after \in Seq(Rows) /\ Len(after) = Len(rows)
    <3>1. after = [i \in 1 .. Len(rows) |-> after[i]]
      BY <2>9, <1>1
    <3>2. \A i \in 1 .. Len(rows) : after[i] \in Rows
      BY <2>10, <1>1 DEF Handed
    <3> QED BY <3>1, <3>2, <1>1
  <2> QED BY <2>3, <2>7, <2>10, <2>11 DEF Moves, to
<1> QED BY <1>2, <1>3, <1>4

\* Rows that are created are rows of keys.
LEMMA CreatedRows ==
    ASSUME NEW R, NEW children \in Seq(R), NEW paired, NEW owners, NEW rows \in Seq(Rows),
           \A c \in Range(children) : paired[c.id] \in Nat /\ owners[c.id] \in Pupils
    PROVE  LET after == CreateMissing(rows, children, paired, owners)
           IN  /\ after \in Seq(Rows) /\ Len(rows) <= Len(after)
               /\ \A i \in DOMAIN rows : after[i] = rows[i]
               /\ \A i \in DOMAIN after : i \in DOMAIN rows \/ after[i].row.kind = "key"
<1> DEFINE after == CreateMissing(rows, children, paired, owners)
           S == {c \in Range(children) : ~HasRow(rows, Row("key", paired[c.id]))}
           missing == OnlyIn(children, S)
           new == [i \in DOMAIN missing |->
                     [row |-> Row("key", paired[missing[i].id]), owner |-> owners[missing[i].id]]]
<1>1. missing \in Seq(R) /\ Range(missing) \subseteq Range(children)
  <2> HIDE DEF S
  <2> QED BY Selection
<1>2. after = rows \o new
  BY DEF CreateMissing
<1> HIDE DEF missing
<1>3. DOMAIN missing = 1 .. Len(missing) /\ Len(missing) \in Nat
  BY <1>1
<1>4. \A i \in DOMAIN missing : missing[i] \in Range(children)
  BY <1>1 DEF Range
<1>5. ASSUME NEW i \in 1 .. Len(missing) PROVE new[i] \in Rows /\ new[i].row.kind = "key"
  <2>1. paired[missing[i].id] \in Nat /\ owners[missing[i].id] \in Pupils
    BY <1>3, <1>4
  <2>2. new[i] = [row |-> Row("key", paired[missing[i].id]), owner |-> owners[missing[i].id]]
    BY <1>3
  <2> QED BY <2>1, <2>2 DEF Row, Rows
<1>6. new = [i \in 1 .. Len(missing) |-> new[i]]
  BY <1>3
<1> HIDE DEF new
<1>7. new \in Seq(Rows) /\ Len(new) = Len(missing) /\ DOMAIN new = 1 .. Len(missing)
  BY <1>3, <1>5, <1>6
<1>8. /\ rows \o new \in Seq(Rows) /\ Len(rows \o new) = Len(rows) + Len(missing)
      /\ \A i \in 1 .. Len(rows) : (rows \o new)[i] = rows[i]
      /\ \A i \in 1 .. Len(rows) + Len(missing) : i > Len(rows) => (rows \o new)[i] = new[i - Len(rows)]
  BY <1>3, <1>7
<1>9. ASSUME NEW i \in DOMAIN (rows \o new), i \notin DOMAIN rows PROVE (rows \o new)[i].row.kind = "key"
  <2>1. i \in 1 .. Len(rows) + Len(missing) /\ i > Len(rows)
    BY <1>8, <1>9, <1>3
  <2>2. i - Len(rows) \in 1 .. Len(missing) /\ (rows \o new)[i] = new[i - Len(rows)]
    BY <2>1, <1>3, <1>8
  <2> QED BY <2>2, <1>5
<1> QED BY <1>2, <1>3, <1>8, <1>9

\* What an adopted pairing leaves of the registry, and where a row older than the
\* keys may go: to the key of its identifier, or to the one child without a row.
LEMMA DevicesAre ==
    ASSUME SchoolShapes, EntryShapes, RowsInv, Prolongs(whose, whose'), whose' \in Seq(Pupils),
           NEW children \in Seq(Record'), AdoptPairing(children, whose')
    PROVE  /\ RowsInv' /\ Len(devices) <= Len(devices')
           /\ \A i \in DOMAIN devices' :
                 devices'[i].row.kind = "id" => i \in DOMAIN devices /\ devices'[i] = devices[i]
           /\ \A i \in DOMAIN devices :
                 /\ devices'[i].owner = devices[i].owner
                 /\ devices'[i].row.kind = "id" => devices'[i] = devices[i]
                 /\ devices[i].row.kind = "id" /\ devices'[i].row.kind = "key" =>
                      \/ /\ devices[i].row.n \in DOMAIN keys'
                         /\ devices'[i].row.n = keys'[devices[i].row.n]
                      \/ /\ devices[i].row.n \notin DOMAIN keys'
                         /\ Unmoved(keys') = {devices'[i].row.n}
<1> DEFINE moved == AdoptAnnounced(keys')
           guessed == AdoptRotated(moved, keys')
           n == Len(table')
<1>1. /\ keys' \in [DOMAIN keys' -> 1 .. n] /\ n \in Nat /\ DOMAIN keys' = Ids(children)
      /\ devices \in Seq(Rows)
  <2>1. /\ table' \in Seq(Record') /\ keys' \in [Range(students') -> DOMAIN table']
        /\ Range(students') = Ids(children)
    BY AdoptIs
  <2> QED BY <2>1 DEF RowsInv
<1>2. devices' = CreateMissing(guessed, children, keys', whose')
  BY DEF AdoptPairing
<1>3. /\ Moves(devices, moved)
      /\ \A i \in DOMAIN devices :
            \/ moved[i] = devices[i]
            \/ /\ devices[i].row.kind = "id" /\ devices[i].row.n \in DOMAIN keys'
               /\ moved[i].row = Row("key", keys'[devices[i].row.n])
  BY <1>1, AnnouncedRows
<1> HIDE DEF moved, n
<1>4. moved \in Seq(Rows)
  BY <1>3 DEF Moves
<1>5. /\ Moves(moved, guessed)
      /\ \A i \in DOMAIN moved :
            \/ guessed[i] = moved[i]
            \/ /\ moved[i].row.kind = "id" /\ moved[i].row.n \notin DOMAIN keys'
               /\ \E heir : /\ Unmoved(keys') = {heir}
                            /\ guessed[i].row = Row("key", heir)
  BY <1>1, <1>4, RotatedRows
<1> HIDE DEF guessed
<1>6. \A c \in Range(children) : keys'[c.id] \in Nat /\ whose'[c.id] \in Pupils
  <2>1. \A c \in Range(children) : c.id \in DOMAIN keys' /\ c.id \in DOMAIN whose'
    <3>1. \A r \in Record' : r.id \in DOMAIN whose'
      BY DEF Record
    <3>2. \A c \in Range(children) : c \in Record' /\ c.id \in Ids(children)
      BY DEF Range, Ids
    <3> QED BY <3>1, <3>2, <1>1
  <2> QED BY <2>1, <1>1
<1>7. guessed \in Seq(Rows)
  BY <1>5 DEF Moves
<1>8. /\ devices' \in Seq(Rows) /\ Len(guessed) <= Len(devices')
      /\ \A i \in DOMAIN guessed : devices'[i] = guessed[i]
      /\ \A i \in DOMAIN devices' : i \in DOMAIN guessed \/ devices'[i].row.kind = "key"
  BY <1>2, <1>6, <1>7, CreatedRows
<1>9. DOMAIN moved = DOMAIN devices /\ DOMAIN guessed = DOMAIN devices /\ Len(guessed) = Len(devices)
  BY <1>1, <1>3, <1>4, <1>5, <1>7 DEF Moves
<1>10. ASSUME NEW i \in DOMAIN devices
       PROVE  /\ devices'[i].owner = devices[i].owner
              /\ devices'[i].row.kind = "id" => devices'[i] = devices[i]
              /\ devices[i].row.kind = "id" /\ devices'[i].row.kind = "key" =>
                   \/ /\ devices[i].row.n \in DOMAIN keys'
                      /\ devices'[i].row.n = keys'[devices[i].row.n]
                   \/ /\ devices[i].row.n \notin DOMAIN keys'
                      /\ Unmoved(keys') = {devices'[i].row.n}
  <2>0. devices'[i] = guessed[i]
    BY <1>8, <1>9
  <2>1. Handed(devices[i], moved[i]) /\ Handed(moved[i], guessed[i])
    BY <1>3, <1>5, <1>9 DEF Moves
  <2>2. devices'[i].owner = devices[i].owner
    BY <2>0, <2>1 DEF Handed
  <2>3. devices'[i].row.kind = "id" => devices'[i] = devices[i]
    BY <2>0, <2>1 DEF Handed
  <2>4. ASSUME devices[i].row.kind = "id", devices'[i].row.kind = "key"
        PROVE  \/ /\ devices[i].row.n \in DOMAIN keys'
                  /\ devices'[i].row.n = keys'[devices[i].row.n]
               \/ /\ devices[i].row.n \notin DOMAIN keys'
                  /\ Unmoved(keys') = {devices'[i].row.n}
    <3>1. CASE moved[i] = devices[i]
      <4>1. PICK heir : /\ moved[i].row.n \notin DOMAIN keys' /\ Unmoved(keys') = {heir}
                        /\ guessed[i].row = Row("key", heir)
        BY <1>5, <1>9, <2>0, <2>4, <3>1
      <4>2. devices'[i].row.n = heir
        BY <4>1, <2>0 DEF Row
      <4> QED BY <4>1, <4>2, <3>1
    <3>2. CASE /\ devices[i].row.n \in DOMAIN keys'
               /\ moved[i].row = Row("key", keys'[devices[i].row.n])
      <4>1. moved[i].row.kind = "key" /\ moved[i].row.n = keys'[devices[i].row.n]
        BY <3>2 DEF Row
      <4>2. guessed[i] = moved[i]
        BY <4>1, <2>1 DEF Handed
      <4> QED BY <4>1, <4>2, <2>0, <3>2
    <3> QED BY <3>1, <3>2, <1>3
  <2> QED BY <2>2, <2>3, <2>4
<1>11. ASSUME NEW i \in DOMAIN devices', devices'[i].row.kind = "id"
       PROVE  /\ i \in DOMAIN devices /\ devices'[i] = devices[i]
              /\ devices'[i].row.n \in DOMAIN whose' /\ devices'[i].owner = whose'[devices'[i].row.n]
  <2>1. i \in DOMAIN devices /\ devices'[i] = devices[i]
    BY <1>8, <1>9, <1>10, <1>11
  <2>2. devices[i].row.n \in DOMAIN whose /\ devices[i].owner = whose[devices[i].row.n]
    BY <2>1, <1>11 DEF RowsInv, OwnRow
  <2> QED BY <2>1, <2>2 DEF Prolongs
<1>12. RowsInv'
  <2>1. Rows' = Rows
    BY DEF Rows
  <2> QED BY <2>1, <1>8, <1>11 DEF RowsInv, OwnRow
<1>13. Len(devices) <= Len(devices')
  BY <1>8, <1>9
<1> QED BY <1>10, <1>11, <1>12, <1>13

\* An adopted pairing hands every child its own key, and keeps who is who.
LEMMA AdoptIdentity ==
    ASSUME SchoolShapes, EntryShapes, Prolongs(whose, whose'), whose' \in Seq(Pupils),
           NEW children \in Seq(Record'), AdoptPairing(children, whose'),
           IsInjective(nameOf), NEW ids, NEW kids,
           Identity(table, mintedFor, whose', ids, nameOf, kids),
           Known(table, mintedFor, whose', nameOf, kids),
           Range(children) \subseteq kids, DistinctPupils(children, whose'),
           NEW C \in SUBSET kids, Earlier(Range(children), C, whose', nameOf)
    PROVE  /\ Identity(table', mintedFor', whose', ids, nameOf, C)
           /\ \A id \in DOMAIN keys' : mintedFor'[keys'[id]] = whose'[id]
<1> DEFINE P == Pair(table, children)
<1>1. /\ table' = P.table /\ table' \in Seq(Record') /\ table \in Seq(Record')
      /\ mintedFor' = Minted(P, mintedFor, whose') /\ keys' = P.keys
      /\ DOMAIN keys' = Ids(children) /\ Paired(table, children, P)
  BY AdoptIs, PupilsTellIds
<1>2. DOMAIN mintedFor = DOMAIN table /\ \A c \in kids : whose'[c.id] \in DOMAIN nameOf
  BY DEF Known
<1>3. P.table \in Seq(Record')
  BY <1>1
<1> HIDE DEF P
<1>4. Identity(P.table, Minted(P, mintedFor, whose'), whose', ids, nameOf, C)
  BY <1>1, <1>2, <1>3, PairIdentity
<1>5. \A id \in Ids(children) : Minted(P, mintedFor, whose')[P.keys[id]] = whose'[id]
  BY <1>1, <1>2, <1>3, KeyOwner
<1> QED BY <1>1, <1>4, <1>5

-----------------------------------------------------------------------------
(* Steps of the school: logins between set-ups, enrolments, departures and    *)
(* corrected names.                                                        *)

\* What was of identifiers issued before is of identifiers issued.
LEMMA GrowIs ==
    ASSUME Prolongs(whose, whose')
    PROVE  /\ DOMAIN whose \subseteq DOMAIN whose' /\ Record \subseteq Record'
           /\ \A s \in Seq(Record) : s \in Seq(Record')
           /\ \A s \in Seq(DOMAIN whose) : s \in Seq(DOMAIN whose')
<1>1. DOMAIN whose \subseteq DOMAIN whose'
  BY DEF Prolongs
<1>2. Record \subseteq Record'
  BY <1>1 DEF Record
<1> QED BY <1>1, <1>2

\* What the entry knows is typed after a login too.
LEMMA KnownLater ==
    ASSUME SchoolShapes, EntryShapes, SchoolShapes', Prolongs(whose, whose'), nameOf' = nameOf
    PROVE  Known(table, mintedFor, whose', nameOf, Range(client') \union Range(heard))
<1>1. /\ Known(table, mintedFor, whose, nameOf, Range(client) \union Range(heard))
      /\ DOMAIN nameOf = Pupils /\ DOMAIN whose \subseteq Nat
  BY KnownIs
<1>2. \A i \in DOMAIN whose : i \in DOMAIN whose' /\ whose'[i] = whose[i]
  BY DEF Prolongs
<1>3. /\ whose' \in Seq(Pupils) /\ client' \in Seq(Record')
  BY DEF SchoolShapes
<1>4. \A r \in Record' : r.id \in DOMAIN whose'
  BY DEF Record
<1>5. \A c \in Range(client') : c.id \in DOMAIN whose' /\ whose'[c.id] \in Pupils /\ c.id \in Nat
  BY <1>3, <1>4 DEF Range
<1> QED BY <1>1, <1>2, <1>5 DEF Known

\* Whoever logs in, the table and those known agree on who is who.
LEMMA LogInKeepsIdentity ==
    ASSUME SchoolShapes, EntryShapes, SchoolInv, IdentityInv, ~namesakes,
           NEW rotated \in SUBSET Pupils, \A p \in rotated : NameKnown(p), LogIn(rotated)
    PROVE  /\ Identity(table, mintedFor, whose', idOf', nameOf, Range(client') \union Range(heard))
           /\ Earlier(Range(heard), Range(client'), whose', nameOf)
<1> DEFINE kids == Range(client) \union Range(heard)
           clients == Range(client')
<1>1. /\ Known(table, mintedFor, whose, nameOf, kids) /\ DOMAIN nameOf = Pupils
      /\ idOf \in [Pupils -> Nat] /\ table \in Seq(Record)
  BY KnownIs DEF EntryShapes
<1>2. /\ SchoolShapes' /\ Prolongs(whose, whose') /\ SchoolInv'
      /\ \A p \in Pupils : idOf[p] <= idOf'[p] /\ (p \notin rotated => idOf'[p] = idOf[p])
      /\ clients = {Child(idOf'[p], nameOf[p]) : p \in enrolled}
  BY LogInIs
<1>3. /\ idOf' \in [Pupils -> Nat] /\ enrolled' = enrolled /\ enrolled \subseteq Pupils
  <2>1. whose' \in Seq(Pupils) /\ idOf' \in [Pupils -> DOMAIN whose' \union {NoChild}]
    BY <1>2 DEF SchoolShapes
  <2>2. DOMAIN whose' \union {NoChild} \subseteq Nat
    BY <2>1 DEF NoChild
  <2>3. idOf' \in [Pupils -> Nat]
    BY <2>1, <2>2
  <2> QED BY <2>3 DEF SchoolShapes, LogIn
<1>4. \A p \in enrolled : whose'[idOf'[p]] = p
  BY <1>2, <1>3 DEF SchoolInv
<1>5. \A p \in rotated, k \in DOMAIN table : mintedFor[k] = p => table[k].name = nameOf[p]
  BY DEF NameKnown, Recorded
<1>6. Identity(table, mintedFor, whose, idOf, nameOf, kids) /\ IsInjective(nameOf)
  BY DEF IdentityInv
<1>7. Range(heard) \in SUBSET kids
  OBVIOUS
<1> HIDE DEF kids, clients
<1>9. /\ Identity(table, mintedFor, whose', idOf', nameOf, clients \union Range(heard))
      /\ Earlier(Range(heard), clients, whose', nameOf)
  <2>1. /\ idOf \in [DOMAIN nameOf -> Nat] /\ idOf' \in [DOMAIN nameOf -> Nat]
        /\ enrolled \subseteq DOMAIN nameOf
    BY <1>1, <1>3
  <2>2. \A p \in DOMAIN nameOf : idOf[p] <= idOf'[p] /\ (p \notin rotated => idOf'[p] = idOf[p])
    BY <1>1, <1>2
  <2>3. Issued(table, mintedFor, whose, whose', idOf, idOf', nameOf, kids, Range(heard), clients,
               rotated, enrolled)
    BY <1>1, <1>2, <1>4, <1>5, <1>6, <1>7, <2>1, <2>2 DEF Issued
  <2> QED BY <2>3, LogInIdentity
<1> QED BY <1>9 DEF clients

\* A pupil that is enrolled, or comes back, has a new identifier and an old name.
LEMMA EnrolKeepsIdentity ==
    ASSUME SchoolShapes, EntryShapes, SchoolInv, IdentityInv, ~namesakes,
           NEW p \in Pupils, Enrol(p)
    PROVE  Identity(table, mintedFor, whose', idOf', nameOf, Range(client) \union Range(heard))
<1> DEFINE kids == Range(client) \union Range(heard)
           none == {Child(idOf'[q], nameOf[q]) : q \in {}}
<1>1. /\ Known(table, mintedFor, whose, nameOf, kids) /\ DOMAIN nameOf = Pupils
      /\ idOf \in [Pupils -> Nat] /\ table \in Seq(Record) /\ DOMAIN whose \subseteq Nat
  BY KnownIs DEF EntryShapes
<1>2. whose \in Seq(Pupils) /\ whose' = Append(whose, p) /\ idOf' = [idOf EXCEPT ![p] = Len(whose) + 1]
  BY DEF Enrol, SchoolShapes
<1>3. Prolongs(whose, whose')
  BY <1>2 DEF Prolongs
<1>4. idOf[p] <= Len(whose)
  BY <1>2 DEF SchoolShapes, NoChild
<1>5. /\ idOf' \in [Pupils -> Nat]
      /\ \A q \in Pupils : idOf[q] <= idOf'[q] /\ (q \notin {p} => idOf'[q] = idOf[q])
  BY <1>1, <1>2, <1>4
<1>6. \A q \in {p}, k \in DOMAIN table : mintedFor[k] = q => table[k].name = nameOf[q]
  BY DEF Enrol, NameKnown, Recorded
<1>7. Identity(table, mintedFor, whose, idOf, nameOf, kids) /\ IsInjective(nameOf)
  BY DEF IdentityInv
<1>9. kids \in SUBSET kids /\ {} \subseteq DOMAIN nameOf /\ \A q \in {} : whose'[idOf'[q]] = q
  OBVIOUS
<1> HIDE DEF kids, none
<1>10. Identity(table, mintedFor, whose', idOf', nameOf, none \union kids)
  <2>1. idOf \in [DOMAIN nameOf -> Nat] /\ idOf' \in [DOMAIN nameOf -> Nat]
    BY <1>1, <1>5
  <2>2. \A q \in DOMAIN nameOf : idOf[q] <= idOf'[q] /\ (q \notin {p} => idOf'[q] = idOf[q])
    BY <1>1, <1>5
  <2>3. none = {Child(idOf'[q], nameOf[q]) : q \in {}}
    BY DEF none
  <2> DEFINE nobody == {}
  <2>4. /\ none = {Child(idOf'[q], nameOf[q]) : q \in nobody} /\ nobody \subseteq DOMAIN nameOf
        /\ \A q \in nobody : whose'[idOf'[q]] = q
    BY <2>3
  <2> DEFINE only == {p}
  <2>5. /\ \A q \in DOMAIN nameOf : idOf[q] <= idOf'[q] /\ (q \notin only => idOf'[q] = idOf[q])
        /\ \A q \in only, k \in DOMAIN table : mintedFor[k] = q => table[k].name = nameOf[q]
    BY <2>2, <1>6
  <2> HIDE DEF nobody, only
  <2>6. Issued(table, mintedFor, whose, whose', idOf, idOf', nameOf, kids, kids, none, only, nobody)
    BY <1>1, <1>3, <1>7, <1>9, <2>1, <2>4, <2>5 DEF Issued
  <2> QED BY <2>6, LogInIdentity
<1>11. none \union kids = kids
  BY DEF none
<1> QED BY <1>10, <1>11 DEF kids

\* A name nobody has had replaces that of a pupil known by both marks.
LEMMA RespellKeepsIdentity ==
    ASSUME SchoolShapes, EntryShapes, IdentityInv, ~namesakes,
           NEW p \in Pupils, NEW name \in 1 .. MaxNames, Respell(p, name)
    PROVE  /\ Identity(table, mintedFor, whose, idOf, nameOf', Range(client) \union Range(heard))
           /\ Earlier(Range(heard), Range(client), whose, nameOf') /\ IsInjective(nameOf')
<1> DEFINE kids == Range(client) \union Range(heard)
<1>1. /\ Known(table, mintedFor, whose, nameOf, kids) /\ DOMAIN nameOf = Pupils
      /\ idOf \in [Pupils -> Nat] /\ nameOf' = [nameOf EXCEPT ![p] = name]
      /\ name \notin Range(nameOf) /\ \A k \in DOMAIN table : table[k].name # name
  BY KnownIs DEF Respell
<1>2. DOMAIN nameOf' = Pupils /\ nameOf'[p] = name /\ \A q \in Pupils \ {p} : nameOf'[q] = nameOf[q]
  BY <1>1
<1>3. \A q \in Pupils : nameOf[q] # name
  BY <1>1 DEF Range
<1>4. /\ Identity(table, mintedFor, whose, idOf, nameOf, kids) /\ IsInjective(nameOf)
      /\ Earlier(Range(heard), Range(client), whose, nameOf)
  BY DEF IdentityInv
<1>5. PICK r \in DOMAIN table : mintedFor[r] = p
  BY DEF Respell, Recorded
<1>6. \A k \in DOMAIN table : mintedFor[k] = p => k = r
  BY <1>1, <1>4, <1>5 DEF Identity, OwnRecords, IsInjective, Known
<1>7. table[r].name = nameOf[p] /\ table[r].id = idOf[p]
  BY <1>5 DEF Respell, Recorded, NameKnown, IdKnown
<1>8. \A c \in kids : whose[c.id] \in Pupils /\ c.id \in Nat
  BY <1>1 DEF Known
<1>9. ASSUME NEW c \in kids, whose[c.id] = p PROVE c.name = table[r].name /\ c.id = table[r].id
  <2>1. c.name = table[r].name
    BY <1>4, <1>6, <1>7, <1>9 DEF Identity, NamesKept
  <2>2. table[r].id <= c.id /\ c.id <= idOf[p]
    BY <1>4, <1>5, <1>9 DEF Identity, Newer
  <2>3. c.id = table[r].id
    BY <2>2, <1>1, <1>7, <1>8
  <2> QED BY <2>1, <2>3
<1> HIDE DEF kids
<1>10. IsInjective(nameOf')
  BY <1>2, <1>3, <1>4, <1>1 DEF IsInjective
<1>11. OwnNames(table, mintedFor, nameOf')
  BY <1>1, <1>2, <1>4 DEF Identity, OwnNames
<1>12. NamesKept(table, mintedFor, whose, nameOf', kids)
  <2> SUFFICES ASSUME NEW c \in kids
               PROVE  \/ c.name = nameOf'[whose[c.id]]
                      \/ \E k \in DOMAIN table : mintedFor[k] = whose[c.id] /\ table[k].name = c.name
    BY DEF NamesKept
  <2>1. CASE whose[c.id] = p
    BY <2>1, <1>5, <1>9
  <2>2. CASE whose[c.id] # p
    BY <2>2, <1>2, <1>4, <1>8 DEF Identity, NamesKept
  <2> QED BY <2>1, <2>2
<1>13. OneMark(table, mintedFor, whose, idOf, nameOf', kids)
  <2> SUFFICES ASSUME NEW k \in DOMAIN table
               PROVE  \/ SameName(table[k], mintedFor[k], whose, nameOf', kids)
                      \/ SameId(table[k], mintedFor[k], whose, idOf, kids)
    BY DEF OneMark
  <2>1. CASE mintedFor[k] = p
    <3>1. k = r
      BY <2>1, <1>6
    <3> QED BY <2>1, <3>1, <1>7, <1>9 DEF SameId
  <2>2. CASE mintedFor[k] # p
    <3>1. nameOf'[mintedFor[k]] = nameOf[mintedFor[k]]
      BY <2>2, <1>1, <1>2 DEF Known
    <3> QED BY <3>1, <1>4 DEF Identity, OneMark, SameName, SameId
  <2> QED BY <2>1, <2>2
<1>14. Earlier(Range(heard), Range(client), whose, nameOf')
  <2> SUFFICES ASSUME NEW h \in Range(heard), NEW c \in Range(client), whose[h.id] = whose[c.id]
               PROVE  h.id <= c.id /\ (c.name = h.name \/ c.name = nameOf'[whose[c.id]])
    BY DEF Earlier
  <2>1. h \in kids /\ c \in kids
    BY DEF kids
  <2>2. CASE whose[c.id] = p
    <3>1. h.name = c.name /\ h.id = c.id /\ c.id \in Nat
      BY <2>1, <2>2, <1>8, <1>9
    <3> QED BY <3>1
  <2>3. CASE whose[c.id] # p
    BY <2>1, <2>3, <1>2, <1>4, <1>8 DEF Earlier
  <2> QED BY <2>2, <2>3
<1>15. Identity(table, mintedFor, whose, idOf, nameOf', kids)
  BY <1>4, <1>11, <1>12, <1>13 DEF Identity
<1> QED BY <1>10, <1>14, <1>15 DEF kids

\* A step of the school touches nothing of the entry; the client may have heard
\* another roster, which is noted while facts are being loaded.
SchoolStep ==
    /\ UNCHANGED <<entryVars, phase, announced, wanted, heard, students, keys, keysEver, heldVars,
                   devices, namesakes>>
    /\ SchoolShapes' /\ SchoolInv' /\ Prolongs(whose, whose')
    /\ DistinctPupils(client', whose')
    /\ phase = "down" => client' = <<>>
    /\ caught => caught'
    /\ (phase = "loading" /\ ~caught') => client' = client
    /\ ~namesakes =>
          /\ IsInjective(nameOf')
          /\ Identity(table, mintedFor, whose', idOf', nameOf', Range(client') \union Range(heard))
          /\ Earlier(Range(heard), Range(client'), whose', nameOf')

\* A step that only the school takes, or a login between two readings.
LEMMA SchoolStepKeeps ==
    ASSUME RosterInv, SchoolStep
    PROVE  RosterInv'
<1>1. /\ UNCHANGED <<table, mintedFor, selected>> /\ UNCHANGED <<phase, announced, wanted, heard>>
      /\ UNCHANGED <<students, keys, keysEver>> /\ UNCHANGED <<data, memory, saved>>
      /\ devices' = devices /\ namesakes' = namesakes
      /\ phase = "down" => client' = <<>>
      /\ SchoolShapes' /\ SchoolInv' /\ Prolongs(whose, whose') /\ DistinctPupils(client', whose')
      /\ caught => caught'
      /\ (phase = "loading" /\ ~caught') => client' = client
  BY DEF SchoolStep, entryVars, heldVars
<1>2. /\ SchoolShapes /\ EntryShapes /\ HeldShapes /\ SchoolInv /\ DistinctInv /\ IdentityInv
      /\ OwnerInv /\ RowsInv
  BY DEF RosterInv, Shapes
<1>3. /\ DOMAIN whose \subseteq DOMAIN whose' /\ \A i \in DOMAIN whose : whose'[i] = whose[i]
      /\ \A s \in Seq(Record) : s \in Seq(Record')
      /\ \A s \in Seq(DOMAIN whose) : s \in Seq(DOMAIN whose')
  BY <1>1, GrowIs DEF Prolongs
<1>4. EntryShapes'
  BY <1>1, <1>2, <1>3 DEF EntryShapes
<1>5. HeldShapes'
  BY <1>1, <1>2, <1>3 DEF HeldShapes
<1>6. DistinctInv'
  <2>1. \A i \in DOMAIN wanted : wanted[i] \in DOMAIN whose
    BY <1>2 DEF EntryShapes
  <2>2. \A i, j \in DOMAIN wanted : whose'[wanted[i]] = whose'[wanted[j]] => i = j
    BY <2>1, <1>2, <1>3 DEF DistinctInv
  <2>3. (phase = "loading" /\ ~caught') =>
           /\ Range(wanted) \subseteq Ids(client')
           /\ \A i \in DOMAIN heard : heard[i].id = wanted[i]
    BY <1>1, <1>2 DEF DistinctInv
  <2>4. ~(namesakes /\ caught') => IsInjective(keys) /\ DistinctIds(table)
    BY <1>1, <1>2 DEF DistinctInv
  <2> QED BY <1>1, <2>2, <2>3, <2>4 DEF DistinctInv
<1>7. IdentityInv'
  <2> SUFFICES ASSUME ~namesakes
               PROVE  /\ IsInjective(nameOf')
                      /\ Identity(table, mintedFor, whose', idOf', nameOf',
                                  Range(client') \union Range(heard))
                      /\ Earlier(Range(heard), Range(client'), whose', nameOf')
                      /\ \A i \in DOMAIN heard : whose'[heard[i].id] = whose'[wanted[i]]
    BY <1>1 DEF IdentityInv
  <2>1. ASSUME NEW i \in DOMAIN heard PROVE whose'[heard[i].id] = whose'[wanted[i]]
    <3>1. heard \in Seq(Record) /\ wanted \in Seq(DOMAIN whose) /\ Len(heard) <= Len(wanted)
      BY <1>2 DEF EntryShapes
    <3>2. i \in DOMAIN wanted /\ wanted[i] \in DOMAIN whose
      BY <3>1
    <3>3. heard[i].id \in DOMAIN whose
      <4>1. \A r \in Record : r.id \in DOMAIN whose
        BY DEF Record
      <4> QED BY <4>1, <3>1
    <3>4. whose[heard[i].id] = whose[wanted[i]]
      BY <1>2 DEF IdentityInv
    <3> QED BY <3>2, <3>3, <3>4, <1>3
  <2> QED BY <2>1 DEF SchoolStep
<1>8. OwnerInv'
  <2>1. DOMAIN keysEver \subseteq DOMAIN whose /\ DOMAIN data \subseteq DOMAIN whose
        /\ DOMAIN memory \subseteq DOMAIN whose
    BY <1>2 DEF HeldShapes
  <2> QED BY <2>1, <1>1, <1>2, <1>3 DEF OwnerInv
<1>9. RowsInv'
  BY <1>1, <1>2, <1>3 DEF RowsInv, OwnRow, Rows
<1> QED BY <1>1, <1>4, <1>5, <1>6, <1>7, <1>8, <1>9 DEF RosterInv, Shapes

\* A unit of work logs in again, while the facts are being loaded perhaps.
LEMMA ReloginKeeps ==
    ASSUME RosterInv, NEW rotated \in SUBSET Pupils, Relogin(rotated)
    PROVE  RosterInv'
<1>1. SchoolShapes /\ EntryShapes /\ SchoolInv /\ IdentityInv /\ LogIn(rotated) /\ phase # "down"
      /\ \A p \in rotated : NameKnown(p)
  BY DEF RosterInv, Shapes, Relogin
<1>2. /\ UNCHANGED <<entryVars, heldVars, devices>> /\ UNCHANGED accountVars
      /\ UNCHANGED <<enrolled, nameOf, namesakes>>
      /\ caught' = (caught \/ (phase = "loading" /\ client' # client))
  BY DEF Relogin, LogIn
<1>3. /\ SchoolShapes' /\ SchoolInv' /\ Prolongs(whose, whose') /\ DistinctPupils(client', whose')
  BY <1>1, LogInIs
<1>4. ASSUME ~namesakes
      PROVE  /\ IsInjective(nameOf')
             /\ Identity(table, mintedFor, whose', idOf', nameOf', Range(client') \union Range(heard))
             /\ Earlier(Range(heard), Range(client'), whose', nameOf')
  <2>1. IsInjective(nameOf) /\ nameOf' = nameOf
    BY <1>1, <1>2, <1>4 DEF IdentityInv
  <2>2. /\ Identity(table, mintedFor, whose', idOf', nameOf, Range(client') \union Range(heard))
        /\ Earlier(Range(heard), Range(client'), whose', nameOf)
    BY <1>1, <1>4, LogInKeepsIdentity
  <2> QED BY <2>1, <2>2
<1>5. SchoolStep
  BY <1>1, <1>2, <1>3, <1>4 DEF SchoolStep, accountVars
<1> QED BY <1>5, SchoolStepKeeps

\* A pupil is enrolled: nobody has heard of it yet.
LEMMA EnrolKeeps ==
    ASSUME RosterInv, NEW p \in Pupils, Enrol(p)
    PROVE  RosterInv'
<1>1. SchoolShapes /\ EntryShapes /\ SchoolInv /\ IdentityInv /\ DistinctInv
  BY DEF RosterInv, Shapes
<1>2. /\ enrolled' = enrolled \union {p} /\ whose' = Append(whose, p)
      /\ idOf' = [idOf EXCEPT ![p] = Len(whose) + 1]
      /\ UNCHANGED <<nameOf, namesakes, caught, client>> /\ UNCHANGED <<entryVars, heldVars, devices>>
      /\ UNCHANGED accountVars
  BY DEF Enrol
<1>3. /\ whose \in Seq(Pupils) /\ whose' \in Seq(Pupils) /\ Len(whose) \in Nat
      /\ DOMAIN whose = 1 .. Len(whose) /\ DOMAIN whose' = 1 .. Len(whose) + 1
      /\ \A i \in 1 .. Len(whose) : whose'[i] = whose[i]
      /\ whose'[Len(whose) + 1] = p
  BY <1>1, <1>2 DEF SchoolShapes
<1>4. Prolongs(whose, whose')
  BY <1>3 DEF Prolongs
<1>5. SchoolShapes'
  <2>1. idOf' \in [Pupils -> DOMAIN whose' \union {NoChild}]
    BY <1>1, <1>2, <1>3 DEF SchoolShapes
  <2>2. client \in Seq(Record')
    BY <1>1, <1>4, GrowIs DEF SchoolShapes
  <2> QED BY <1>1, <1>2, <1>3, <2>1, <2>2 DEF SchoolShapes
<1>6. SchoolInv'
  <2> SUFFICES ASSUME NEW q \in Pupils
               PROVE  /\ q \in enrolled' => idOf'[q] # NoChild
                      /\ idOf'[q] # NoChild => whose'[idOf'[q]] = q
    BY DEF SchoolInv
  <2>1. CASE q = p
    BY <2>1, <1>1, <1>2, <1>3 DEF SchoolShapes, NoChild
  <2>2. CASE q # p
    <3>1. idOf'[q] = idOf[q] /\ idOf[q] \in DOMAIN whose \union {NoChild}
      BY <2>2, <1>1, <1>2 DEF SchoolShapes
    <3> QED BY <2>2, <3>1, <1>1, <1>2, <1>3 DEF SchoolInv
  <2> QED BY <2>1, <2>2
<1>7. DistinctPupils(client', whose')
  <2>1. \A i \in DOMAIN client : client[i].id \in DOMAIN whose
    <3>1. client \in Seq(Record) /\ \A r \in Record : r.id \in DOMAIN whose
      BY <1>1 DEF SchoolShapes, Record
    <3> QED BY <3>1
  <2>2. \A i \in DOMAIN client : whose'[client[i].id] = whose[client[i].id]
    BY <2>1, <1>3
  <2> QED BY <2>2, <1>1, <1>2 DEF DistinctInv, DistinctPupils
<1>8. ASSUME ~namesakes
      PROVE  /\ IsInjective(nameOf')
             /\ Identity(table, mintedFor, whose', idOf', nameOf', Range(client') \union Range(heard))
             /\ Earlier(Range(heard), Range(client'), whose', nameOf')
  <2>1. Identity(table, mintedFor, whose', idOf', nameOf, Range(client) \union Range(heard))
    BY <1>1, <1>8, EnrolKeepsIdentity
  <2>2. IsInjective(nameOf) /\ Earlier(Range(heard), Range(client), whose, nameOf)
    BY <1>1, <1>8 DEF IdentityInv
  <2>3. \A c \in Range(client) \union Range(heard) : whose'[c.id] = whose[c.id]
    <3>1. \A c \in Range(client) \union Range(heard) : c.id \in DOMAIN whose
      BY <1>1, KnownIs DEF Known
    <3> QED BY <3>1, <1>3
  <2>4. Earlier(Range(heard), Range(client), whose', nameOf)
    BY <2>2, <2>3 DEF Earlier
  <2> QED BY <2>1, <2>2, <2>4, <1>2
<1>9. SchoolStep
  <2>1. phase = "down" => client' = <<>>
    BY <1>1, <1>2 DEF EntryShapes
  <2> QED BY <2>1, <1>2, <1>4, <1>5, <1>6, <1>7, <1>8 DEF SchoolStep, accountVars
<1> QED BY <1>9, SchoolStepKeeps

\* A pupil leaves: what was announced of it stays.
LEMMA DepartKeeps ==
    ASSUME RosterInv, NEW p \in Pupils, Depart(p)
    PROVE  RosterInv'
<1>1. SchoolShapes /\ EntryShapes /\ SchoolInv /\ IdentityInv /\ DistinctInv
  BY DEF RosterInv, Shapes
<1>2. /\ enrolled' = enrolled \ {p} /\ UNCHANGED <<idOf, nameOf, whose, namesakes, caught, client>>
      /\ UNCHANGED <<entryVars, heldVars, devices>> /\ UNCHANGED accountVars
  BY DEF Depart
<1>3. SchoolShapes' /\ SchoolInv'
  BY <1>1, <1>2 DEF SchoolShapes, SchoolInv, Record
<1>4. Prolongs(whose, whose')
  BY <1>2 DEF Prolongs
<1>5. SchoolStep
  <2>1. DistinctPupils(client', whose') /\ (phase = "down" => client' = <<>>)
    BY <1>1, <1>2 DEF DistinctInv, EntryShapes
  <2>2. ~namesakes =>
           /\ IsInjective(nameOf')
           /\ Identity(table, mintedFor, whose', idOf', nameOf', Range(client') \union Range(heard))
           /\ Earlier(Range(heard), Range(client'), whose', nameOf')
    BY <1>1, <1>2 DEF IdentityInv
  <2> QED BY <2>1, <2>2, <1>2, <1>3, <1>4 DEF SchoolStep, accountVars
<1> QED BY <1>5, SchoolStepKeeps

\* A name changes: what is recorded and known is still under the old one.
LEMMA RespellKeeps ==
    ASSUME RosterInv, NEW p \in Pupils, NEW name \in 1 .. MaxNames, Respell(p, name)
    PROVE  RosterInv'
<1>1. SchoolShapes /\ EntryShapes /\ SchoolInv /\ IdentityInv /\ DistinctInv
  BY DEF RosterInv, Shapes
<1>2. /\ nameOf' = [nameOf EXCEPT ![p] = name]
      /\ UNCHANGED <<enrolled, idOf, whose, namesakes, caught, client>>
      /\ UNCHANGED <<entryVars, heldVars, devices>> /\ UNCHANGED accountVars
  BY DEF Respell
<1>3. SchoolShapes' /\ SchoolInv'
  <2>1. nameOf' \in [Pupils -> 1 .. MaxNames]
    BY <1>1, <1>2 DEF SchoolShapes
  <2> QED BY <2>1, <1>1, <1>2 DEF SchoolShapes, SchoolInv, Record
<1>4. Prolongs(whose, whose')
  BY <1>2 DEF Prolongs
<1>5. SchoolStep
  <2>1. DistinctPupils(client', whose') /\ (phase = "down" => client' = <<>>)
    BY <1>1, <1>2 DEF DistinctInv, EntryShapes
  <2>2. ASSUME ~namesakes
        PROVE  /\ IsInjective(nameOf')
               /\ Identity(table, mintedFor, whose', idOf', nameOf', Range(client') \union Range(heard))
               /\ Earlier(Range(heard), Range(client'), whose', nameOf')
    <3>1. /\ Identity(table, mintedFor, whose, idOf, nameOf', Range(client) \union Range(heard))
          /\ Earlier(Range(heard), Range(client), whose, nameOf') /\ IsInjective(nameOf')
      BY <1>1, <2>2, RespellKeepsIdentity
    <3> QED BY <3>1, <1>2
  <2> QED BY <2>1, <2>2, <1>2, <1>3, <1>4 DEF SchoolStep, accountVars
<1> QED BY <1>5, SchoolStepKeeps

-----------------------------------------------------------------------------
(* Set-up and unload.                                                      *)

\* Distinct identifiers get distinct keys, and no second record.
LEMMA AdoptDistinct ==
    ASSUME SchoolShapes, EntryShapes, DistinctInv, ~(namesakes /\ caught),
           Prolongs(whose, whose'), whose' \in Seq(Pupils),
           NEW children \in Seq(Record'), AdoptPairing(children, whose'), DistinctIds(children)
    PROVE  IsInjective(keys') /\ DistinctIds(table')
<1> DEFINE P == Pair(table, children)
<1>1. /\ table' = P.table /\ table \in Seq(Record') /\ keys' = P.keys
      /\ Paired(table, children, P)
  BY AdoptIs
<1>2. DistinctIds(table)
  BY DEF DistinctInv
<1> HIDE DEF P
<1>3. DistinctIds(P.table) /\ IsInjective(P.keys)
  BY <1>1, <1>2, PairDistinct
<1> QED BY <1>1, <1>3

\* A set-up: a login, the pairing of what it announces, the saved snapshots.
LEMMA SetUpKeeps ==
    ASSUME RosterInv, NEW rotated \in SUBSET Pupils, SetUp(rotated)
    PROVE  RosterInv'
<1> DEFINE children == Followed(client')
<1>1. /\ SchoolShapes /\ EntryShapes /\ HeldShapes /\ SchoolInv /\ DistinctInv /\ IdentityInv
      /\ OwnerInv /\ RowsInv
  BY DEF RosterInv, Shapes
<1>2. /\ phase = "down" /\ LogIn(rotated) /\ \A p \in rotated : NameKnown(p)
      /\ announced' = Ids(client') /\ AdoptPairing(children, whose')
      /\ keysEver' = keys' /\ data' = Restored /\ memory' = Empty /\ phase' = "idle"
      /\ UNCHANGED <<wanted, heard, selected, saved>> /\ UNCHANGED <<enrolled, nameOf, namesakes>>
      /\ caught => caught'
  BY DEF SetUp, LogIn
<1>3. /\ SchoolShapes' /\ SchoolInv' /\ Prolongs(whose, whose') /\ DistinctPupils(client', whose')
  BY <1>1, <1>2, LogInIs
<1>4. whose' \in Seq(Pupils) /\ client' \in Seq(Record')
  BY <1>3 DEF SchoolShapes
<1>5. /\ children \in Seq(Record') /\ Range(children) \subseteq Range(client')
      /\ DistinctPupils(children, whose')
  BY <1>3, <1>4, FollowedIs
<1>6. DistinctIds(children)
  BY <1>5, PupilsTellIds
<1> HIDE DEF children
<1>7. /\ table' \in Seq(Record') /\ table \in Seq(Record') /\ DOMAIN table \subseteq DOMAIN table'
      /\ mintedFor' \in Seq(Pupils) /\ Len(mintedFor') = Len(table') /\ Prolongs(mintedFor, mintedFor')
      /\ keys' \in [Range(students') -> DOMAIN table']
      /\ students' \in Seq(DOMAIN whose')
  BY <1>1, <1>2, <1>3, <1>4, <1>5, AdoptIs
<1>8. /\ DOMAIN whose \subseteq DOMAIN whose' /\ \A i \in DOMAIN whose : whose'[i] = whose[i]
      /\ \A s \in Seq(DOMAIN whose) : s \in Seq(DOMAIN whose')
      /\ heard = <<>> /\ \A r \in Record' : r.id \in DOMAIN whose'
  BY <1>1, <1>2, <1>3, GrowIs DEF Prolongs, EntryShapes, Record
<1>9. EntryShapes'
  <2>1. announced' \subseteq DOMAIN whose'
    BY <1>2, <1>4, <1>8 DEF Ids
  <2>2. selected' \subseteq DOMAIN whose' /\ wanted' \in Seq(DOMAIN whose') /\ heard' \in Seq(Record')
        /\ heard' = <<>> /\ Len(heard') <= Len(wanted')
    BY <1>1, <1>2, <1>8 DEF EntryShapes
  <2> QED BY <1>2, <1>7, <2>1, <2>2 DEF EntryShapes
<1>10. DOMAIN keys' = Range(students') /\ Range(students') \subseteq DOMAIN whose'
  BY <1>7 DEF Range
<1>11. HeldShapes'
  <2>1. DOMAIN data' \subseteq DOMAIN keys' /\ DOMAIN memory' = {}
    BY <1>2 DEF Restored, Empty
  <2>2. DOMAIN saved' \subseteq DOMAIN table'
    BY <1>1, <1>2, <1>7 DEF HeldShapes
  <2> QED BY <1>2, <1>7, <1>10, <2>1, <2>2 DEF HeldShapes
<1>12. DistinctInv'
  <2>1. \A i \in DOMAIN wanted : wanted[i] \in DOMAIN whose
    BY <1>1 DEF EntryShapes
  <2>2. \A i, j \in DOMAIN wanted : whose'[wanted[i]] = whose'[wanted[j]] => i = j
    BY <2>1, <1>1, <1>8 DEF DistinctInv
  <2>3. ASSUME ~(namesakes /\ caught') PROVE IsInjective(keys') /\ DistinctIds(table')
    BY <2>3, <1>1, <1>2, <1>3, <1>4, <1>5, <1>6, AdoptDistinct
  <2> QED BY <1>2, <1>3, <2>2, <2>3 DEF DistinctInv
<1>13. ASSUME ~namesakes
       PROVE  /\ Identity(table', mintedFor', whose', idOf', nameOf, Range(client'))
              /\ \A id \in DOMAIN keys' : mintedFor'[keys'[id]] = whose'[id]
              /\ IsInjective(nameOf)
  <2> DEFINE kids == Range(client') \union Range(heard)
             C == Range(client')
  <2>1. Identity(table, mintedFor, whose', idOf', nameOf, kids) /\ IsInjective(nameOf)
    BY <1>1, <1>2, <1>13, LogInKeepsIdentity DEF IdentityInv
  <2>2. Known(table, mintedFor, whose', nameOf, kids)
    BY <1>1, <1>2, <1>3, KnownLater
  <2>3. Range(children) \subseteq kids /\ C \in SUBSET kids
    BY <1>5
  <2>4. Earlier(Range(children), C, whose', nameOf)
    <3>1. ASSUME NEW h \in Range(client'), NEW c \in Range(client'), whose'[h.id] = whose'[c.id]
          PROVE  h = c
      BY <3>1, <1>3 DEF DistinctPupils, Range
    <3>2. \A c \in Range(client') : c.id \in Nat
      BY <2>2 DEF Known
    <3> QED BY <3>1, <3>2, <1>5 DEF Earlier
  <2> HIDE DEF kids, C
  <2>5. /\ Identity(table', mintedFor', whose', idOf', nameOf, C)
        /\ \A id \in DOMAIN keys' : mintedFor'[keys'[id]] = whose'[id]
    BY <1>1, <1>2, <1>3, <1>4, <1>5, <2>1, <2>2, <2>3, <2>4, AdoptIdentity
  <2> QED BY <2>1, <2>5 DEF C
<1>14. IdentityInv'
  <2> SUFFICES ASSUME ~namesakes
               PROVE  /\ IsInjective(nameOf')
                      /\ Identity(table', mintedFor', whose', idOf', nameOf',
                                  Range(client') \union Range(heard'))
                      /\ Earlier(Range(heard'), Range(client'), whose', nameOf')
                      /\ \A i \in DOMAIN heard' : whose'[heard'[i].id] = whose'[wanted'[i]]
    BY <1>2 DEF IdentityInv
  <2>1. heard' = <<>> /\ Range(heard') = {} /\ nameOf' = nameOf
    BY <1>2, <1>8 DEF Range
  <2>2. Range(client') \union Range(heard') = Range(client')
    BY <2>1
  <2>3. Earlier(Range(heard'), Range(client'), whose', nameOf')
    BY <2>1 DEF Earlier
  <2>4. Identity(table', mintedFor', whose', idOf', nameOf, Range(client') \union Range(heard'))
    BY <2>2, <1>13, Zenon
  <2>5. \A i \in DOMAIN heard' : whose'[heard'[i].id] = whose'[wanted'[i]]
    BY <2>1
  <2> QED BY <2>1, <2>3, <2>4, <2>5, <1>13
<1>15. OwnerInv'
  <2> SUFFICES ASSUME ~namesakes
               PROVE  /\ \A id \in DOMAIN keysEver' : mintedFor'[keysEver'[id]] = whose'[id]
                      /\ \A id \in DOMAIN data' : data'[id] = whose'[id]
                      /\ \A id \in DOMAIN memory' : memory'[id] = whose'[id]
                      /\ \A k \in DOMAIN saved' : saved'[k] = mintedFor'[k]
    BY <1>2 DEF OwnerInv
  <2>1. DOMAIN mintedFor = DOMAIN table
    BY <1>1 DEF EntryShapes
  <2>2. \A k \in DOMAIN saved : saved[k] = mintedFor'[k]
    BY <2>1, <1>1, <1>7 DEF OwnerInv, HeldShapes, Prolongs
  <2>3. \A id \in DOMAIN data' : data'[id] = whose'[id]
    BY <2>2, <1>2, <1>13 DEF Restored
  <2> QED BY <2>2, <2>3, <1>2, <1>13 DEF Empty
<1>16. RowsInv'
  BY <1>1, <1>2, <1>3, <1>4, <1>5, DevicesAre
<1> QED BY <1>3, <1>9, <1>11, <1>12, <1>14, <1>15, <1>16 DEF RosterInv, Shapes

\* An unload: the snapshots pass from the identifiers to the keys.
LEMMA UnloadKeeps ==
    ASSUME RosterInv, Unload
    PROVE  RosterInv'
<1>1. /\ SchoolShapes /\ EntryShapes /\ HeldShapes /\ SchoolInv /\ DistinctInv /\ IdentityInv
      /\ OwnerInv /\ RowsInv
  BY DEF RosterInv, Shapes
<1>2. /\ phase = "idle" /\ phase' = "down"
      /\ saved' = [k \in {keys[s] : s \in DOMAIN data \intersect DOMAIN keys} |->
                     data[CHOOSE s \in DOMAIN data \intersect DOMAIN keys : keys[s] = k]]
      /\ data' = Empty /\ memory' = Empty
      /\ announced' = {} /\ students' = <<>> /\ keys' = Empty /\ keysEver' = Empty
      /\ client' = <<>>
      /\ UNCHANGED <<enrolled, idOf, nameOf, whose, namesakes, caught>>
      /\ UNCHANGED <<table, mintedFor, selected>> /\ UNCHANGED <<wanted, heard, devices>>
  BY DEF Unload, schoolVars, entryVars
<1>3. heard = <<>> /\ heard' = <<>> /\ Range(heard') = {} /\ Range(client') = {}
  BY <1>1, <1>2 DEF EntryShapes, Range
<1>4. SchoolShapes' /\ SchoolInv'
  BY <1>1, <1>2 DEF SchoolShapes, SchoolInv, Record
<1>5. EntryShapes'
  BY <1>1, <1>2 DEF EntryShapes, Record
<1>6. HeldShapes'
  <2>1. keys' \in [Range(students') -> DOMAIN table'] /\ DOMAIN keysEver' = {} /\ DOMAIN keys' = {}
        /\ keysEver' \in [DOMAIN keysEver' -> DOMAIN table']
        /\ DOMAIN data' = {} /\ DOMAIN memory' = {}
    BY <1>2 DEF Empty, Range
  <2>2. DOMAIN saved' \subseteq DOMAIN table'
    BY <1>1, <1>2 DEF HeldShapes
  <2> QED BY <2>1, <2>2 DEF HeldShapes
<1>7. DistinctInv'
  BY <1>1, <1>2 DEF DistinctInv, DistinctPupils, IsInjective, Empty
<1>8. IdentityInv'
  <2> SUFFICES ASSUME ~namesakes
               PROVE  /\ Identity(table, mintedFor, whose, idOf, nameOf,
                                  Range(client') \union Range(heard'))
                      /\ Earlier(Range(heard'), Range(client'), whose, nameOf)
                      /\ \A i \in DOMAIN heard' : whose[heard'[i].id] = whose[wanted'[i]]
    BY <1>1, <1>2 DEF IdentityInv
  <2>1. Earlier(Range(heard'), Range(client'), whose, nameOf)
    BY <1>3 DEF Earlier
  <2>2. Identity(table, mintedFor, whose, idOf, nameOf, Range(client) \union Range(heard))
    BY <1>1 DEF IdentityInv
  <2>3. Identity(table, mintedFor, whose, idOf, nameOf, {})
    BY <2>2 DEF Identity, NamesKept, Newer, OneMark, SameName, SameId
  <2>4. Range(client') \union Range(heard') = {}
    BY <1>3
  <2>5. Identity(table, mintedFor, whose, idOf, nameOf, Range(client') \union Range(heard'))
    BY <2>3, <2>4, Zenon
  <2>6. \A i \in DOMAIN heard' : whose[heard'[i].id] = whose[wanted'[i]]
    BY <1>3
  <2> QED BY <2>1, <2>5, <2>6
<1>9. OwnerInv'
  <2> SUFFICES ASSUME ~namesakes, NEW k \in DOMAIN saved' PROVE saved'[k] = mintedFor[k]
    BY <1>2 DEF OwnerInv, Empty
  <2> DEFINE S == {s \in DOMAIN data \intersect DOMAIN keys : keys[s] = k}
             s1 == CHOOSE s \in DOMAIN data \intersect DOMAIN keys : keys[s] = k
  <2>1. \E s \in DOMAIN data \intersect DOMAIN keys : keys[s] = k
    BY <1>2
  <2>2. s1 \in DOMAIN data \intersect DOMAIN keys /\ keys[s1] = k
    BY <2>1
  <2>3. saved'[k] = data[s1]
    BY <1>2
  <2> HIDE DEF s1
  <2>4. keysEver[s1] = k /\ s1 \in DOMAIN keysEver
    BY <2>2, <1>1 DEF HeldShapes
  <2> QED BY <2>2, <2>3, <2>4, <1>1 DEF OwnerInv
<1>10. RowsInv'
  BY <1>1, <1>2 DEF RowsInv, OwnRow, Rows
<1> QED BY <1>4, <1>5, <1>6, <1>7, <1>8, <1>9, <1>10 DEF RosterInv, Shapes

-----------------------------------------------------------------------------
(* A batch: collections, then the adoption of what a login announced.      *)

\* A collection: what comes back is of the pupil it was asked for.
LEMMA CollectKeeps ==
    ASSUME RosterInv, NEW s, Collect(s)
    PROVE  RosterInv'
<1>1. /\ SchoolShapes /\ EntryShapes /\ HeldShapes /\ SchoolInv /\ DistinctInv /\ IdentityInv
      /\ OwnerInv /\ RowsInv /\ Shapes
  BY DEF RosterInv, Shapes
<1>2. /\ s \in Range(students) /\ LiveChild(s) # NoChild
      /\ data' = Bind(data, s, whose[LiveChild(s)]) /\ memory' = Bind(memory, s, whose[LiveChild(s)])
      /\ UNCHANGED <<enrolled, idOf, nameOf, whose, namesakes, caught>>
      /\ UNCHANGED <<table, mintedFor, selected>> /\ UNCHANGED <<client, saved, devices>>
      /\ UNCHANGED <<phase, announced, wanted, heard, students, keys, keysEver>>
  BY DEF Collect, schoolVars, entryVars, accountVars
<1>3. SchoolShapes' /\ SchoolInv' /\ EntryShapes'
  BY <1>1, <1>2 DEF SchoolShapes, SchoolInv, EntryShapes, Record
<1>4. HeldShapes'
  <2>1. s \in DOMAIN whose
    BY <1>1, <1>2 DEF EntryShapes, Range
  <2>2. DOMAIN data' = DOMAIN data \union {s} /\ DOMAIN memory' = DOMAIN memory \union {s}
    BY <1>2 DEF Bind
  <2> QED BY <1>1, <1>2, <2>1, <2>2 DEF HeldShapes
<1>5. DistinctInv' /\ IdentityInv' /\ RowsInv'
  BY <1>1, <1>2 DEF DistinctInv, IdentityInv, RowsInv, OwnRow, Rows
<1>6. OwnerInv'
  <2> SUFFICES ASSUME ~namesakes
               PROVE  /\ \A id \in DOMAIN data' : data'[id] = whose[id]
                      /\ \A id \in DOMAIN memory' : memory'[id] = whose[id]
    BY <1>1, <1>2 DEF OwnerInv
  <2>1. whose[LiveChild(s)] = whose[s]
    BY <1>1, <1>2, LiveChildOwner
  <2> QED BY <2>1, <1>1, <1>2 DEF OwnerInv, Bind
<1> QED BY <1>3, <1>4, <1>5, <1>6 DEF RosterInv, Shapes

\* A newcomer joins the selection.
LEMMA AdoptNewcomersKeeps ==
    ASSUME RosterInv, AdoptNewcomers
    PROVE  RosterInv'
<1>1. /\ SchoolShapes /\ EntryShapes /\ HeldShapes /\ SchoolInv /\ DistinctInv /\ IdentityInv
      /\ OwnerInv /\ RowsInv
  BY DEF RosterInv, Shapes
<1>2. /\ phase = "idle" /\ selected' = selected \union Newcomers /\ phase' = "opening"
      /\ UNCHANGED <<enrolled, idOf, nameOf, whose, namesakes, caught>>
      /\ UNCHANGED <<table, mintedFor, client, announced, wanted, heard, students, keys, keysEver>>
      /\ UNCHANGED <<data, memory, saved, devices>>
  BY DEF AdoptNewcomers, schoolVars, heldVars
<1>3. SchoolShapes' /\ SchoolInv' /\ HeldShapes'
  BY <1>1, <1>2 DEF SchoolShapes, SchoolInv, HeldShapes, Record
<1>4. EntryShapes'
  <2>1. Ids(client) \subseteq DOMAIN whose
    <3>1. client \in Seq(Record) /\ \A r \in Record : r.id \in DOMAIN whose
      BY <1>1 DEF SchoolShapes, Record
    <3> QED BY <3>1 DEF Ids
  <2> QED BY <1>1, <1>2, <2>1 DEF EntryShapes, Newcomers, Record
<1>5. DistinctInv' /\ IdentityInv' /\ RowsInv' /\ OwnerInv'
  BY <1>1, <1>2 DEF DistinctInv, IdentityInv, RowsInv, OwnRow, Rows, OwnerInv
<1> QED BY <1>3, <1>4, <1>5 DEF RosterInv, Shapes

\* The identifiers to load are those the client announces.
LEMMA OpenKeeps ==
    ASSUME RosterInv, Open
    PROVE  RosterInv'
<1> DEFINE children == Followed(client)
<1>1. /\ SchoolShapes /\ EntryShapes /\ HeldShapes /\ SchoolInv /\ DistinctInv /\ IdentityInv
      /\ OwnerInv /\ RowsInv
  BY DEF RosterInv, Shapes
<1>2. /\ phase = "opening" /\ announced' = Ids(client) /\ phase' = "loading"
      /\ wanted' = [i \in DOMAIN children |-> children[i].id]
      /\ UNCHANGED <<enrolled, idOf, nameOf, whose, namesakes, caught>>
      /\ UNCHANGED <<table, mintedFor, selected>>
      /\ UNCHANGED <<client, heard, students, keys, keysEver>>
      /\ UNCHANGED <<data, memory, saved, devices>>
  BY DEF Open, schoolVars, heldVars, entryVars
<1>3. /\ children \in Seq(Record) /\ Range(children) \subseteq Range(client)
      /\ DistinctPupils(children, whose) /\ client \in Seq(Record)
  BY <1>1, FollowedIs DEF SchoolShapes, DistinctInv
<1> HIDE DEF children
<1>4. heard = <<>>
  BY <1>1, <1>2 DEF EntryShapes
<1>5. SchoolShapes' /\ SchoolInv' /\ HeldShapes'
  BY <1>1, <1>2 DEF SchoolShapes, SchoolInv, HeldShapes, Record
<1>6. /\ \A r \in Record : r.id \in DOMAIN whose
      /\ \A c \in Range(children) : c.id \in Ids(client)
  BY <1>3 DEF Record, Range, Ids
<1>7. wanted' \in Seq(DOMAIN whose) /\ DOMAIN wanted' = DOMAIN children
  <2>1. DOMAIN children = 1 .. Len(children) /\ Len(children) \in Nat
    BY <1>3
  <2>2. \A i \in DOMAIN children : children[i].id \in DOMAIN whose
    BY <1>3, <1>6
  <2> QED BY <1>2, <2>1, <2>2
<1>8. EntryShapes'
  <2>1. announced' \subseteq DOMAIN whose
    BY <1>2, <1>3, <1>6 DEF Ids
  <2>2. Len(heard) <= Len(wanted')
    BY <1>4, <1>7
  <2> QED BY <1>1, <1>2, <1>4, <1>7, <2>1, <2>2 DEF EntryShapes, Record
<1>9. DistinctInv'
  <2>1. \A i, j \in DOMAIN wanted' : whose[wanted'[i]] = whose[wanted'[j]] => i = j
    BY <1>2, <1>3, <1>7 DEF DistinctPupils
  <2>2. Range(wanted') \subseteq Ids(client)
    BY <1>2, <1>6, <1>7 DEF Range
  <2> QED BY <1>1, <1>2, <1>4, <2>1, <2>2 DEF DistinctInv
<1>10. IdentityInv'
  <2> SUFFICES ASSUME ~namesakes PROVE \A i \in DOMAIN heard : whose[heard[i].id] = whose[wanted'[i]]
    BY <1>1, <1>2 DEF IdentityInv
  <2> QED BY <1>4
<1>11. OwnerInv' /\ RowsInv'
  BY <1>1, <1>2 DEF RowsInv, OwnRow, Rows, OwnerInv
<1> QED BY <1>5, <1>8, <1>9, <1>10, <1>11 DEF RosterInv, Shapes

\* The child that answers is one the client knows.
LEMMA FactsAre ==
    ASSUME SchoolShapes, EntryShapes, Answering # NoChild
    PROVE  Facts \in Range(client) /\ Facts.id = Answering /\ Facts \in Record
<1>1. Answering \in Ids(client)
  BY LiveChildIs DEF Answering
<1>2. \E c \in Range(client) : c.id = Answering
  BY <1>1 DEF Ids, Range
<1>3. Facts \in Range(client) /\ Facts.id = Answering
  BY <1>2 DEF Facts
<1>4. client \in Seq(Record)
  BY DEF SchoolShapes
<1> QED BY <1>3, <1>4 DEF Range

\* What is heard of the next child is of the pupil asked for, whom no other
\* child heard is, and not newer than what the client says of it.
LEMMA HeardIs ==
    ASSUME Shapes, DistinctInv, IdentityInv, OwnerInv, phase = "loading",
           Len(heard) < Len(wanted), Answering # NoChild
    PROVE  LET after == Append(heard, Facts)
           IN  /\ after \in Seq(Record) /\ Len(after) = Len(heard) + 1
               /\ Range(after) = Range(heard) \union {Facts}
               /\ ~caught => \A i \in DOMAIN after : after[i].id = wanted[i]
               /\ ~namesakes =>
                     /\ \A i \in DOMAIN after : whose[after[i].id] = whose[wanted[i]]
                     /\ Earlier(Range(after), Range(client), whose, nameOf)
<1> DEFINE n == Len(heard) + 1
           after == Append(heard, Facts)
<1>1. SchoolShapes /\ EntryShapes /\ HeldShapes
  BY DEF Shapes
<1>2. Facts \in Range(client) /\ Facts.id = Answering /\ Facts \in Record
  BY <1>1, FactsAre
<1>3. /\ heard \in Seq(Record) /\ wanted \in Seq(DOMAIN whose) /\ client \in Seq(Record)
      /\ n \in DOMAIN wanted
  BY <1>1 DEF EntryShapes, SchoolShapes
<1>4. /\ after \in Seq(Record) /\ Len(after) = n /\ DOMAIN after = 1 .. n /\ DOMAIN heard = 1 .. n - 1
      /\ after[n] = Facts /\ \A i \in 1 .. n - 1 : after[i] = heard[i]
  BY <1>2, <1>3
<1>5. n \in Nat /\ n > 0 /\ \A i \in 1 .. n : i = n \/ i \in 1 .. n - 1
  BY <1>3
<1> HIDE DEF after, n
<1>6. Range(after) = Range(heard) \union {Facts}
  BY <1>4, <1>5 DEF Range
<1>7. ASSUME ~caught, NEW i \in DOMAIN after PROVE after[i].id = wanted[i]
  <2>1. CASE i = n
    <3>1. wanted[n] \in Ids(client)
      BY <1>3, <1>7 DEF DistinctInv, Range
    <3>2. Answering = wanted[n]
      BY <3>1 DEF Answering, LiveChild, n
    <3> QED BY <3>2, <2>1, <1>2, <1>4
  <2>2. CASE i # n
    <3>1. i \in DOMAIN heard /\ after[i] = heard[i]
      BY <2>2, <1>4, <1>5
    <3> QED BY <3>1, <1>7 DEF DistinctInv
  <2> QED BY <2>1, <2>2
<1>8. ASSUME ~namesakes, NEW i \in DOMAIN after PROVE whose[after[i].id] = whose[wanted[i]]
  <2>1. CASE i = n
    <3>1. whose[Answering] = whose[wanted[n]]
      BY <1>8, LiveChildOwner DEF Answering, n
    <3> QED BY <3>1, <2>1, <1>2, <1>4
  <2>2. CASE i # n
    <3>1. i \in DOMAIN heard /\ after[i] = heard[i]
      BY <2>2, <1>4, <1>5
    <3> QED BY <3>1, <1>8 DEF IdentityInv
  <2> QED BY <2>1, <2>2
<1>9. ASSUME ~namesakes PROVE Earlier(Range(after), Range(client), whose, nameOf)
  <2> SUFFICES ASSUME NEW h \in Range(after), NEW c \in Range(client), whose[h.id] = whose[c.id]
               PROVE  h.id <= c.id /\ (c.name = h.name \/ c.name = nameOf[whose[c.id]])
    BY DEF Earlier
  <2>1. CASE h \in Range(heard)
    BY <2>1, <1>9 DEF IdentityInv, Earlier
  <2>2. CASE h = Facts
    <3>1. h = c
      BY <2>2, <1>2 DEF DistinctInv, DistinctPupils, Range
    <3>2. c.id \in Nat
      BY <1>1, KnownIs DEF Known
    <3> QED BY <3>1, <3>2
  <2> QED BY <2>1, <2>2, <1>6
<1> QED BY <1>4, <1>6, <1>7, <1>8, <1>9 DEF after, n

\* The facts of a child are in, whatever logins happened since the first.
LEMMA ReadFactsKeeps ==
    ASSUME RosterInv, ReadFacts
    PROVE  RosterInv'
<1>1. /\ SchoolShapes /\ EntryShapes /\ HeldShapes /\ SchoolInv /\ DistinctInv /\ IdentityInv
      /\ OwnerInv /\ RowsInv /\ Shapes
  BY DEF RosterInv, Shapes
<1>2. /\ phase = "loading" /\ Len(heard) + 1 < Len(wanted) /\ Answering # NoChild
      /\ heard' = Append(heard, Facts)
      /\ UNCHANGED <<enrolled, idOf, nameOf, whose, namesakes, caught>>
      /\ UNCHANGED <<table, mintedFor, selected>>
      /\ UNCHANGED <<phase, announced, wanted, client, students, keys, keysEver>>
      /\ UNCHANGED <<data, memory, saved, devices>>
  BY DEF ReadFacts, schoolVars, heldVars, entryVars
<1>3. Len(heard) \in Nat /\ Len(wanted) \in Nat /\ Len(heard) < Len(wanted)
  BY <1>1, <1>2 DEF EntryShapes
<1>4. /\ heard' \in Seq(Record) /\ Len(heard') = Len(heard) + 1
      /\ Range(heard') = Range(heard) \union {Facts}
      /\ ~caught => \A i \in DOMAIN heard' : heard'[i].id = wanted[i]
      /\ ~namesakes =>
            /\ \A i \in DOMAIN heard' : whose[heard'[i].id] = whose[wanted[i]]
            /\ Earlier(Range(heard'), Range(client), whose, nameOf)
  BY <1>1, <1>2, <1>3, HeardIs
<1>5. SchoolShapes' /\ SchoolInv' /\ HeldShapes'
  BY <1>1, <1>2 DEF SchoolShapes, SchoolInv, HeldShapes, Record
<1>6. EntryShapes'
  BY <1>1, <1>2, <1>3, <1>4 DEF EntryShapes, Record
<1>7. DistinctInv'
  BY <1>1, <1>2, <1>4 DEF DistinctInv
<1>8. IdentityInv'
  <2> SUFFICES ASSUME ~namesakes
               PROVE  Identity(table, mintedFor, whose, idOf, nameOf, Range(client) \union Range(heard'))
    BY <1>1, <1>2, <1>4 DEF IdentityInv
  <2>1. Range(client) \union Range(heard') = Range(client) \union Range(heard)
    BY <1>1, <1>2, <1>4, FactsAre
  <2>2. Identity(table, mintedFor, whose, idOf, nameOf, Range(client) \union Range(heard))
    BY <1>1 DEF IdentityInv
  <2> QED BY <2>1, <2>2, Zenon
<1>9. OwnerInv' /\ RowsInv'
  BY <1>1, <1>2 DEF RowsInv, OwnRow, Rows, OwnerInv
<1> QED BY <1>5, <1>6, <1>7, <1>8, <1>9 DEF RosterInv, Shapes

\* The reading fails: what was heard is dropped.
LEMMA ReadingFailsKeeps ==
    ASSUME RosterInv, ReadingFails
    PROVE  RosterInv'
<1>1. /\ SchoolShapes /\ EntryShapes /\ HeldShapes /\ SchoolInv /\ DistinctInv /\ IdentityInv
      /\ OwnerInv /\ RowsInv
  BY DEF RosterInv, Shapes
<1>2. /\ phase' = "idle" /\ wanted' = <<>> /\ heard' = <<>>
      /\ UNCHANGED <<enrolled, idOf, nameOf, whose, namesakes, caught>>
      /\ UNCHANGED <<table, mintedFor, selected>>
      /\ UNCHANGED <<client, announced, students, keys, keysEver>>
      /\ UNCHANGED <<data, memory, saved, devices>>
  BY DEF ReadingFails, schoolVars, heldVars, entryVars
<1>3. SchoolShapes' /\ SchoolInv' /\ HeldShapes'
  BY <1>1, <1>2 DEF SchoolShapes, SchoolInv, HeldShapes, Record
<1>4. EntryShapes'
  BY <1>1, <1>2 DEF EntryShapes, Record
<1>5. DistinctInv'
  BY <1>1, <1>2 DEF DistinctInv
<1>6. IdentityInv'
  <2> SUFFICES ASSUME ~namesakes
               PROVE  /\ Identity(table, mintedFor, whose, idOf, nameOf, Range(client) \union Range(heard'))
                      /\ Earlier(Range(heard'), Range(client), whose, nameOf)
                      /\ \A i \in DOMAIN heard' : whose[heard'[i].id] = whose[wanted'[i]]
    BY <1>1, <1>2 DEF IdentityInv
  <2>1. Identity(table, mintedFor, whose, idOf, nameOf, Range(client) \union Range(heard))
    BY <1>1 DEF IdentityInv
  <2>2. DOMAIN heard' = {} /\ Range(heard') = {}
    BY <1>2 DEF Range
  <2>3. Range(client) \union Range(heard') = Range(client)
    BY <2>2
  <2>4. Identity(table, mintedFor, whose, idOf, nameOf, Range(client))
    BY <2>1 DEF Identity, NamesKept, Newer, OneMark, SameName, SameId
  <2>5. Identity(table, mintedFor, whose, idOf, nameOf, Range(client) \union Range(heard'))
    BY <2>3, <2>4, Zenon
  <2> QED BY <2>2, <2>5 DEF Earlier
<1>7. OwnerInv' /\ RowsInv'
  BY <1>1, <1>2 DEF RowsInv, OwnRow, Rows, OwnerInv
<1> QED BY <1>3, <1>4, <1>5, <1>6, <1>7 DEF RosterInv, Shapes

\* An identifier is renamed to the one that now has its key.
LEMMA RenamedIs ==
    \A s \in DOMAIN Renamed :
        /\ s \in DOMAIN keys /\ Renamed[s] \in DOMAIN keys' /\ keys'[Renamed[s]] = keys[s]
        /\ Renamed[s] # s
<1> DEFINE now(k) == CHOOSE id \in DOMAIN keys' : keys'[id] = k
           moved == {s \in Range(students) :
                       s \in DOMAIN keys /\ keys[s] \in Range(keys') /\ now(keys[s]) # s}
<1>1. Renamed = [s \in moved |-> now(keys[s])]
  BY DEF Renamed
<1> SUFFICES ASSUME NEW s \in moved
             PROVE  s \in DOMAIN keys /\ now(keys[s]) \in DOMAIN keys' /\ keys'[now(keys[s])] = keys[s]
                    /\ now(keys[s]) # s
  BY <1>1
<1>2. \E id \in DOMAIN keys' : keys'[id] = keys[s]
  BY DEF Range
<1> QED BY <1>2

\* What is moved is what was held, under its identifier or its new one.
IsMoved(after, held, renamed) ==
    /\ DOMAIN after = (DOMAIN held \ DOMAIN renamed)
                         \union {renamed[s] : s \in DOMAIN renamed \intersect DOMAIN held}
    /\ \A id \in DOMAIN after :
          \/ id \in DOMAIN held /\ after[id] = held[id]
          \/ \E s \in DOMAIN renamed \intersect DOMAIN held : renamed[s] = id /\ after[id] = held[s]

\* That is what _async_follow_renamed_children does to each dictionary.
LEMMA MovedIs ==
    ASSUME NEW held, NEW renamed
    PROVE  IsMoved(Moved(held, renamed), held, renamed)
<1> DEFINE targets == {renamed[s] : s \in DOMAIN renamed \intersect DOMAIN held}
           source(id) == {s \in DOMAIN renamed \intersect DOMAIN held : renamed[s] = id}
           after == Moved(held, renamed)
<1>1. after = [id \in (DOMAIN held \ DOMAIN renamed) \union targets |->
                 IF id \in DOMAIN held \ DOMAIN renamed THEN held[id]
                 ELSE held[CHOOSE s \in source(id) : TRUE]]
  BY DEF Moved
<1>2. ASSUME NEW id \in targets, id \notin DOMAIN held \ DOMAIN renamed
      PROVE  \E s \in DOMAIN renamed \intersect DOMAIN held : renamed[s] = id /\ after[id] = held[s]
  <2>1. source(id) # {}
    OBVIOUS
  <2>2. (CHOOSE s \in source(id) : TRUE) \in source(id)
    BY <2>1
  <2>3. after[id] = held[CHOOSE s \in source(id) : TRUE]
    BY <1>1, <1>2
  <2> HIDE DEF after
  <2> QED BY <2>2, <2>3
<1> HIDE DEF targets
<1>3. DOMAIN after = (DOMAIN held \ DOMAIN renamed) \union targets
  BY <1>1
<1>4. \A id \in DOMAIN held \ DOMAIN renamed : after[id] = held[id]
  BY <1>1
<1> HIDE DEF after
<1>5. \A id \in DOMAIN after :
         \/ id \in DOMAIN held /\ after[id] = held[id]
         \/ \E s \in DOMAIN renamed \intersect DOMAIN held : renamed[s] = id /\ after[id] = held[s]
  BY <1>2, <1>3, <1>4
<1>6. IsMoved(after, held, renamed)
  BY <1>3, <1>5 DEF IsMoved, targets
<1> QED BY <1>6 DEF after

\* The last facts are in: the pairing is adopted, and what is held follows it.
LEMMA LoadFactsKeeps ==
    ASSUME RosterInv, LoadFacts
    PROVE  RosterInv'
<1> DEFINE children == Append(heard, Facts)
           kids == Range(client) \union Range(heard)
<1>1. /\ SchoolShapes /\ EntryShapes /\ HeldShapes /\ SchoolInv /\ DistinctInv /\ IdentityInv
      /\ OwnerInv /\ RowsInv /\ Shapes
  BY DEF RosterInv, Shapes
<1>2. /\ phase = "loading" /\ Len(heard) + 1 = Len(wanted) /\ Answering # NoChild
      /\ AdoptPairing(children, whose)
      /\ keysEver' = Remembered /\ data' = Moved(data, Renamed) /\ memory' = Moved(memory, Renamed)
      /\ phase' = "idle" /\ wanted' = <<>> /\ heard' = <<>>
      /\ UNCHANGED <<enrolled, idOf, nameOf, whose, namesakes, caught>>
      /\ UNCHANGED <<selected, client, announced, saved>>
  BY DEF LoadFacts, schoolVars
<1>3. /\ Len(heard) < Len(wanted) /\ Len(heard) \in Nat /\ Len(wanted) \in Nat
      /\ whose \in Seq(Pupils) /\ Record' = Record /\ wanted \in Seq(DOMAIN whose)
  BY <1>1, <1>2 DEF EntryShapes, SchoolShapes, Record
<1>4. /\ children \in Seq(Record) /\ Len(children) = Len(wanted)
      /\ Range(children) = Range(heard) \union {Facts}
      /\ ~caught => \A i \in DOMAIN children : children[i].id = wanted[i]
      /\ ~namesakes =>
            /\ \A i \in DOMAIN children : whose[children[i].id] = whose[wanted[i]]
            /\ Earlier(Range(children), Range(client), whose, nameOf)
  BY <1>1, <1>2, <1>3, HeardIs
<1> HIDE DEF children
<1>5. DOMAIN children = DOMAIN wanted
  BY <1>3, <1>4
<1>6. ~namesakes => DistinctPupils(children, whose)
  BY <1>1, <1>4, <1>5 DEF DistinctInv, DistinctPupils
<1>7. ~(namesakes /\ caught) => DistinctIds(children)
  <2>1. ~caught => DistinctIds(children)
    BY <1>1, <1>4, <1>5 DEF DistinctInv, DistinctIds
  <2> QED BY <2>1, <1>6, PupilsTellIds
<1>8. /\ Prolongs(whose, whose') /\ whose' \in Seq(Pupils) /\ children \in Seq(Record')
      /\ AdoptPairing(children, whose') /\ SchoolShapes' /\ SchoolInv'
  <2>1. whose' = whose
    BY <1>2
  <2> QED BY <2>1, <1>1, <1>2, <1>3, <1>4 DEF Prolongs, AdoptPairing, SchoolShapes, SchoolInv
<1>9. /\ table' \in Seq(Record') /\ table \in Seq(Record') /\ DOMAIN table \subseteq DOMAIN table'
      /\ mintedFor' \in Seq(Pupils) /\ Len(mintedFor') = Len(table') /\ Prolongs(mintedFor, mintedFor')
      /\ keys' \in [Range(students') -> DOMAIN table']
      /\ students' \in Seq(DOMAIN whose')
  BY <1>1, <1>8, AdoptIs
<1>10. DOMAIN keys' = Range(students') /\ Range(students') \subseteq DOMAIN whose
       /\ \A id \in DOMAIN keys' : keys'[id] \in DOMAIN table'
  BY <1>2, <1>9 DEF Range
<1>11. EntryShapes'
  BY <1>1, <1>2, <1>9 DEF EntryShapes
<1>12. /\ DOMAIN keysEver' = DOMAIN keysEver \union DOMAIN keys'
       /\ \A id \in DOMAIN keys' : keysEver'[id] = keys'[id]
       /\ \A id \in DOMAIN keysEver \ DOMAIN keys' : keysEver'[id] = keysEver[id]
       /\ keysEver' = [id \in DOMAIN keysEver' |-> keysEver'[id]]
  BY <1>2 DEF Remembered
<1>13. HeldShapes'
  <2>1. \A id \in DOMAIN keysEver : keysEver[id] \in DOMAIN table'
    BY <1>1, <1>9 DEF HeldShapes
  <2>2. keysEver' \in [DOMAIN keysEver' -> DOMAIN table'] /\ DOMAIN keysEver' \subseteq DOMAIN whose
    BY <2>1, <1>1, <1>10, <1>12 DEF HeldShapes
  <2>3. /\ DOMAIN data' = (DOMAIN data \ DOMAIN Renamed)
                            \union {Renamed[s] : s \in DOMAIN Renamed \intersect DOMAIN data}
        /\ DOMAIN memory' = (DOMAIN memory \ DOMAIN Renamed)
                            \union {Renamed[s] : s \in DOMAIN Renamed \intersect DOMAIN memory}
    <3>1. IsMoved(Moved(data, Renamed), data, Renamed) /\ IsMoved(Moved(memory, Renamed), memory, Renamed)
      BY MovedIs
    <3>2. IsMoved(data', data, Renamed) /\ IsMoved(memory', memory, Renamed)
      BY <3>1, <1>2
    <3> QED BY <3>2 DEF IsMoved
  <2>4. \A s \in DOMAIN Renamed : Renamed[s] \in DOMAIN whose
    BY <1>10, RenamedIs
  <2>5. DOMAIN memory' \subseteq DOMAIN data' /\ DOMAIN data' \subseteq DOMAIN whose
    BY <2>3, <2>4, <1>1 DEF HeldShapes
  <2>6. DOMAIN saved' \subseteq DOMAIN table'
    BY <1>1, <1>2, <1>9 DEF HeldShapes
  <2> QED BY <2>2, <2>5, <2>6, <1>2, <1>9, <1>10, <1>12 DEF HeldShapes
<1>14. DistinctInv'
  <2>1. DistinctPupils(client', whose')
    BY <1>1, <1>2 DEF DistinctInv
  <2>2. ASSUME ~(namesakes /\ caught) PROVE IsInjective(keys') /\ DistinctIds(table')
    BY <2>2, <1>1, <1>7, <1>8, AdoptDistinct
  <2> QED BY <2>1, <2>2, <1>2 DEF DistinctInv
<1>15. ASSUME ~namesakes
       PROVE  /\ Identity(table', mintedFor', whose, idOf, nameOf, Range(client))
              /\ \A id \in DOMAIN keys' : mintedFor'[keys'[id]] = whose[id]
              /\ IsInjective(nameOf)
  <2> DEFINE C == Range(client)
  <2>1. /\ Identity(table, mintedFor, whose, idOf, nameOf, kids) /\ IsInjective(nameOf)
        /\ Known(table, mintedFor, whose, nameOf, kids)
    BY <1>1, <1>15, KnownIs DEF IdentityInv
  <2>2. Range(children) \subseteq kids /\ C \in SUBSET kids
    BY <1>1, <1>2, <1>4, FactsAre
  <2>3. Earlier(Range(children), C, whose, nameOf) /\ DistinctPupils(children, whose)
    BY <1>4, <1>6, <1>15
  <2>4. whose' = whose
    BY <1>2
  <2> HIDE DEF kids, C
  <2>5. /\ Identity(table, mintedFor, whose', idOf, nameOf, kids)
        /\ Known(table, mintedFor, whose', nameOf, kids)
        /\ Earlier(Range(children), C, whose', nameOf) /\ DistinctPupils(children, whose')
    BY <2>1, <2>3, <2>4
  <2>6. /\ Identity(table', mintedFor', whose', idOf, nameOf, C)
        /\ \A id \in DOMAIN keys' : mintedFor'[keys'[id]] = whose'[id]
    BY <1>1, <1>8, <2>1, <2>2, <2>5, AdoptIdentity
  <2> QED BY <2>1, <2>4, <2>6 DEF C
<1>16. IdentityInv'
  <2> SUFFICES ASSUME ~namesakes
               PROVE  /\ Identity(table', mintedFor', whose, idOf, nameOf,
                                  Range(client) \union Range(heard'))
                      /\ Earlier(Range(heard'), Range(client), whose, nameOf)
                      /\ \A i \in DOMAIN heard' : whose[heard'[i].id] = whose[wanted'[i]]
    BY <1>2, <1>15 DEF IdentityInv
  <2>1. DOMAIN heard' = {} /\ Range(heard') = {}
    BY <1>2 DEF Range
  <2>2. Range(client) \union Range(heard') = Range(client)
    BY <2>1
  <2>3. Identity(table', mintedFor', whose, idOf, nameOf, Range(client) \union Range(heard'))
    BY <2>2, <1>15, Zenon
  <2> QED BY <2>1, <2>3 DEF Earlier
<1>17. OwnerInv'
  <2> SUFFICES ASSUME ~namesakes
               PROVE  /\ \A id \in DOMAIN keysEver' : mintedFor'[keysEver'[id]] = whose[id]
                      /\ \A id \in DOMAIN data' : data'[id] = whose[id]
                      /\ \A id \in DOMAIN memory' : memory'[id] = whose[id]
                      /\ \A k \in DOMAIN saved : saved[k] = mintedFor'[k]
    BY <1>2 DEF OwnerInv
  <2>1. /\ DOMAIN mintedFor = DOMAIN table
        /\ \A k \in DOMAIN table : mintedFor'[k] = mintedFor[k]
    BY <1>1, <1>9 DEF EntryShapes, Prolongs
  <2>2. \A id \in DOMAIN keysEver : mintedFor'[keysEver[id]] = whose[id]
    BY <2>1, <1>1 DEF HeldShapes, OwnerInv
  <2>3. \A id \in DOMAIN keysEver' : mintedFor'[keysEver'[id]] = whose[id]
    BY <2>2, <1>12, <1>15
  <2>4. ASSUME NEW s \in DOMAIN Renamed PROVE whose[Renamed[s]] = whose[s]
    <3>1. s \in DOMAIN keys /\ Renamed[s] \in DOMAIN keys' /\ keys'[Renamed[s]] = keys[s]
      BY RenamedIs
    <3>2. keysEver[s] = keys[s] /\ s \in DOMAIN keysEver
      BY <3>1, <1>1 DEF HeldShapes
    <3> QED BY <3>1, <3>2, <2>2, <1>15
  <2>5. ASSUME NEW held, \A id \in DOMAIN held : held[id] = whose[id],
               NEW id \in DOMAIN Moved(held, Renamed)
        PROVE  Moved(held, Renamed)[id] = whose[id]
    <3>1. IsMoved(Moved(held, Renamed), held, Renamed)
      BY MovedIs
    <3> QED BY <3>1, <2>4, <2>5 DEF IsMoved
  <2>6. /\ \A id \in DOMAIN data : data[id] = whose[id]
        /\ \A id \in DOMAIN memory : memory[id] = whose[id]
        /\ \A k \in DOMAIN saved : saved[k] = mintedFor[k]
    BY <1>1 DEF OwnerInv
  <2>7. \A id \in DOMAIN data' : data'[id] = whose[id]
    BY <1>2, <2>5, <2>6
  <2>8. \A id \in DOMAIN memory' : memory'[id] = whose[id]
    BY <1>2, <2>5, <2>6
  <2>9. \A k \in DOMAIN saved : saved[k] = mintedFor'[k]
    BY <2>1, <2>6, <1>1 DEF HeldShapes
  <2> QED BY <2>3, <2>7, <2>8, <2>9
<1>18. RowsInv'
  BY <1>1, <1>8, DevicesAre
<1> QED BY <1>8, <1>11, <1>13, <1>14, <1>16, <1>17, <1>18 DEF RosterInv, Shapes

-----------------------------------------------------------------------------
(* The invariant holds.                                                    *)

\* The entry is created: nothing is held, and whoever is enrolled is announced.
LEMMA InitHolds == Init => RosterInv
<1> SUFFICES ASSUME Init PROVE RosterInv
  OBVIOUS
<1> DEFINE listed == InOrder(enrolled)
           at(p) == CHOOSE i \in DOMAIN listed : listed[i] = p
           N == Len(Legacy)
<1>1. /\ enrolled \in SUBSET Pupils /\ nameOf \in [Pupils -> 1 .. MaxNames]
      /\ Legacy \in Seq(Pupils) /\ N \in Nat
  BY RosterAssumption DEF Init
<1>2. /\ whose = Legacy \o listed
      /\ idOf = [p \in Pupils |-> IF p \in enrolled THEN N + at(p) ELSE NoChild]
      /\ namesakes = ~IsInjective(nameOf) /\ caught = FALSE
      /\ \E chosen \in SUBSET enrolled : selected = {idOf[p] : p \in chosen}
      /\ client = <<>> /\ table = <<>> /\ mintedFor = <<>>
      /\ phase = "down" /\ announced = {} /\ wanted = <<>> /\ heard = <<>> /\ students = <<>>
      /\ keys = Empty /\ keysEver = Empty /\ data = Empty /\ memory = Empty /\ saved = Empty
      /\ devices = [i \in DOMAIN Legacy |-> [row |-> Row("id", i), owner |-> Legacy[i]]]
  BY DEF Init
<1>3. listed \in Seq(Pupils) /\ Range(listed) = enrolled
  BY <1>1, InOrderIs
<1>4. \A p \in enrolled : at(p) \in DOMAIN listed /\ listed[at(p)] = p
  BY <1>3 DEF Range
<1> HIDE DEF listed, at
<1>5. /\ whose \in Seq(Pupils) /\ DOMAIN whose = 1 .. N + Len(listed) /\ Len(listed) \in Nat
      /\ DOMAIN Legacy = 1 .. N /\ DOMAIN listed = 1 .. Len(listed)
      /\ \A i \in 1 .. N : whose[i] = Legacy[i]
      /\ \A i \in 1 .. Len(listed) : whose[N + i] = listed[i]
  BY <1>1, <1>2, <1>3
<1>6. ASSUME NEW p \in Pupils
      PROVE  /\ p \in enrolled => idOf[p] \in DOMAIN whose /\ whose[idOf[p]] = p /\ idOf[p] # NoChild
             /\ p \notin enrolled => idOf[p] = NoChild
  <2>1. CASE p \in enrolled
    <3>1. idOf[p] = N + at(p) /\ at(p) \in 1 .. Len(listed) /\ listed[at(p)] = p
      BY <2>1, <1>2, <1>4, <1>5
    <3>2. idOf[p] \in 1 .. N + Len(listed) /\ idOf[p] # 0
      BY <3>1, <1>1, <1>5
    <3> QED BY <2>1, <3>1, <3>2, <1>5 DEF NoChild
  <2>2. CASE p \notin enrolled
    BY <2>2, <1>2
  <2> QED BY <2>1, <2>2
<1>7. SchoolInv
  BY <1>6 DEF SchoolInv
<1>8. idOf \in [Pupils -> DOMAIN whose \union {NoChild}]
  BY <1>2, <1>6
<1>9. SchoolShapes
  <2>1. namesakes \in BOOLEAN /\ caught \in BOOLEAN
    BY <1>2, Zenon
  <2>2. client \in Seq(Record)
    BY <1>2
  <2> QED BY <2>1, <2>2, <1>1, <1>5, <1>8 DEF SchoolShapes
<1>10. /\ DOMAIN client = {} /\ DOMAIN table = {} /\ DOMAIN mintedFor = {} /\ DOMAIN wanted = {}
       /\ DOMAIN heard = {} /\ DOMAIN students = {}
  BY <1>2
<1>11. /\ DOMAIN keys = {} /\ DOMAIN keysEver = {} /\ DOMAIN data = {} /\ DOMAIN memory = {}
       /\ DOMAIN saved = {}
  BY <1>2 DEF Empty
<1>12. EntryShapes
  <2>1. selected \subseteq DOMAIN whose
    BY <1>1, <1>2, <1>6
  <2> QED BY <2>1, <1>2 DEF EntryShapes
<1>13. HeldShapes
  <2>1. Range(students) = {}
    BY <1>10 DEF Range
  <2>2. keys \in [Range(students) -> DOMAIN table]
    BY <2>1, <1>2 DEF Empty
  <2>3. keysEver \in [DOMAIN keysEver -> DOMAIN table]
    BY <1>2, <1>11 DEF Empty
  <2> QED BY <2>2, <2>3, <1>11 DEF HeldShapes
<1>14. DistinctInv
  BY <1>2, <1>10, <1>11 DEF DistinctInv, DistinctPupils, DistinctIds, IsInjective
<1>15. IdentityInv
  <2>1. Range(client) = {} /\ Range(heard) = {}
    BY <1>10 DEF Range
  <2> DEFINE kids == Range(client) \union Range(heard)
  <2>2. kids = {}
    BY <2>1
  <2> HIDE DEF kids
  <2>3. Identity(table, mintedFor, whose, idOf, nameOf, kids)
    BY <2>2, <1>10 DEF Identity, OwnRecords, OwnNames, NamesKept, Newer, OneMark, IsInjective
  <2>4. Earlier(Range(heard), Range(client), whose, nameOf)
    BY <2>1 DEF Earlier
  <2>5. ~namesakes => IsInjective(nameOf)
    BY <1>2
  <2> QED BY <2>3, <2>4, <2>5, <1>10 DEF IdentityInv, kids
<1>16. OwnerInv
  BY <1>11 DEF OwnerInv
<1>17. RowsInv
  <2>1. \A i \in 1 .. N : /\ devices[i] = [row |-> Row("id", i), owner |-> Legacy[i]]
                          /\ Legacy[i] \in Pupils /\ Row("id", i) \in [kind : {"id", "key"}, n : Nat]
                          /\ Row("id", i).n = i
    BY <1>1, <1>2, <1>5 DEF Row
  <2>2. devices = [i \in 1 .. N |-> devices[i]] /\ \A i \in 1 .. N : devices[i] \in Rows
    BY <2>1, <1>2, <1>5 DEF Rows
  <2>3. devices \in Seq(Rows) /\ DOMAIN devices = 1 .. N
    BY <2>2, <1>1
  <2>4. \A i \in 1 .. N : OwnRow(devices[i])
    <3> SUFFICES ASSUME NEW i \in 1 .. N PROVE OwnRow(devices[i])
      OBVIOUS
    <3>1. devices[i].row.n = i /\ devices[i].owner = Legacy[i]
      <4>1. devices[i] = [row |-> Row("id", i), owner |-> Legacy[i]] /\ Row("id", i).n = i
        BY <2>1
      <4> QED BY <4>1
    <3>2. i \in DOMAIN whose /\ whose[i] = Legacy[i]
      BY <1>1, <1>5
    <3> QED BY <3>1, <3>2 DEF OwnRow
  <2> QED BY <2>3, <2>4 DEF RowsInv
<1> QED BY <1>7, <1>9, <1>12, <1>13, <1>14, <1>15, <1>16, <1>17 DEF RosterInv, Shapes

\* Nothing happens.
LEMMA StutterKeeps ==
    ASSUME RosterInv, UNCHANGED vars
    PROVE  RosterInv'
<1>1. /\ SchoolShapes /\ EntryShapes /\ HeldShapes /\ SchoolInv /\ DistinctInv /\ IdentityInv
      /\ OwnerInv /\ RowsInv
  BY DEF RosterInv, Shapes
<1>2. /\ UNCHANGED <<enrolled, idOf, nameOf, whose, mintedFor, namesakes, caught, client, table>>
      /\ UNCHANGED <<selected, phase, announced, wanted, heard, students, keys, keysEver>>
      /\ UNCHANGED <<data, memory, saved, devices>>
  BY DEF vars
<1>3. SchoolShapes' /\ EntryShapes' /\ HeldShapes'
  BY <1>1, <1>2 DEF SchoolShapes, EntryShapes, HeldShapes, Record
<1>4. SchoolInv' /\ DistinctInv' /\ IdentityInv'
  BY <1>1, <1>2 DEF SchoolInv, DistinctInv, IdentityInv
<1>5. OwnerInv' /\ RowsInv'
  BY <1>1, <1>2 DEF OwnerInv, RowsInv, OwnRow, Rows
<1> QED BY <1>3, <1>4, <1>5 DEF RosterInv, Shapes

\* Every step keeps it.
LEMMA NextKeeps ==
    ASSUME RosterInv, [Next]_vars
    PROVE  RosterInv'
<1>1. ASSUME NEW rotated \in Rotations, SetUp(rotated) PROVE RosterInv'
  <2>1. rotated \in SUBSET Pupils
    BY RosterAssumption
  <2> QED BY <1>1, <2>1, SetUpKeeps
<1>2. ASSUME NEW rotated \in Rotations, Relogin(rotated) PROVE RosterInv'
  <2>1. rotated \in SUBSET Pupils
    BY RosterAssumption
  <2> QED BY <1>2, <2>1, ReloginKeeps
<1>3. CASE Unload
  BY <1>3, UnloadKeeps
<1>4. ASSUME NEW s \in DOMAIN whose, Collect(s) PROVE RosterInv'
  BY <1>4, CollectKeeps
<1>5. CASE AdoptNewcomers
  BY <1>5, AdoptNewcomersKeeps
<1>6. CASE Open
  BY <1>6, OpenKeeps
<1>7. CASE ReadFacts
  BY <1>7, ReadFactsKeeps
<1>8. CASE LoadFacts
  BY <1>8, LoadFactsKeeps
<1>9. CASE ReadingFails
  BY <1>9, ReadingFailsKeeps
<1>10. ASSUME NEW p \in Pupils, Enrol(p) PROVE RosterInv'
  BY <1>10, EnrolKeeps
<1>11. ASSUME NEW p \in Pupils, Depart(p) PROVE RosterInv'
  BY <1>11, DepartKeeps
<1>12. ASSUME NEW p \in Pupils, NEW name \in 1 .. MaxNames, Respell(p, name) PROVE RosterInv'
  BY <1>12, RespellKeeps
<1>13. CASE UNCHANGED vars
  BY <1>13, StutterKeeps
<1> QED BY <1>1, <1>2, <1>3, <1>4, <1>5, <1>6, <1>7, <1>8, <1>9, <1>10, <1>11, <1>12, <1>13 DEF Next

\* The children, their keys and what is held agree, whatever the school and the
\* logins do (account.py, child_keys.py).
THEOREM RosterAgrees == Spec => []RosterInv
<1>1. RosterInv /\ [Next]_vars => RosterInv'
  BY NextKeeps
<1> QED BY <1>1, InitHolds, PTL DEF Spec

-----------------------------------------------------------------------------
(* The invariants of the account.                                          *)

\* A device's service acts for a child of this process.
LEMMA TargetsAre ==
    ASSUME Shapes
    PROVE  ServiceTargets \subseteq DOMAIN keys /\ DOMAIN keys \subseteq DOMAIN keysEver
<1>1. keys \in [Range(students) -> DOMAIN table] /\ DOMAIN keys \subseteq DOMAIN keysEver
  BY DEF Shapes, HeldShapes
<1>2. OnlyChild \subseteq Range(students)
  BY DEF OnlyChild
<1>3. ASSUME NEW row PROVE ChildOf(row) \subseteq DOMAIN keys
  BY DEF ChildOf
<1>4. ServiceTargets \subseteq DOMAIN keys
  BY <1>1, <1>2, <1>3 DEF ServiceTargets
<1> QED BY <1>1, <1>4

\* The variables have their types, and a service a child to act for.
THEOREM RosterTyped == Spec => []TypeOK
<1>1. RosterInv => TypeOK
  <2> SUFFICES ASSUME RosterInv PROVE TypeOK
    OBVIOUS
  <2>1. Shapes /\ SchoolShapes /\ EntryShapes /\ HeldShapes
    BY DEF RosterInv, Shapes
  <2>2. DOMAIN mintedFor = DOMAIN table
    BY <2>1 DEF EntryShapes
  <2>3. \A r \in Record : r.id \in DOMAIN whose
    BY DEF Record
  <2>4. Ids(client) \subseteq DOMAIN whose /\ Ids(heard) \subseteq DOMAIN whose
    <3>1. client \in Seq(Record) /\ heard \in Seq(Record)
      BY <2>1 DEF SchoolShapes, EntryShapes
    <3> QED BY <3>1, <2>3 DEF Ids
  <2>5. Range(students) \subseteq DOMAIN whose /\ Range(wanted) \subseteq DOMAIN whose
    BY <2>1 DEF EntryShapes, Range
  <2>6. Range(keysEver) \subseteq DOMAIN table /\ DOMAIN keys = Range(students)
    BY <2>1 DEF HeldShapes, Range
  <2>7. ServiceTargets \subseteq DOMAIN keysEver /\ DOMAIN keys \subseteq DOMAIN keysEver
    BY <2>1, TargetsAre
  <2>8. /\ enrolled \subseteq Pupils /\ {namesakes, caught} \subseteq BOOLEAN /\ whose \in Seq(Pupils)
        /\ nameOf \in [Pupils -> 1 .. MaxNames] /\ idOf \in [Pupils -> DOMAIN whose \union {NoChild}]
    <3>1. namesakes \in BOOLEAN /\ caught \in BOOLEAN
      BY <2>1 DEF SchoolShapes
    <3>2. {namesakes, caught} \subseteq BOOLEAN
      BY <3>1, Zenon
    <3> QED BY <2>1, <3>2 DEF SchoolShapes
  <2>9. /\ mintedFor \in Seq(Pupils) /\ phase \in {"down", "idle", "opening", "loading"}
        /\ announced \subseteq DOMAIN whose /\ selected \subseteq DOMAIN whose
        /\ Len(heard) <= Len(wanted)
    BY <2>1 DEF EntryShapes
  <2>10. DOMAIN memory \subseteq DOMAIN data /\ DOMAIN saved \subseteq DOMAIN table
    BY <2>1 DEF HeldShapes
  <2>11. Ids(client) \union announced \union selected \union Range(students) \union Range(wanted)
           \subseteq DOMAIN whose
    BY <2>4, <2>5, <2>9
  <2>12. Range(keysEver) \union DOMAIN saved \subseteq DOMAIN table
    BY <2>6, <2>10
  <2> QED BY <2>2, <2>4, <2>6, <2>7, <2>8, <2>9, <2>10, <2>11, <2>12 DEF TypeOK
<1> QED BY <1>1, RosterAgrees, PTL

\* As many identifiers as records when none is recorded twice.
LEMMA AsManyIds ==
    ASSUME NEW R, NEW tab \in Seq(R), DistinctIds(tab)
    PROVE  Cardinality(Ids(tab)) = Len(tab)
<1> DEFINE f == [k \in 1 .. Len(tab) |-> tab[k].id]
<1>1. DOMAIN tab = 1 .. Len(tab) /\ Len(tab) \in Nat
  OBVIOUS
<1>2. f \in Bijection(1 .. Len(tab), Ids(tab))
  BY <1>1 DEF Bijection, Injection, Surjection, IsInjective, Ids, DistinctIds
<1>3. IsFiniteSet(1 .. Len(tab)) /\ Cardinality(1 .. Len(tab)) = Len(tab)
  BY <1>1, FS_Interval
<1> HIDE DEF f
<1>4. ExistsBijection(1 .. Len(tab), Ids(tab))
  BY <1>2 DEF ExistsBijection
<1> QED BY <1>3, <1>4, FS_Bijection

\* Two followed children never share a key nor two records an identifier, unless
\* a login changed the roster of twins while it was read (child_keys.pair).
THEOREM RosterKeysDistinct == Spec => []KeysDistinct
<1>1. RosterInv => KeysDistinct
  <2> SUFFICES ASSUME RosterInv, ~(namesakes /\ caught)
               PROVE  IsInjective(keys) /\ Cardinality(Ids(table)) = Len(table)
    BY DEF KeysDistinct
  <2>1. IsInjective(keys) /\ DistinctIds(table) /\ table \in Seq(Record)
    BY DEF RosterInv, DistinctInv, Shapes, EntryShapes
  <2> QED BY <2>1, AsManyIds
<1> QED BY <1>1, RosterAgrees, PTL

\* A key stays with the child it was minted for, and no child is minted two
\* (child_keys, module docstring).
THEOREM RosterKeysStay == Spec => []KeyStaysWithChild
<1>1. RosterInv => KeyStaysWithChild
  BY DEF RosterInv, IdentityInv, Identity, OwnRecords, OwnerInv, KeyStaysWithChild
<1> QED BY <1>1, RosterAgrees, PTL

\* What is filed under a child was read from that child, and a call acts for the
\* child it was made for or fails (coordinator.publish, account._live_child_id).
THEOREM RosterFiled == Spec => []FiledUnderOwner
<1>1. RosterInv => FiledUnderOwner
  <2> SUFFICES ASSUME RosterInv, ~namesakes
               PROVE  /\ \A id \in DOMAIN data : data[id] = whose[id]
                      /\ \A id \in DOMAIN memory : memory[id] = whose[id]
                      /\ \A id \in DOMAIN keysEver :
                            LiveChild(id) # NoChild => whose[LiveChild(id)] = whose[id]
    BY DEF FiledUnderOwner
  <2>1. Shapes /\ DistinctInv /\ IdentityInv /\ OwnerInv
    BY DEF RosterInv
  <2>2. ASSUME NEW id, LiveChild(id) # NoChild PROVE whose[LiveChild(id)] = whose[id]
    BY <2>1, <2>2, LiveChildOwner
  <2> QED BY <2>1, <2>2 DEF OwnerInv
<1> QED BY <1>1, RosterAgrees, PTL

-----------------------------------------------------------------------------
(* What is shown.                                                          *)

\* What a child shows is its own, under an identifier and a key of its own.
LEMMA HeldIs ==
    ASSUME RosterInv, ~namesakes, phase # "down", NEW p \in Held
    PROVE  \E s \in DOMAIN keys \intersect DOMAIN data :
              /\ data[s] = p /\ whose[s] = p /\ keys[s] \in DOMAIN mintedFor
              /\ mintedFor[keys[s]] = p
<1>1. PICK s \in Range(students) \intersect DOMAIN data : data[s] = p
  BY DEF Held
<1>2. /\ keys \in [Range(students) -> DOMAIN table] /\ s \in DOMAIN keysEver /\ keysEver[s] = keys[s]
  BY <1>1 DEF RosterInv, Shapes, HeldShapes
<1>3. data[s] = whose[s] /\ mintedFor[keysEver[s]] = whose[s]
  BY <1>1, <1>2 DEF RosterInv, OwnerInv
<1>4. DOMAIN mintedFor = DOMAIN table
  BY DEF RosterInv, Shapes, EntryShapes
<1> QED BY <1>1, <1>2, <1>3, <1>4

\* The key of a followed child was minted for it.
LEMMA KeysAre ==
    ASSUME RosterInv, ~namesakes, NEW s \in DOMAIN keys
    PROVE  /\ keys[s] \in DOMAIN mintedFor /\ mintedFor[keys[s]] = whose[s]
           /\ s \in Range(students) /\ s \in DOMAIN whose
<1>1. /\ keys \in [Range(students) -> DOMAIN table] /\ s \in DOMAIN keysEver /\ keysEver[s] = keys[s]
      /\ DOMAIN keysEver \subseteq DOMAIN whose
  BY DEF RosterInv, Shapes, HeldShapes
<1>2. DOMAIN mintedFor = DOMAIN table
  BY DEF RosterInv, Shapes, EntryShapes
<1>3. mintedFor[keysEver[s]] = whose[s]
  BY <1>1 DEF RosterInv, OwnerInv
<1> QED BY <1>1, <1>2, <1>3

\* The same once the step is taken, where two keys of one child are one.
LEMMA KeysAreThen ==
    ASSUME RosterInv', ~namesakes', NEW s \in DOMAIN keys'
    PROVE  /\ keys'[s] \in DOMAIN mintedFor' /\ mintedFor'[keys'[s]] = whose'[s]
           /\ \A k \in DOMAIN mintedFor' : mintedFor'[k] = whose'[s] => k = keys'[s]
<1>1. /\ keys' \in [Range(students') -> DOMAIN table'] /\ s \in DOMAIN keysEver'
      /\ keysEver'[s] = keys'[s]
  BY DEF RosterInv, Shapes, HeldShapes
<1>2. DOMAIN mintedFor' = DOMAIN table'
  BY DEF RosterInv, Shapes, EntryShapes
<1>3. mintedFor'[keysEver'[s]] = whose'[s]
  BY <1>1 DEF RosterInv, OwnerInv
<1>4. IsInjective(mintedFor')
  BY DEF RosterInv, IdentityInv, Identity, OwnRecords
<1> QED BY <1>1, <1>2, <1>3, <1>4 DEF IsInjective

\* A set-up gives a followed child back what was saved under its key.
LEMMA SetUpShows ==
    ASSUME RosterInv, RosterInv', NEW rotated \in SUBSET Pupils, SetUp(rotated), ~namesakes,
           NEW p \in Held, p \in FollowedPupils'
    PROVE  p \in Held'
<1>1. /\ phase = "down" /\ LogIn(rotated) /\ AdoptPairing(Followed(client'), whose')
      /\ data' = Restored /\ phase' = "idle" /\ namesakes' = namesakes /\ UNCHANGED saved
  BY DEF SetUp, LogIn
<1>2. PICK k \in DOMAIN saved : saved[k] = p
  BY <1>1 DEF Held, Range
<1>3. PICK s \in Range(students') : whose'[s] = p
  BY DEF FollowedPupils
<1>4. /\ DOMAIN keys' = Range(students') /\ DOMAIN mintedFor' = DOMAIN table'
      /\ DOMAIN saved' \subseteq DOMAIN table'
  BY DEF RosterInv, Shapes, HeldShapes, EntryShapes
<1>5. mintedFor'[k] = p /\ k \in DOMAIN mintedFor'
  BY <1>1, <1>2, <1>4 DEF RosterInv, OwnerInv
<1>7. keys'[s] = k
  <2>1. s \in DOMAIN keys' /\ ~namesakes'
    BY <1>1, <1>3, <1>4
  <2> QED BY <2>1, <1>3, <1>5, KeysAreThen
<1>8. s \in DOMAIN data' /\ data'[s] = p
  BY <1>1, <1>2, <1>3, <1>4, <1>7 DEF Restored
<1> QED BY <1>1, <1>3, <1>8 DEF Held

\* An unload saves what is shown under the keys.
LEMMA UnloadShows ==
    ASSUME RosterInv, Unload, ~namesakes, NEW p \in Held
    PROVE  p \in Held'
<1>1. /\ phase = "idle" /\ phase' = "down"
      /\ saved' = [k \in {keys[s] : s \in DOMAIN data \intersect DOMAIN keys} |->
                     data[CHOOSE s \in DOMAIN data \intersect DOMAIN keys : keys[s] = k]]
  BY DEF Unload
<1>2. PICK s \in DOMAIN keys \intersect DOMAIN data : whose[s] = p
  BY <1>1, HeldIs
<1> DEFINE k == keys[s]
           u == CHOOSE x \in DOMAIN data \intersect DOMAIN keys : keys[x] = k
<1>3. u \in DOMAIN data \intersect DOMAIN keys /\ keys[u] = k
  BY <1>2
<1>4. k \in DOMAIN saved' /\ saved'[k] = data[u]
  BY <1>1, <1>2
<1> HIDE DEF u
<1>5. whose[u] = mintedFor[k] /\ whose[s] = mintedFor[k]
  BY <1>2, <1>3, KeysAre
<1>6. data[u] = whose[u]
  BY <1>3 DEF RosterInv, OwnerInv
<1>7. p \in Range(saved')
  BY <1>2, <1>4, <1>5, <1>6 DEF Range
<1> QED BY <1>1, <1>7 DEF Held

\* A collection replaces what is shown by what is newer, of the same child.
LEMMA CollectShows ==
    ASSUME RosterInv, RosterInv', NEW s, Collect(s), ~namesakes, NEW p \in Held
    PROVE  p \in Held'
<1>1. /\ phase = "idle" /\ phase' = phase /\ data' = Bind(data, s, whose[LiveChild(s)])
      /\ UNCHANGED <<whose, namesakes, students, keys>>
  BY DEF Collect, schoolVars, accountVars
<1>2. PICK u \in DOMAIN keys \intersect DOMAIN data : whose[u] = p
  BY <1>1, HeldIs
<1>3. u \in Range(students) /\ u \in DOMAIN data'
  BY <1>1, <1>2, KeysAre DEF Bind
<1>4. data'[u] = whose'[u]
  BY <1>1, <1>3 DEF RosterInv, OwnerInv
<1> QED BY <1>1, <1>2, <1>3, <1>4 DEF Held

\* What the facts of the last child lead to.
LEMMA LoadFactsAdopts ==
    ASSUME RosterInv, LoadFacts
    PROVE  /\ SchoolShapes /\ EntryShapes /\ RowsInv
           /\ Prolongs(whose, whose') /\ whose' \in Seq(Pupils)
           /\ Append(heard, Facts) \in Seq(Record') /\ AdoptPairing(Append(heard, Facts), whose')
           /\ Prolongs(mintedFor, mintedFor')
<1> DEFINE children == Append(heard, Facts)
<1>1. SchoolShapes /\ EntryShapes /\ RowsInv /\ RosterInv
  BY DEF RosterInv, Shapes
<1>2. /\ phase = "loading" /\ Len(heard) + 1 = Len(wanted) /\ Answering # NoChild
      /\ AdoptPairing(children, whose) /\ whose' = whose
  BY DEF LoadFacts, schoolVars
<1>3. Len(heard) < Len(wanted) /\ whose \in Seq(Pupils) /\ Record' = Record
  BY <1>1, <1>2 DEF EntryShapes, SchoolShapes, Record
<1>4. children \in Seq(Record)
  BY <1>1, <1>2, <1>3, HeardIs DEF RosterInv, Shapes
<1> HIDE DEF children
<1>5. Prolongs(whose, whose') /\ whose' \in Seq(Pupils) /\ AdoptPairing(children, whose')
      /\ children \in Seq(Record')
  BY <1>2, <1>3, <1>4 DEF Prolongs, AdoptPairing
<1>6. Prolongs(mintedFor, mintedFor')
  BY <1>1, <1>5, AdoptIs
<1> QED BY <1>1, <1>5, <1>6 DEF children

\* A child that is not renamed keeps its identifier when its key is announced.
LEMMA NotRenamed ==
    ASSUME NEW s \in Range(students) \intersect DOMAIN keys, s \notin DOMAIN Renamed,
           keys[s] \in Range(keys')
    PROVE  s \in DOMAIN keys' /\ keys'[s] = keys[s]
<1> DEFINE now(k) == CHOOSE id \in DOMAIN keys' : keys'[id] = k
<1>1. now(keys[s]) = s
  BY DEF Renamed
<1>2. \E id \in DOMAIN keys' : keys'[id] = keys[s]
  BY DEF Range
<1> QED BY <1>1, <1>2

\* A renamed child takes its snapshot along.
LEMMA LoadFactsShows ==
    ASSUME RosterInv, RosterInv', LoadFacts, ~namesakes, NEW p \in Held, p \in FollowedPupils'
    PROVE  p \in Held'
<1>1. /\ phase = "loading" /\ phase' = "idle" /\ data' = Moved(data, Renamed)
      /\ AdoptPairing(Append(heard, Facts), whose)
      /\ UNCHANGED <<whose, namesakes>>
  BY DEF LoadFacts, schoolVars
<1>2. PICK s \in DOMAIN keys \intersect DOMAIN data :
         data[s] = p /\ whose[s] = p /\ keys[s] \in DOMAIN mintedFor /\ mintedFor[keys[s]] = p
  BY <1>1, HeldIs
<1>3. PICK t \in Range(students') : whose'[t] = p
  BY DEF FollowedPupils
<1>4. DOMAIN keys' = Range(students') /\ DOMAIN keys = Range(students)
  BY DEF RosterInv, Shapes, HeldShapes
<1>6. keys[s] \in DOMAIN mintedFor' /\ mintedFor'[keys[s]] = p
  BY <1>2, LoadFactsAdopts DEF Prolongs
<1>7. keys'[t] = keys[s]
  <2>1. t \in DOMAIN keys' /\ ~namesakes'
    BY <1>1, <1>3, <1>4
  <2> QED BY <2>1, <1>3, <1>6, KeysAreThen
<1>8. IsInjective(keys')
  BY <1>1 DEF RosterInv, DistinctInv
<1>9. t \in DOMAIN data'
  <2>1. IsMoved(data', data, Renamed)
    BY <1>1, MovedIs
  <2>2. CASE s \notin DOMAIN Renamed
    <3>1. keys[s] \in Range(keys') /\ s \in Range(students)
      BY <1>2, <1>3, <1>4, <1>7 DEF Range
    <3>2. s \in DOMAIN keys' /\ keys'[s] = keys[s]
      BY <2>2, <3>1, <1>2, NotRenamed
    <3>3. s = t
      BY <3>2, <1>3, <1>4, <1>7, <1>8 DEF IsInjective
    <3> QED BY <3>3, <2>1, <2>2, <1>2 DEF IsMoved
  <2>3. CASE s \in DOMAIN Renamed
    <3>1. Renamed[s] \in DOMAIN keys' /\ keys'[Renamed[s]] = keys[s]
      BY <2>3, RenamedIs
    <3>2. Renamed[s] = t
      BY <3>1, <1>3, <1>4, <1>7, <1>8 DEF IsInjective
    <3> QED BY <3>2, <2>1, <2>3, <1>2 DEF IsMoved
  <2> QED BY <2>2, <2>3
<1>10. data'[t] = p
  BY <1>1, <1>3, <1>9 DEF RosterInv, OwnerInv
<1> QED BY <1>1, <1>3, <1>9, <1>10 DEF Held

\* Every other step leaves alone what is shown.
LEMMA OtherShows ==
    ASSUME UNCHANGED <<data, saved, students>>, phase = "down" <=> phase' = "down"
    PROVE  Held' = Held
BY DEF Held

\* A child that stays followed keeps the snapshot its entities show, and an unload
\* saves it (_restore_snapshots, _async_follow_renamed_children).
THEOREM RosterKeepsWhatIsShown == Spec => NothingShownIsLost
<1>1. ASSUME RosterInv, RosterInv', [Next]_vars, ~namesakes, NEW p \in Held,
             p \in FollowedPupils' \/ phase' = "down"
      PROVE  p \in Held'
  <2>1. ASSUME NEW rotated \in Rotations, SetUp(rotated) PROVE p \in Held'
    <3>1. rotated \in SUBSET Pupils
      BY RosterAssumption
    <3>2. phase' # "down"
      BY <2>1 DEF SetUp
    <3> QED BY <1>1, <2>1, <3>1, <3>2, SetUpShows
  <2>2. ASSUME NEW rotated \in Rotations, Relogin(rotated) PROVE p \in Held'
    BY <1>1, <2>2, OtherShows DEF Relogin, heldVars, accountVars
  <2>3. CASE Unload
    BY <1>1, <2>3, UnloadShows
  <2>4. ASSUME NEW s \in DOMAIN whose, Collect(s) PROVE p \in Held'
    BY <1>1, <2>4, CollectShows
  <2>5. CASE AdoptNewcomers
    BY <1>1, <2>5, OtherShows DEF AdoptNewcomers, heldVars
  <2>6. CASE Open
    BY <1>1, <2>6, OtherShows DEF Open, heldVars
  <2>7. CASE ReadFacts
    BY <1>1, <2>7, OtherShows DEF ReadFacts, heldVars
  <2>8. CASE LoadFacts
    <3>1. phase' # "down"
      BY <2>8 DEF LoadFacts
    <3> QED BY <1>1, <2>8, <3>1, LoadFactsShows
  <2>9. CASE ReadingFails
    BY <1>1, <2>9, OtherShows DEF ReadingFails, heldVars
  <2>10. ASSUME NEW q \in Pupils, Enrol(q) PROVE p \in Held'
    BY <1>1, <2>10, OtherShows DEF Enrol, heldVars, accountVars
  <2>11. ASSUME NEW q \in Pupils, Depart(q) PROVE p \in Held'
    BY <1>1, <2>11, OtherShows DEF Depart, heldVars, accountVars
  <2>12. ASSUME NEW q \in Pupils, NEW name \in 1 .. MaxNames, Respell(q, name) PROVE p \in Held'
    BY <1>1, <2>12, OtherShows DEF Respell, heldVars, accountVars
  <2>13. CASE UNCHANGED vars
    BY <1>1, <2>13, OtherShows DEF vars
  <2> QED BY <1>1, <2>1, <2>2, <2>3, <2>4, <2>5, <2>6, <2>7, <2>8, <2>9, <2>10, <2>11, <2>12,
             <2>13 DEF Next
<1>2. RosterInv /\ RosterInv' /\ [Next]_vars =>
         [~namesakes => \A p \in Held : (p \in FollowedPupils' \/ phase' = "down") => p \in Held']_vars
  BY <1>1
<1> QED BY <1>2, RosterAgrees, PTL DEF Spec, NothingShownIsLost

-----------------------------------------------------------------------------
(* The rows older than the keys.  An account of one generation of such rows, *)
(* whose owners stay: with two rows of one pupil, or the row of a pupil who   *)
(* has left, the code may have nothing but a guess (account.py:672-788).     *)

\* The owners of the rows older than the keys are enrolled, and stay.
OldRowsStay ==
    /\ IsInjective(Legacy) /\ Range(Legacy) \intersect Departures = {}
    /\ \A roster \in Rosters : Range(Legacy) \subseteq roster

\* Each has one row left at most, and is announced as long as the entry is up.
OldRowsInv ==
    /\ Range(Legacy) \subseteq enrolled
    /\ \A i \in DOMAIN devices :
          devices[i].row.kind = "id" =>
             /\ devices[i].owner \in Range(Legacy)
             /\ \A j \in DOMAIN devices :
                   devices[j].row.kind = "id" /\ devices[j].owner = devices[i].owner => i = j
    /\ phase # "down" => Range(Legacy) \subseteq {whose[id] : id \in Ids(client)}

\* It is so at first.
LEMMA OldRowsFirst ==
    ASSUME OldRowsStay, Init
    PROVE  OldRowsInv
<1>1. /\ enrolled \in Rosters /\ phase = "down"
      /\ devices = [i \in DOMAIN Legacy |-> [row |-> Row("id", i), owner |-> Legacy[i]]]
  BY DEF Init
<1>2. \A i \in DOMAIN devices : i \in DOMAIN Legacy /\ devices[i].owner = Legacy[i]
  BY <1>1
<1> QED BY <1>1, <1>2 DEF OldRowsInv, OldRowsStay, IsInjective, Range

\* A login announces whoever is enrolled.
LEMMA AllAnnounced ==
    ASSUME SchoolShapes, SchoolInv, NEW rotated \in SUBSET Pupils, LogIn(rotated)
    PROVE  enrolled \subseteq {whose'[id] : id \in Ids(client')} /\ enrolled' = enrolled
<1>1. /\ Range(client') = {Child(idOf'[p], nameOf[p]) : p \in enrolled} /\ SchoolInv'
  BY LogInIs
<1>2. enrolled' = enrolled /\ enrolled \subseteq Pupils
  BY DEF LogIn, SchoolShapes
<1>3. ASSUME NEW p \in enrolled PROVE \E id \in Ids(client') : whose'[id] = p
  <2>1. Child(idOf'[p], nameOf[p]) \in Range(client')
    BY <1>1
  <2>2. PICK i \in DOMAIN client' : client'[i] = Child(idOf'[p], nameOf[p])
    BY <2>1 DEF Range
  <2>3. idOf'[p] \in Ids(client')
    BY <2>2 DEF Ids, Child
  <2>4. whose'[idOf'[p]] = p
    BY <1>1, <1>2 DEF SchoolInv
  <2> QED BY <2>3, <2>4
<1> QED BY <1>2, <1>3

\* A set-up pairs what the login announced with the rows that are there.
LEMMA SetUpAdopts ==
    ASSUME RosterInv, NEW rotated \in SUBSET Pupils, SetUp(rotated)
    PROVE  /\ SchoolShapes /\ EntryShapes /\ RowsInv
           /\ Prolongs(whose, whose') /\ whose' \in Seq(Pupils)
           /\ \E children \in Seq(Record') : AdoptPairing(children, whose')
<1>1. /\ SchoolShapes /\ EntryShapes /\ SchoolInv /\ RowsInv
      /\ LogIn(rotated) /\ AdoptPairing(Followed(client'), whose')
  BY DEF RosterInv, Shapes, SetUp
<1>2. SchoolShapes' /\ Prolongs(whose, whose') /\ DistinctPupils(client', whose')
  BY <1>1, LogInIs
<1>3. whose' \in Seq(Pupils) /\ client' \in Seq(Record')
  BY <1>2 DEF SchoolShapes
<1>4. Followed(client') \in Seq(Record')
  BY <1>2, <1>3, FollowedIs
<1> QED BY <1>1, <1>2, <1>3, <1>4

\* A pairing that is adopted hands rows over, and makes none of the old kind.
LEMMA OldRowsHanded ==
    ASSUME SchoolShapes, EntryShapes, RowsInv, Prolongs(whose, whose'), whose' \in Seq(Pupils),
           NEW children \in Seq(Record'), AdoptPairing(children, whose'), OldRowsInv
    PROVE  \A i \in DOMAIN devices' :
              devices'[i].row.kind = "id" =>
                 /\ devices'[i].owner \in Range(Legacy)
                 /\ \A j \in DOMAIN devices' :
                       devices'[j].row.kind = "id" /\ devices'[j].owner = devices'[i].owner => i = j
<1>1. \A i \in DOMAIN devices' :
         devices'[i].row.kind = "id" => i \in DOMAIN devices /\ devices'[i] = devices[i]
  BY DevicesAre
<1> QED BY <1>1 DEF OldRowsInv

\* Every step keeps it.
LEMMA OldRowsKept ==
    ASSUME OldRowsStay, RosterInv, OldRowsInv, [Next]_vars
    PROVE  OldRowsInv'
<1>0. /\ SchoolShapes /\ EntryShapes /\ RowsInv /\ SchoolInv
  BY DEF RosterInv, Shapes
<1>1. ASSUME NEW rotated \in Rotations, SetUp(rotated) PROVE OldRowsInv'
  <2>1. rotated \in SUBSET Pupils /\ LogIn(rotated)
    BY <1>1, RosterAssumption DEF SetUp
  <2>2. enrolled \subseteq {whose'[id] : id \in Ids(client')} /\ enrolled' = enrolled
    BY <1>0, <2>1, AllAnnounced
  <2>3. \A i \in DOMAIN devices' :
           devices'[i].row.kind = "id" =>
              /\ devices'[i].owner \in Range(Legacy)
              /\ \A j \in DOMAIN devices' :
                    devices'[j].row.kind = "id" /\ devices'[j].owner = devices'[i].owner => i = j
    BY <1>1, <2>1, SetUpAdopts, OldRowsHanded
  <2> QED BY <2>2, <2>3 DEF OldRowsInv
<1>2. ASSUME NEW rotated \in Rotations, Relogin(rotated) PROVE OldRowsInv'
  <2>1. rotated \in SUBSET Pupils /\ LogIn(rotated) /\ devices' = devices
    BY <1>2, RosterAssumption DEF Relogin
  <2>2. enrolled \subseteq {whose'[id] : id \in Ids(client')} /\ enrolled' = enrolled
    BY <1>0, <2>1, AllAnnounced
  <2> QED BY <2>1, <2>2 DEF OldRowsInv
<1>3. CASE Unload
  BY <1>3 DEF Unload, schoolVars, OldRowsInv
<1>4. ASSUME NEW s \in DOMAIN whose, Collect(s) PROVE OldRowsInv'
  BY <1>4 DEF Collect, schoolVars, accountVars, OldRowsInv
<1>5. CASE AdoptNewcomers
  BY <1>5 DEF AdoptNewcomers, schoolVars, OldRowsInv
<1>6. CASE Open
  BY <1>6 DEF Open, schoolVars, OldRowsInv
<1>7. CASE ReadFacts
  BY <1>7 DEF ReadFacts, schoolVars, OldRowsInv
<1>8. CASE LoadFacts
  <2>1. /\ phase = "loading" /\ UNCHANGED <<enrolled, whose, client>>
    BY <1>8 DEF LoadFacts, schoolVars
  <2>2. \A i \in DOMAIN devices' :
           devices'[i].row.kind = "id" =>
              /\ devices'[i].owner \in Range(Legacy)
              /\ \A j \in DOMAIN devices' :
                    devices'[j].row.kind = "id" /\ devices'[j].owner = devices'[i].owner => i = j
    BY <1>8, LoadFactsAdopts, OldRowsHanded
  <2> QED BY <2>1, <2>2 DEF OldRowsInv
<1>9. CASE ReadingFails
  BY <1>9 DEF ReadingFails, schoolVars, OldRowsInv
<1>10. ASSUME NEW p \in Pupils, Enrol(p) PROVE OldRowsInv'
  <2>1. /\ enrolled \subseteq enrolled' /\ whose' = Append(whose, p)
        /\ UNCHANGED <<client, devices, phase>>
    BY <1>10 DEF Enrol, accountVars
  <2>2. \A id \in Ids(client) : whose'[id] = whose[id]
    <3>1. client \in Seq(Record) /\ whose \in Seq(Pupils)
      BY <1>0 DEF SchoolShapes
    <3>2. \A r \in Record : r.id \in DOMAIN whose
      BY DEF Record
    <3>3. Ids(client) \subseteq DOMAIN whose
      BY <3>1, <3>2 DEF Ids
    <3> QED BY <2>1, <3>1, <3>3
  <2>3. /\ Range(Legacy) \subseteq enrolled'
        /\ \A i \in DOMAIN devices' :
              devices'[i].row.kind = "id" =>
                 /\ devices'[i].owner \in Range(Legacy)
                 /\ \A j \in DOMAIN devices' :
                       devices'[j].row.kind = "id" /\ devices'[j].owner = devices'[i].owner => i = j
    BY <2>1 DEF OldRowsInv
  <2>4. Ids(client') = Ids(client)
    BY <2>1
  <2>5. ASSUME phase' # "down", NEW owner \in Range(Legacy)
        PROVE  \E id \in Ids(client') : whose'[id] = owner
    <3>1. \E id \in Ids(client) : whose[id] = owner
      BY <2>1, <2>5 DEF OldRowsInv
    <3> QED BY <3>1, <2>2, <2>4
  <2> QED BY <2>3, <2>5 DEF OldRowsInv
<1>11. ASSUME NEW p \in Pupils, Depart(p) PROVE OldRowsInv'
  <2>1. p \in Departures /\ enrolled' = enrolled \ {p}
    BY <1>11 DEF Depart
  <2>2. UNCHANGED <<whose, client, devices, phase>>
    BY <1>11 DEF Depart, accountVars
  <2>3. Range(Legacy) \subseteq enrolled'
    BY <2>1 DEF OldRowsInv, OldRowsStay
  <2> QED BY <2>2, <2>3 DEF OldRowsInv
<1>12. ASSUME NEW p \in Pupils, NEW name \in 1 .. MaxNames, Respell(p, name) PROVE OldRowsInv'
  BY <1>12 DEF Respell, accountVars, OldRowsInv
<1>13. CASE UNCHANGED vars
  BY <1>13 DEF vars, OldRowsInv
<1> QED BY <1>1, <1>2, <1>3, <1>4, <1>5, <1>6, <1>7, <1>8, <1>9, <1>10, <1>11, <1>12, <1>13 DEF Next

\* The row a pairing hands over goes to its owner's key when the owner is followed.
LEMMA HandedToOwner ==
    ASSUME SchoolShapes, EntryShapes, RowsInv, Prolongs(whose, whose'), whose' \in Seq(Pupils),
           NEW children \in Seq(Record'), AdoptPairing(children, whose'),
           RosterInv', ~namesakes', OldRowsInv,
           NEW i \in DOMAIN devices, devices[i].row.kind = "id", devices'[i].row.kind = "key",
           devices[i].owner \in FollowedPupils'
    PROVE  mintedFor'[devices'[i].row.n] = devices[i].owner
<1> DEFINE n == devices[i].row.n
<1>1. \/ n \in DOMAIN keys' /\ devices'[i].row.n = keys'[n]
      \/ n \notin DOMAIN keys' /\ Unmoved(keys') = {devices'[i].row.n}
  BY DevicesAre
<1>2. n \in DOMAIN whose /\ devices[i].owner = whose[n] /\ whose'[n] = whose[n]
  BY DEF RowsInv, OwnRow, Prolongs
<1>3. CASE n \in DOMAIN keys' /\ devices'[i].row.n = keys'[n]
  BY <1>2, <1>3, KeysAreThen
<1>4. CASE n \notin DOMAIN keys' /\ Unmoved(keys') = {devices'[i].row.n}
  <2>1. PICK t \in Range(students') : whose'[t] = devices[i].owner
    BY DEF FollowedPupils
  <2>2. t \in DOMAIN keys' /\ t # n
    BY <1>4, <2>1 DEF RosterInv, Shapes, HeldShapes
  <2>3. t \notin Movable(keys')
    <3> SUFFICES ASSUME t \in Movable(keys') PROVE FALSE
      OBVIOUS
    <3>1. PICK j \in DOMAIN devices : devices[j].row = Row("id", t)
      BY DEF Movable, HasRow
    <3>2. devices[j].row.kind = "id" /\ devices[j].row.n = t
      BY <3>1 DEF Row
    <3>3. t \in DOMAIN whose /\ devices[j].owner = whose[t]
      BY <3>2 DEF RowsInv, OwnRow
    <3>4. devices[j].owner = devices[i].owner
      BY <3>3, <2>1 DEF Prolongs
    <3>5. i = j
      BY <3>2, <3>4 DEF OldRowsInv
    <3> QED BY <3>2, <3>5, <2>2
  <2>4. keys'[t] \in Unmoved(keys')
    BY <2>2, <2>3 DEF Unmoved
  <2>5. keys'[t] = devices'[i].row.n
    BY <2>4, <1>4
  <2> QED BY <2>1, <2>2, <2>5, KeysAreThen
<1> QED BY <1>1, <1>3, <1>4

\* A row made under a rotated identifier is never handed to another pupil, when
\* every child the account lists is followed (_async_adopt_rotated_rows).
THEOREM RosterRowsKeepOwner ==
    ASSUME OldRowsStay
    PROVE  Spec => RowsKeepOwner
<1>1. Init => RosterInv /\ OldRowsInv
  BY InitHolds, OldRowsFirst
<1>2. RosterInv /\ OldRowsInv /\ [Next]_vars => (RosterInv /\ OldRowsInv)'
  BY NextKeeps, OldRowsKept
<1>3. ASSUME RosterInv, OldRowsInv, RosterInv', OldRowsInv', [Next]_vars, ~namesakes,
             FollowedPupils' = {whose'[id] : id \in Ids(client')},
             NEW i \in DOMAIN devices, devices[i].row.kind = "id", devices'[i].row.kind = "key"
      PROVE  mintedFor'[devices'[i].row.n] = devices[i].owner
  <2>0. devices[i].owner \in Range(Legacy)
    BY <1>3 DEF OldRowsInv
  <2>1. ASSUME NEW rotated \in Rotations, SetUp(rotated)
        PROVE  mintedFor'[devices'[i].row.n] = devices[i].owner
    <3>1. rotated \in SUBSET Pupils
      BY RosterAssumption
    <3>2. phase' # "down" /\ ~namesakes'
      BY <1>3, <2>1 DEF SetUp, LogIn
    <3>3. devices[i].owner \in FollowedPupils'
      BY <1>3, <2>0, <3>2 DEF OldRowsInv
    <3>4. /\ SchoolShapes /\ EntryShapes /\ RowsInv
          /\ Prolongs(whose, whose') /\ whose' \in Seq(Pupils)
          /\ \E children \in Seq(Record') : AdoptPairing(children, whose')
      BY <1>3, <2>1, <3>1, SetUpAdopts
    <3> QED BY <1>3, <3>2, <3>3, <3>4, HandedToOwner
  <2>2. CASE LoadFacts
    <3>1. phase' # "down" /\ ~namesakes'
      BY <1>3, <2>2 DEF LoadFacts, schoolVars
    <3>2. devices[i].owner \in FollowedPupils'
      BY <1>3, <2>0, <3>1 DEF OldRowsInv
    <3>3. /\ SchoolShapes /\ EntryShapes /\ RowsInv
          /\ Prolongs(whose, whose') /\ whose' \in Seq(Pupils)
          /\ Append(heard, Facts) \in Seq(Record') /\ AdoptPairing(Append(heard, Facts), whose')
      BY <1>3, <2>2, LoadFactsAdopts
    <3> QED BY <1>3, <3>1, <3>2, <3>3, HandedToOwner
  <2>3. CASE devices' = devices
    BY <1>3, <2>3
  <2>4. \/ \E rotated \in Rotations : SetUp(rotated)
        \/ LoadFacts
        \/ devices' = devices
    BY <1>3 DEF Next, Relogin, Unload, Collect, AdoptNewcomers, Open, ReadFacts, ReadingFails,
                Enrol, Depart, Respell, vars
  <2> QED BY <2>1, <2>2, <2>3, <2>4
<1>4. RosterInv /\ OldRowsInv /\ (RosterInv /\ OldRowsInv)' /\ [Next]_vars =>
         [~namesakes /\ FollowedPupils' = {whose'[id] : id \in Ids(client')} =>
            \A i \in DOMAIN devices :
               devices[i].row.kind = "id" /\ devices'[i].row.kind = "key" =>
                  mintedFor'[devices'[i].row.n] = devices[i].owner]_vars
  BY <1>3
<1> QED BY <1>1, <1>2, <1>4, PTL DEF Spec, RowsKeepOwner
=============================================================================
