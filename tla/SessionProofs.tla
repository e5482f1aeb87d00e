--------------------------- MODULE SessionProofs ---------------------------
(***************************************************************************)
(* What the session manager promises, for every number of services, every  *)
(* strategy and every server: proofs for SessionManager.                   *)
(***************************************************************************)
EXTENDS SessionManager, SequenceTheorems, TLAPS

Started == {"login", "handshake", "call", "flying"}

Waits(t) == \E i \in DOMAIN gate : gate[i] = t

\* Who is past idle waits in the gate once, and only its head has started.
GateInv ==
    /\ \A i, j \in DOMAIN gate : gate[i] = gate[j] => i = j
    /\ \A t \in Tasks : pc[t] # "idle" <=> Waits(t)
    /\ \A t \in Tasks : pc[t] \in Started => Holds(t)

\* Before its first login a unit has called nothing; a unit back at the limiter
\* for a login has called at most once.
UnitInv ==
    \A t \in Tasks :
        /\ pc[t] \in {"idle", "queued"} => unit[t] = NoUnit
        /\ pc[t] \in {"login", "handshake"} =>
               unit[t].calls <= 1 /\ unit[t].logins <= unit[t].calls
        /\ pc[t] \in {"call", "flying"} =>
               unit[t].calls \in 1 .. 2 /\ unit[t].logins <= unit[t].calls

\* A unit on its way to the server has a client, one on its way to a login none.
ClientInv ==
    /\ ClientStaysPut
    /\ \A t \in Tasks : pc[t] \in {"login", "handshake"} => ~client

\* What the account of logins says of the client that is held: one login paid in
\* advance for a client of this batch, none spent on a client of an earlier one.
BudgetInv ==
    /\ lastSuccess <= clock
    /\ batchStart # None =>
        /\ batchStart <= clock
        /\ batchLogins <= 1 + batchExpiries + (clock - batchStart) \div PresumedDead
        /\ client /\ sessionFresh =>
            /\ batchStart <= lastSuccess
            /\ batchLogins <= 1 + batchExpiries + (lastSuccess - batchStart) \div PresumedDead
        /\ client /\ ~sessionFresh => batchLogins = 0
        /\ ~client /\ (closed => \E t \in Tasks : pc[t] = "handshake") =>
               batchLogins <= batchExpiries + (clock - batchStart) \div PresumedDead

-----------------------------------------------------------------------------
(* The gate.                                                               *)

\* Leaving takes one waiter out and keeps the others in their order.
LEMMA WithoutOne ==
    ASSUME gate \in Seq(Tasks), GateInv, NEW place \in DOMAIN gate
    PROVE  /\ GateWithout(gate[place]) \in Seq(Tasks)
           /\ DOMAIN GateWithout(gate[place]) = 1 .. Len(gate) - 1
           /\ Len(GateWithout(gate[place])) = Len(gate) - 1
           /\ \A i \in 1 .. Len(gate) - 1 :
                  GateWithout(gate[place])[i] = IF i < place THEN gate[i] ELSE gate[i + 1]
<1> DEFINE t == gate[place]
           left_ == [i \in 1 .. Len(gate) - 1 |-> IF i < place THEN gate[i] ELSE gate[i + 1]]
<1>1. /\ Len(gate) \in Nat /\ DOMAIN gate = 1 .. Len(gate)
      /\ \A i \in 1 .. Len(gate) : gate[i] \in Tasks
  BY LenProperties
<1>2. (CHOOSE i \in DOMAIN gate : gate[i] = t) = place
  BY DEF GateInv
<1>3. GateWithout(t) = left_
  BY <1>2 DEF GateWithout
<1>4. \A i \in 1 .. Len(gate) - 1 : (IF i < place THEN gate[i] ELSE gate[i + 1]) \in Tasks
  BY <1>1
<1>5. left_ \in [1 .. Len(gate) - 1 -> Tasks]
  BY <1>4
<1>6. Len(gate) - 1 \in Nat
  BY <1>1
<1>7. left_ \in Seq(Tasks)
  BY <1>5, <1>6, SeqDef
<1>8. DOMAIN left_ = 1 .. Len(gate) - 1
  BY <1>5
<1>9. Len(left_) = Len(gate) - 1
  BY <1>6, <1>7, <1>8, LenProperties
<1> QED BY <1>3, <1>7, <1>8, <1>9

\* At most one unit of work has started.
LEMMA HolderAlone ==
    ASSUME GateInv, NEW t \in Tasks, Holds(t), NEW u \in Tasks \ {t}
    PROVE  pc[u] \notin Started
BY DEF GateInv, Holds

\* A unit that leaves leaves the gate in order.
LEMMA LeaveTidy ==
    ASSUME TypeOK, GateInv, NEW t \in Tasks, pc[t] # "idle", Leave(t)
    PROVE  /\ gate' \in Seq(Tasks)
           /\ pc' \in [Tasks -> {"idle", "queued", "login", "handshake", "call", "flying"}]
           /\ unit' \in [Tasks -> [calls : Nat, logins : Nat]]
           /\ GateInv'
<1>1. PICK place \in DOMAIN gate : gate[place] = t
  BY DEF GateInv, Waits
<1>2. /\ Len(gate) \in Nat /\ DOMAIN gate = 1 .. Len(gate)
      /\ \A i \in 1 .. Len(gate) : gate[i] \in Tasks
  BY LenProperties DEF TypeOK
<1>3. /\ gate' \in Seq(Tasks)
      /\ DOMAIN gate' = 1 .. Len(gate) - 1
      /\ Len(gate') = Len(gate) - 1
      /\ \A i \in 1 .. Len(gate) - 1 :
             gate'[i] = IF i < place THEN gate[i] ELSE gate[i + 1]
  BY <1>1, WithoutOne DEF Leave, TypeOK
<1>4. /\ pc' \in [Tasks -> {"idle", "queued", "login", "handshake", "call", "flying"}]
      /\ unit' \in [Tasks -> [calls : Nat, logins : Nat]]
  BY DEF Leave, TypeOK, NoUnit
<1>5. \A i, j \in DOMAIN gate' : gate'[i] = gate'[j] => i = j
  <2> SUFFICES ASSUME NEW i \in DOMAIN gate', NEW j \in DOMAIN gate', gate'[i] = gate'[j]
               PROVE  i = j
    OBVIOUS
  <2> DEFINE was(k) == IF k < place THEN k ELSE k + 1
  <2>1. \A k \in DOMAIN gate' : was(k) \in DOMAIN gate /\ gate'[k] = gate[was(k)]
    BY <1>2, <1>3
  <2>2. was(i) = was(j)
    BY <2>1 DEF GateInv
  <2> QED BY <1>2, <1>3, <2>2
<1>6. ASSUME NEW u \in Tasks PROVE pc'[u] # "idle" <=> Waits(u)'
  <2>1. CASE u = t
    <3>1. pc'[u] = "idle"
      BY <2>1 DEF Leave, TypeOK
    <3>2. \A i \in DOMAIN gate' : gate'[i] # t
      BY <1>1, <1>2, <1>3 DEF GateInv
    <3> QED BY <2>1, <3>1, <3>2 DEF Waits
  <2>2. CASE u # t
    <3>1. pc'[u] = pc[u]
      BY <2>2 DEF Leave, TypeOK
    <3>2. ASSUME NEW i \in DOMAIN gate, gate[i] = u PROVE \E j \in DOMAIN gate' : gate'[j] = u
      <4>1. CASE i < place
        BY <1>1, <1>2, <1>3, <3>2, <4>1
      <4>2. CASE i > place
        <5>1. i - 1 \in DOMAIN gate'
          BY <1>1, <1>2, <1>3, <4>2
        <5>2. gate'[i - 1] = gate[i]
          BY <1>1, <1>2, <1>3, <4>2, <5>1
        <5> QED BY <3>2, <5>1, <5>2
      <4>3. i # place
        BY <1>1, <2>2, <3>2
      <4> QED BY <1>1, <1>2, <4>1, <4>2, <4>3
    <3>3. ASSUME NEW i \in DOMAIN gate', gate'[i] = u PROVE \E j \in DOMAIN gate : gate[j] = u
      BY <1>2, <1>3, <3>3
    <3>4. Waits(u)' <=> Waits(u)
      BY <3>2, <3>3 DEF Waits
    <3> QED BY <3>1, <3>4 DEF GateInv
  <2> QED BY <2>1, <2>2
<1>7. ASSUME NEW u \in Tasks, pc'[u] \in Started PROVE Holds(u)'
  <2>1. u # t /\ pc[u] \in Started
    BY <1>7 DEF Leave, TypeOK, Started
  <2>2. gate # <<>> /\ Head(gate) = u
    BY <2>1 DEF GateInv, Holds
  <2>3. gate[1] = u /\ Len(gate) >= 1 /\ place # 1
    BY <1>1, <1>2, <2>1, <2>2 DEF TypeOK
  <2>4. Len(gate') >= 1 /\ gate'[1] = u
    BY <1>1, <1>2, <1>3, <2>3
  <2> QED BY <1>3, <2>4 DEF Holds
<1> QED BY <1>3, <1>4, <1>5, <1>6, <1>7 DEF GateInv

\* A unit that moves on at the head of the gate, the gate left alone.
LEMMA MoveTidy ==
    ASSUME TypeOK, GateInv, NEW t \in Tasks, NEW where \in Started,
           Holds(t), pc[t] # "idle", pc' = [pc EXCEPT ![t] = where], gate' = gate
    PROVE  /\ pc' \in [Tasks -> {"idle", "queued", "login", "handshake", "call", "flying"}]
           /\ gate' \in Seq(Tasks)
           /\ GateInv'
<1>1. \A u \in Tasks : (pc'[u] # "idle") <=> (pc[u] # "idle")
  BY DEF TypeOK, Started
<1>2. \A u \in Tasks : pc'[u] \in Started => u = t \/ pc[u] \in Started
  BY DEF TypeOK
<1>3. \A u \in Tasks : (Waits(u)' <=> Waits(u)) /\ (Holds(u)' <=> Holds(u))
  BY DEF Waits, Holds
<1>4. \A i, j \in DOMAIN gate' : gate'[i] = gate'[j] => i = j
  BY DEF GateInv
<1>5. \A u \in Tasks : pc'[u] # "idle" <=> Waits(u)'
  BY <1>1, <1>3 DEF GateInv
<1>6. \A u \in Tasks : pc'[u] \in Started => Holds(u)'
  BY <1>2, <1>3 DEF GateInv
<1> QED BY <1>4, <1>5, <1>6 DEF GateInv, TypeOK, Started

\* A unit that comes queues behind the others.
LEMMA RequestTidy ==
    ASSUME TypeOK, GateInv, NEW t \in Tasks, pc[t] = "idle",
           pc' = [pc EXCEPT ![t] = "queued"], gate' = Append(gate, t)
    PROVE  /\ pc' \in [Tasks -> {"idle", "queued", "login", "handshake", "call", "flying"}]
           /\ gate' \in Seq(Tasks)
           /\ GateInv'
<1>1. /\ Len(gate) \in Nat /\ DOMAIN gate = 1 .. Len(gate)
      /\ \A i \in 1 .. Len(gate) : gate[i] \in Tasks
  BY LenProperties DEF TypeOK
<1>2. /\ gate' \in Seq(Tasks) /\ DOMAIN gate' = 1 .. Len(gate) + 1 /\ Len(gate') = Len(gate) + 1
      /\ gate'[Len(gate) + 1] = t
      /\ \A i \in 1 .. Len(gate) : gate'[i] = gate[i]
  BY <1>1, LenProperties, AppendProperties DEF TypeOK
<1>3. pc' \in [Tasks -> {"idle", "queued", "login", "handshake", "call", "flying"}]
  BY DEF TypeOK
<1>4. \A i \in DOMAIN gate : gate[i] # t
  BY DEF GateInv, Waits
<1>5. \A i, j \in DOMAIN gate' : gate'[i] = gate'[j] => i = j
  <2> SUFFICES ASSUME NEW i \in DOMAIN gate', NEW j \in DOMAIN gate', gate'[i] = gate'[j]
               PROVE  i = j
    OBVIOUS
  <2>1. CASE i \in DOMAIN gate /\ j \in DOMAIN gate
    BY <1>1, <1>2, <2>1 DEF GateInv
  <2>2. CASE i = Len(gate) + 1
    BY <1>1, <1>2, <1>4, <2>2
  <2>3. CASE j = Len(gate) + 1
    BY <1>1, <1>2, <1>4, <2>3
  <2> QED BY <1>1, <1>2, <2>1, <2>2, <2>3
<1>6. ASSUME NEW u \in Tasks PROVE pc'[u] # "idle" <=> Waits(u)'
  <2>1. CASE u = t
    <3>1. pc'[u] = "queued"
      BY <2>1 DEF TypeOK
    <3>2. Len(gate) + 1 \in DOMAIN gate'
      BY <1>1, <1>2
    <3> QED BY <1>2, <2>1, <3>1, <3>2 DEF Waits
  <2>2. CASE u # t
    <3>1. pc'[u] = pc[u]
      BY <2>2 DEF TypeOK
    <3>2. Waits(u)' <=> Waits(u)
      BY <1>1, <1>2, <2>2 DEF Waits
    <3> QED BY <3>1, <3>2 DEF GateInv
  <2> QED BY <2>1, <2>2
<1>7. ASSUME NEW u \in Tasks, pc'[u] \in Started PROVE Holds(u)'
  <2>1. pc[u] \in Started
    BY <1>7 DEF TypeOK, Started
  <2>2. gate # <<>> /\ Head(gate) = u
    BY <2>1 DEF GateInv, Holds
  <2>3. Len(gate) >= 1 /\ gate[1] = u
    BY <1>1, <2>2 DEF TypeOK
  <2>4. Len(gate') >= 1 /\ gate'[1] = u
    BY <1>1, <1>2, <2>3
  <2> QED BY <1>2, <2>4 DEF Holds
<1> QED BY <1>2, <1>3, <1>5, <1>6, <1>7 DEF GateInv

-----------------------------------------------------------------------------
(* Types and the gate.                                                     *)

States == {"idle", "queued", "login", "handshake", "call", "flying"}

\* The steps of a unit that end it.
Leaves(t) ==
    \/ TurnedAway(t) \/ Cancel(t) \/ LoginFails(t) \/ LoginAbandoned(t)
    \/ CallSucceeds(t) \/ ReplayExpired(t)
    \/ \E answer \in AllAnswers : CallFails(t, answer)

\* The steps of a unit that go on, at the head of the gate.
Moves(t) == Start(t) \/ Submit(t) \/ LoginSucceeds(t) \/ SessionExpired(t)

\* The steps of the batch, the worker, the server and time.
Around == BeginBatch \/ EndBatch \/ StragglerEnds \/ Close \/ ServerDrops \/ Tick

\* A step is a request, a unit moving or leaving, or something around them.
LEMMA Kinds ==
    ASSUME [Next]_vars
    PROVE  \/ \E t \in Tasks : Request(t) \/ Moves(t) \/ Leaves(t)
           \/ Around
           \/ UNCHANGED vars
BY DEF Next, UnitStep, Moves, Leaves, Around

\* Every step that ends a unit leaves the gate, and its unit had begun to wait.
LEMMA LeavesLeave ==
    ASSUME NEW t \in Tasks, Leaves(t)
    PROVE  Leave(t) /\ pc[t] # "idle"
BY DEF Leaves, TurnedAway, Cancel, LoginFails, LoginAbandoned, CallSucceeds,
       ReplayExpired, Expired, CallFails

\* Every step that goes on is the holder's.
LEMMA MovesHold ==
    ASSUME TypeOK, GateInv, NEW t \in Tasks, Moves(t)
    PROVE  /\ Holds(t) /\ pc[t] # "idle" /\ gate' = gate
           /\ \E where \in Started : pc' = [pc EXCEPT ![t] = where]
<1>1. CASE Start(t)
  BY <1>1 DEF Start, Started
<1>2. CASE Submit(t)
  BY <1>2 DEF Submit, Started, GateInv
<1>3. CASE LoginSucceeds(t)
  BY <1>3 DEF LoginSucceeds, Started, GateInv
<1>4. CASE SessionExpired(t)
  BY <1>4 DEF SessionExpired, Expired, Started, GateInv
<1> QED BY <1>1, <1>2, <1>3, <1>4 DEF Moves

\* The gate stays in order.
LEMMA GateStep ==
    ASSUME TypeOK, GateInv, [Next]_vars
    PROVE  /\ pc' \in [Tasks -> States]
           /\ gate' \in Seq(Tasks)
           /\ GateInv'
<1>1. ASSUME NEW t \in Tasks, Request(t)
      PROVE  pc' \in [Tasks -> States] /\ gate' \in Seq(Tasks) /\ GateInv'
  BY <1>1, RequestTidy DEF Request, States
<1>2. ASSUME NEW t \in Tasks, Moves(t)
      PROVE  pc' \in [Tasks -> States] /\ gate' \in Seq(Tasks) /\ GateInv'
  BY <1>2, MovesHold, MoveTidy DEF States
<1>3. ASSUME NEW t \in Tasks, Leaves(t)
      PROVE  pc' \in [Tasks -> States] /\ gate' \in Seq(Tasks) /\ GateInv'
  BY <1>3, LeavesLeave, LeaveTidy DEF States
<1>4. CASE Around \/ UNCHANGED vars
  <2>1. gate' = gate /\ pc' = pc
    BY <1>4 DEF Around, vars, BeginBatch, EndBatch, StragglerEnds, Close, ServerDrops, Tick
  <2>2. GateInv'
    BY <2>1 DEF GateInv, Waits, Holds
  <2> QED BY <2>1, <2>2 DEF TypeOK, States
<1> QED BY <1>1, <1>2, <1>3, <1>4, Kinds

\* How far a unit of work is, with what it has called and logged in.
LEMMA UnitStepInv ==
    ASSUME TypeOK, GateInv, UnitInv, [Next]_vars
    PROVE  UnitInv' /\ unit' \in [Tasks -> [calls : Nat, logins : Nat]]
<1>1. CASE \E t \in Tasks : Request(t)
  <2>1. PICK t \in Tasks : Request(t)
    BY <1>1
  <2> QED BY <2>1 DEF Request, UnitInv, TypeOK
<1>2. ASSUME NEW t \in Tasks, Leaves(t)
      PROVE  UnitInv' /\ unit' \in [Tasks -> [calls : Nat, logins : Nat]]
  <2>1. Leave(t)
    BY <1>2, LeavesLeave
  <2> QED BY <2>1 DEF Leave, UnitInv, TypeOK, NoUnit
<1>3. ASSUME NEW t \in Tasks, Start(t)
      PROVE  UnitInv' /\ unit' \in [Tasks -> [calls : Nat, logins : Nat]]
  <2>1. unit[t] = NoUnit
    BY <1>3 DEF Start, UnitInv
  <2>2. CASE client /\ ~ReconnectRequired
    <3>1. pc' = [pc EXCEPT ![t] = "call"] /\ unit' = [unit EXCEPT ![t].calls = 1]
      BY <1>3, <2>2 DEF Start
    <3> QED BY <2>1, <3>1 DEF UnitInv, TypeOK, NoUnit
  <2>3. CASE ~(client /\ ~ReconnectRequired)
    <3>1. pc' = [pc EXCEPT ![t] = "login"] /\ unit' = unit
      BY <1>3, <2>3 DEF Start
    <3> QED BY <2>1, <3>1 DEF UnitInv, TypeOK, NoUnit
  <2> QED BY <2>2, <2>3
<1>4. ASSUME NEW t \in Tasks, Submit(t)
      PROVE  UnitInv' /\ unit' \in [Tasks -> [calls : Nat, logins : Nat]]
  BY <1>4 DEF Submit, UnitInv, TypeOK
<1>5. ASSUME NEW t \in Tasks, LoginSucceeds(t)
      PROVE  UnitInv' /\ unit' \in [Tasks -> [calls : Nat, logins : Nat]]
  BY <1>5 DEF LoginSucceeds, UnitInv, TypeOK
<1>6. ASSUME NEW t \in Tasks, SessionExpired(t)
      PROVE  UnitInv' /\ unit' \in [Tasks -> [calls : Nat, logins : Nat]]
  BY <1>6 DEF SessionExpired, Expired, Replaying, UnitInv, TypeOK
<1>7. CASE Around \/ UNCHANGED vars
  <2>1. unit' = unit /\ pc' = pc
    BY <1>7 DEF Around, vars, BeginBatch, EndBatch, StragglerEnds, Close, ServerDrops, Tick
  <2> QED BY <2>1 DEF UnitInv, TypeOK
<1> QED BY <1>1, <1>2, <1>3, <1>4, <1>5, <1>6, <1>7, Kinds DEF Moves

\* The types of what is neither the gate nor a unit: switches, and numbers.
SwitchTypes ==
    /\ client \in BOOLEAN /\ sessionFresh \in BOOLEAN /\ confirmed \in BOOLEAN
    /\ failing \in BOOLEAN /\ tokenCurrent \in BOOLEAN /\ closed \in BOOLEAN
    /\ straggler \in {"none", "login", "call"}

NumberTypes ==
    /\ clock \in Nat
    /\ seenAt \in Nat \union {None} /\ lastSuccess \in Nat \union {None}
    /\ lastProbe \in Nat \union {None} /\ shortest \in Nat \union {None}
    /\ batchStart \in Nat \union {None}
    /\ expiries \in Nat /\ left \in Nat /\ batchLogins \in Nat /\ batchExpiries \in Nat

\* Switches stay switches.
LEMMA SwitchStep ==
    ASSUME SwitchTypes, [Next]_vars
    PROVE  SwitchTypes'
<1> USE DEF clientVars, lifetimeVars, batchVars, historyVars, workerVars
<1>1. ASSUME NEW t \in Tasks, Request(t) PROVE SwitchTypes'
  BY <1>1 DEF Request, SwitchTypes
<1>2. ASSUME NEW t \in Tasks, Start(t) PROVE SwitchTypes'
  BY <1>2 DEF Start, Reopen, SwitchTypes
<1>3. ASSUME NEW t \in Tasks, Submit(t) \/ TurnedAway(t) PROVE SwitchTypes'
  BY <1>3 DEF Submit, TurnedAway, SwitchTypes
<1>4. ASSUME NEW t \in Tasks, Cancel(t) PROVE SwitchTypes'
  BY <1>4 DEF Cancel, Straggle, SwitchTypes
<1>5. ASSUME NEW t \in Tasks, LoginFails(t) \/ LoginAbandoned(t) PROVE SwitchTypes'
  BY <1>5 DEF LoginFails, LoginAbandoned, Straggle, SwitchTypes
<1>6. ASSUME NEW t \in Tasks, LoginSucceeds(t) PROVE SwitchTypes'
  BY <1>6 DEF LoginSucceeds, SwitchTypes
<1>7. ASSUME NEW t \in Tasks, CallSucceeds(t) PROVE SwitchTypes'
  BY <1>7 DEF CallSucceeds, NoteSurvival, SwitchTypes
<1>8. ASSUME NEW t \in Tasks, NEW answer \in AllAnswers, CallFails(t, answer) PROVE SwitchTypes'
  <2>1. failing' \in BOOLEAN
    BY <1>8 DEF CallFails, SwitchTypes
  <2> QED BY <1>8, <2>1 DEF CallFails, Straggle, SwitchTypes
<1>9. ASSUME NEW t \in Tasks, SessionExpired(t) PROVE SwitchTypes'
  BY <1>9 DEF SessionExpired, Expired, NoteExpiry, Reopen, SwitchTypes
<1>10. ASSUME NEW t \in Tasks, ReplayExpired(t) PROVE SwitchTypes'
  <2>1. failing' \in BOOLEAN
    BY <1>10 DEF ReplayExpired, SwitchTypes
  <2> QED BY <1>10, <2>1 DEF ReplayExpired, Expired, SwitchTypes
<1>11. CASE BeginBatch
  BY <1>11 DEF BeginBatch, SwitchTypes
<1>12. CASE EndBatch
  BY <1>12 DEF EndBatch, SwitchTypes
<1>13. CASE StragglerEnds
  BY <1>13 DEF StragglerEnds, SwitchTypes
<1>14. CASE Close
  BY <1>14 DEF Close, SwitchTypes
<1>15. CASE ServerDrops
  BY <1>15 DEF ServerDrops, SwitchTypes
<1>16. CASE Tick
  BY <1>16 DEF Tick, SwitchTypes
<1>17. CASE UNCHANGED vars
  BY <1>17 DEF vars, SwitchTypes
<1> QED BY <1>1, <1>2, <1>3, <1>4, <1>5, <1>6, <1>7, <1>8, <1>9,
     <1>10, <1>11, <1>12, <1>13, <1>14, <1>15, <1>16, <1>17, Kinds DEF Moves, Leaves, Around

\* Times and counters stay numbers.
LEMMA NumberStep ==
    ASSUME NumberTypes, [Next]_vars
    PROVE  NumberTypes'
<1> USE DEF clientVars, lifetimeVars, batchVars, historyVars, workerVars
<1>a. MinSample \in Nat /\ CallsPerBatch \in Nat
  BY SessionAssumption
<1>1. ASSUME NEW t \in Tasks, Request(t) PROVE NumberTypes'
  BY <1>1 DEF Request, NumberTypes, None
<1>2. ASSUME NEW t \in Tasks, Start(t) PROVE NumberTypes'
  BY <1>2 DEF Start, Reopen, NumberTypes, None
<1>3. ASSUME NEW t \in Tasks, Submit(t) \/ TurnedAway(t) PROVE NumberTypes'
  BY <1>3 DEF Submit, TurnedAway, NumberTypes, None
<1>4. ASSUME NEW t \in Tasks, Cancel(t) PROVE NumberTypes'
  BY <1>4 DEF Cancel, Straggle, NumberTypes, None
<1>5. ASSUME NEW t \in Tasks, LoginFails(t) \/ LoginAbandoned(t) PROVE NumberTypes'
  BY <1>5 DEF LoginFails, LoginAbandoned, Straggle, NumberTypes, None
<1>6. ASSUME NEW t \in Tasks, LoginSucceeds(t) PROVE NumberTypes'
  BY <1>6 DEF LoginSucceeds, NumberTypes, None
<1>7. ASSUME NEW t \in Tasks, CallSucceeds(t) PROVE NumberTypes'
  BY <1>7 DEF CallSucceeds, NoteSurvival, NumberTypes, None
<1>8. ASSUME NEW t \in Tasks, NEW answer \in AllAnswers, CallFails(t, answer) PROVE NumberTypes'
  BY <1>8 DEF CallFails, Straggle, NumberTypes, None
<1>9. ASSUME NEW t \in Tasks, SessionExpired(t) PROVE NumberTypes'
  <2>1. Gap \in Int
    BY DEF NumberTypes, Gap, None
  <2>2. shortest' \in Nat \union {None}
    BY <1>a, <1>9, <2>1 DEF SessionExpired, NoteExpiry, NumberTypes
  <2> QED BY <1>9, <2>2 DEF SessionExpired, Expired, NoteExpiry, Reopen, NumberTypes, None
<1>10. ASSUME NEW t \in Tasks, ReplayExpired(t) PROVE NumberTypes'
  BY <1>10 DEF ReplayExpired, Expired, NumberTypes, None
<1>11. CASE BeginBatch
  BY <1>a, <1>11 DEF BeginBatch, NumberTypes, None
<1>12. CASE EndBatch
  BY <1>12 DEF EndBatch, NumberTypes, None
<1>13. CASE StragglerEnds
  BY <1>13 DEF StragglerEnds, NumberTypes, None
<1>14. CASE Close
  BY <1>14 DEF Close, NumberTypes, None
<1>15. CASE ServerDrops
  BY <1>15 DEF ServerDrops, NumberTypes, None
<1>16. CASE Tick
  BY <1>16 DEF Tick, NumberTypes, None
<1>17. CASE UNCHANGED vars
  BY <1>17 DEF vars, NumberTypes
<1> QED BY <1>1, <1>2, <1>3, <1>4, <1>5, <1>6, <1>7, <1>8, <1>9,
     <1>10, <1>11, <1>12, <1>13, <1>14, <1>15, <1>16, <1>17, Kinds DEF Moves, Leaves, Around

\* Types are kept by every step.
LEMMA TypeStep ==
    ASSUME TypeOK, GateInv, UnitInv, [Next]_vars
    PROVE  TypeOK'
<1>1. SwitchTypes /\ NumberTypes
  BY DEF TypeOK, SwitchTypes, NumberTypes
<1>2. SwitchTypes' /\ NumberTypes'
  BY <1>1, SwitchStep, NumberStep
<1>3. /\ pc' \in [Tasks -> States] /\ gate' \in Seq(Tasks)
      /\ unit' \in [Tasks -> [calls : Nat, logins : Nat]]
  BY GateStep, UnitStepInv
<1> QED BY <1>2, <1>3 DEF SwitchTypes, NumberTypes, TypeOK, States

-----------------------------------------------------------------------------
(* The client.                                                             *)

\* Nobody but the holder of the gate, and close, takes a client away.
LEMMA ClientStep ==
    ASSUME TypeOK, GateInv, ClientInv, [Next]_vars
    PROVE  ClientInv'
<1> USE DEF clientVars, lifetimeVars, batchVars, historyVars, workerVars
<1>a. pc \in [Tasks -> States] /\ client \in BOOLEAN /\ closed \in BOOLEAN
  BY DEF TypeOK, States
<1>b. ASSUME NEW t \in Tasks, Holds(t), NEW u \in Tasks \ {t} PROVE pc[u] \in {"idle", "queued"}
  BY <1>a, <1>b, HolderAlone DEF States, Started
<1>1. ASSUME NEW t \in Tasks, Request(t) PROVE ClientInv'
  BY <1>a, <1>1 DEF Request, ClientInv, ClientStaysPut
<1>2. ASSUME NEW t \in Tasks, Start(t) PROVE ClientInv'
  <2>1. Holds(t)
    BY <1>2 DEF Start
  <2> QED BY <1>a, <1>b, <1>2, <2>1 DEF Start, Reopen, ClientInv, ClientStaysPut
<1>3. ASSUME NEW t \in Tasks, Submit(t) PROVE ClientInv'
  BY <1>a, <1>3 DEF Submit, ClientInv, ClientStaysPut
<1>4. ASSUME NEW t \in Tasks, Leaves(t) PROVE ClientInv'
  <2>1. Leave(t) /\ client' = client /\ closed' = closed
    BY <1>4, LeavesLeave DEF Leaves, TurnedAway, Cancel, LoginFails, LoginAbandoned,
       CallSucceeds, ReplayExpired, Expired, CallFails
  <2> QED BY <1>a, <2>1 DEF Leave, ClientInv, ClientStaysPut
<1>5. ASSUME NEW t \in Tasks, LoginSucceeds(t) PROVE ClientInv'
  <2>1. Holds(t)
    BY <1>5 DEF LoginSucceeds, GateInv, Started
  <2> QED BY <1>a, <1>b, <1>5, <2>1 DEF LoginSucceeds, ClientInv, ClientStaysPut
<1>6. ASSUME NEW t \in Tasks, SessionExpired(t) PROVE ClientInv'
  <2>1. Holds(t)
    BY <1>6 DEF SessionExpired, Expired, GateInv, Started
  <2> QED BY <1>a, <1>b, <1>6, <2>1 DEF SessionExpired, Expired, Reopen, ClientInv, ClientStaysPut
<1>7. CASE Around \/ UNCHANGED vars
  <2>1. CASE Close
    BY <1>a, <2>1 DEF Close, ClientInv, ClientStaysPut
  <2>2. CASE ~Close
    <3>1. pc' = pc /\ client' = client /\ closed' = closed
      BY <1>7, <2>2 DEF Around, vars, BeginBatch, EndBatch, StragglerEnds, ServerDrops, Tick
    <3> QED BY <3>1 DEF ClientInv, ClientStaysPut
  <2> QED BY <2>1, <2>2
<1> QED BY <1>1, <1>2, <1>3, <1>4, <1>5, <1>6, <1>7, Kinds DEF Moves

\* The choice of strategy only changes while the batch is not at the limiter.
LEMMA FreshStep ==
    ASSUME TypeOK, GateInv, FreshPerBatch, [Next]_vars
    PROVE  FreshPerBatch'
<1> USE DEF clientVars, lifetimeVars, batchVars, historyVars, workerVars
<1>a. pc \in [Tasks -> States] /\ "batch" \in Tasks
  BY DEF TypeOK, States, Tasks
<1>b. ASSUME UNCHANGED <<clock, confirmed, lastProbe>>
      PROVE  EffectiveStrategy' = EffectiveStrategy
  BY <1>b DEF EffectiveStrategy, ProbeDue
<1>c. ASSUME pc["batch"] = "call", NEW t \in Tasks \ {"batch"}
      PROVE  ~Holds(t) /\ pc[t] \notin Started
  BY <1>a, <1>c DEF GateInv, Holds, Started
<1>1. ASSUME NEW t \in Tasks, Request(t) PROVE FreshPerBatch'
  <2>1. EffectiveStrategy' = EffectiveStrategy
    BY <1>b, <1>1 DEF Request
  <2> QED BY <1>a, <1>1, <2>1 DEF Request, FreshPerBatch
<1>2. ASSUME NEW t \in Tasks, Start(t) PROVE FreshPerBatch'
  <2>1. EffectiveStrategy' = EffectiveStrategy /\ closed' = closed
    BY <1>b, <1>2 DEF Start
  <2>2. CASE t = "batch"
    BY <1>a, <1>2, <2>1, <2>2 DEF Start, FreshPerBatch, ReconnectRequired
  <2>3. CASE t # "batch"
    <3>1. pc["batch"] # "call"
      BY <1>2, <1>c, <2>3 DEF Start
    <3>2. pc'["batch"] = pc["batch"]
      BY <1>a, <1>2, <2>3 DEF Start
    <3> QED BY <3>1, <3>2 DEF FreshPerBatch
  <2> QED BY <2>2, <2>3
<1>3. ASSUME NEW t \in Tasks, Submit(t) PROVE FreshPerBatch'
  <2>1. EffectiveStrategy' = EffectiveStrategy
    BY <1>b, <1>3 DEF Submit
  <2> QED BY <1>a, <1>3, <2>1 DEF Submit, FreshPerBatch
<1>4. ASSUME NEW t \in Tasks, Leaves(t) PROVE FreshPerBatch'
  <2>1. Leave(t) /\ pc[t] # "idle"
    BY <1>4, LeavesLeave
  <2>2. CASE t = "batch"
    BY <1>a, <2>1, <2>2 DEF Leave, FreshPerBatch
  <2>3. CASE t # "batch" /\ pc["batch"] = "call"
    <3>1. pc[t] \notin Started
      BY <1>c, <2>3
    <3>2. Cancel(t)
      BY <1>4, <3>1 DEF Leaves, TurnedAway, LoginFails, LoginAbandoned,
         CallSucceeds, ReplayExpired, Expired, CallFails, Started
    <3>3. EffectiveStrategy' = EffectiveStrategy
      BY <1>b, <3>2 DEF Cancel
    <3>4. sessionFresh' = sessionFresh /\ closed' = closed
      BY <3>2 DEF Cancel
    <3> QED BY <2>3, <3>3, <3>4 DEF FreshPerBatch
  <2>4. CASE t # "batch" /\ pc["batch"] # "call"
    BY <1>a, <2>1, <2>4 DEF Leave, FreshPerBatch
  <2> QED BY <2>2, <2>3, <2>4
<1>5. ASSUME NEW t \in Tasks, LoginSucceeds(t) PROVE FreshPerBatch'
  BY <1>5 DEF LoginSucceeds, FreshPerBatch
<1>6. ASSUME NEW t \in Tasks, SessionExpired(t) PROVE FreshPerBatch'
  <2>1. pc'["batch"] # "call"
    <3>1. CASE t = "batch"
      BY <1>a, <1>6, <3>1 DEF SessionExpired
    <3>2. CASE t # "batch"
      BY <1>a, <1>c, <1>6, <3>2 DEF SessionExpired, Expired, Started
    <3> QED BY <3>1, <3>2
  <2> QED BY <2>1 DEF FreshPerBatch
<1>7. CASE Around \/ UNCHANGED vars
  <2>1. CASE pc["batch"] # "call"
    <3>1. pc' = pc
      BY <1>7 DEF Around, vars, BeginBatch, EndBatch, StragglerEnds, Close, ServerDrops, Tick
    <3> QED BY <2>1, <3>1 DEF FreshPerBatch
  <2>2. CASE pc["batch"] = "call"
    <3>1. ~BeginBatch /\ ~Tick
      BY <1>a, <2>2 DEF BeginBatch, Tick
    <3>2. UNCHANGED <<clock, confirmed, lastProbe, pc>>
      BY <1>7, <3>1 DEF Around, vars, EndBatch, StragglerEnds, Close, ServerDrops
    <3>3. EffectiveStrategy' = EffectiveStrategy
      BY <1>b, <3>2
    <3>4. closed' \/ (sessionFresh' = sessionFresh /\ closed' = closed)
      BY <1>7, <3>1 DEF Around, vars, EndBatch, StragglerEnds, Close, ServerDrops
    <3> QED BY <3>2, <3>3, <3>4 DEF FreshPerBatch
  <2> QED BY <2>1, <2>2
<1> QED BY <1>1, <1>2, <1>3, <1>4, <1>5, <1>6, <1>7, Kinds DEF Moves

-----------------------------------------------------------------------------
(* The account of logins.                                                  *)

\* More time allows no fewer logins, and PresumedDead more allows one more.
LEMMA Hours ==
    ASSUME NEW p \in Nat \ {0}, NEW a \in Nat, NEW b \in Nat, a <= b
    PROVE  /\ a \div p \in Nat /\ b \div p \in Nat
           /\ a \div p <= b \div p
           /\ b - a >= p => 1 + a \div p <= b \div p
<1> DEFINE q == a \div p  r == b \div p
<1>1. /\ q \in Int /\ r \in Int
      /\ p * q <= a /\ a < p * (q + 1)
      /\ p * r <= b /\ b < p * (r + 1)
  BY Z3
<1>2. q >= 0 /\ r >= 0
  BY <1>1, Z3
<1>3. \A m, n \in Int : m <= n => p * m <= p * n
  BY Z3
<1>4. q <= r
  <2>1. CASE r + 1 <= q
    BY <1>1, <1>3, <2>1
  <2> QED BY <1>1, <2>1
<1>5. ASSUME b - a >= p PROVE 1 + q <= r
  <2>1. CASE r <= q
    <3>1. p * (r + 1) <= p * (q + 1) /\ p * (q + 1) = p * q + p
      BY <1>1, <1>3, <2>1
    <3> QED BY <1>1, <1>5, <3>1
  <2> QED BY <1>1, <2>1
<1> QED BY <1>1, <1>2, <1>4, <1>5

SomeHandshake == \E t \in Tasks : pc[t] = "handshake"

\* Nothing that a login costs moves.
LEMMA BudgetStill ==
    ASSUME TypeOK, BudgetInv,
           UNCHANGED <<clock, client, sessionFresh, lastSuccess, closed, batchStart, batchLogins>>,
           batchExpiries' \in {batchExpiries, batchExpiries + 1},
           closed /\ SomeHandshake' => SomeHandshake
    PROVE  BudgetInv'
<1> DEFINE H(x) == (x - batchStart) \div PresumedDead
<1>1. /\ batchExpiries \in Nat /\ batchLogins \in Nat
      /\ PresumedDead \in Nat \ {0}
  BY SessionAssumption DEF TypeOK
<1>2. H(clock)' = H(clock) /\ H(lastSuccess)' = H(lastSuccess)
  OBVIOUS
<1>3. CASE batchStart = None
  BY <1>3 DEF BudgetInv
<1>4. CASE batchStart # None
  <2>1. /\ batchStart \in Nat /\ clock \in Nat /\ batchStart <= clock
        /\ lastSuccess <= clock
        /\ batchLogins <= 1 + batchExpiries + H(clock)
        /\ client /\ sessionFresh =>
             batchStart <= lastSuccess /\ batchLogins <= 1 + batchExpiries + H(lastSuccess)
        /\ client /\ ~sessionFresh => batchLogins = 0
        /\ ~client /\ (closed => SomeHandshake) => batchLogins <= batchExpiries + H(clock)
    BY <1>4 DEF BudgetInv, SomeHandshake, TypeOK
  <2>2. H(clock) \in Int
    <3>1. clock - batchStart \in Nat
      BY <2>1
    <3> QED BY <1>1, <3>1, Hours
  <2>3. client /\ sessionFresh => H(lastSuccess) \in Int
    <3>1. client /\ sessionFresh => lastSuccess - batchStart \in Nat
      BY <2>1 DEF TypeOK, None
    <3> QED BY <1>1, <3>1, Hours
  <2> HIDE DEF H
  <2>4. /\ batchLogins' <= 1 + batchExpiries' + H(clock)
        /\ client' /\ sessionFresh' =>
             batchStart' <= lastSuccess' /\ batchLogins' <= 1 + batchExpiries' + H(lastSuccess)
        /\ ~client' /\ (closed' => SomeHandshake') => batchLogins' <= batchExpiries' + H(clock)
    BY <1>1, <2>1, <2>2, <2>3
  <2>5. /\ batchLogins' <= 1 + batchExpiries' + H(clock)'
        /\ client' /\ sessionFresh' =>
             batchStart' <= lastSuccess' /\ batchLogins' <= 1 + batchExpiries' + H(lastSuccess)'
        /\ ~client' /\ (closed' => SomeHandshake') => batchLogins' <= batchExpiries' + H(clock)'
    BY <1>2, <2>4
  <2> QED BY <2>1, <2>5 DEF BudgetInv, SomeHandshake, H
<1> QED BY <1>3, <1>4

\* Each step pays for the login it makes.
LEMMA BudgetStep ==
    ASSUME TypeOK, GateInv, ClientInv, BudgetInv, [Next]_vars
    PROVE  BudgetInv'
<1> USE DEF clientVars, lifetimeVars, batchVars, historyVars, workerVars
<1> DEFINE H(x) == (x - batchStart) \div PresumedDead
<1>a. /\ pc \in [Tasks -> States] /\ clock \in Nat /\ client \in BOOLEAN
      /\ sessionFresh \in BOOLEAN /\ closed \in BOOLEAN
      /\ batchExpiries \in Nat /\ batchLogins \in Nat
      /\ batchStart \in Nat \union {None} /\ lastSuccess \in Nat \union {None}
      /\ PresumedDead \in Nat \ {0}
  BY SessionAssumption DEF TypeOK, States
<1>b. lastSuccess <= clock
  BY DEF BudgetInv
<1>c. ASSUME batchStart # None
      PROVE  /\ batchStart \in Nat /\ batchStart <= clock
             /\ H(clock) \in Nat
             /\ batchLogins <= 1 + batchExpiries + H(clock)
             /\ client /\ sessionFresh =>
                  /\ batchStart <= lastSuccess /\ H(lastSuccess) \in Nat
                  /\ H(lastSuccess) <= H(clock)
                  /\ clock - lastSuccess >= PresumedDead => 1 + H(lastSuccess) <= H(clock)
                  /\ batchLogins <= 1 + batchExpiries + H(lastSuccess)
             /\ client /\ ~sessionFresh => batchLogins = 0
             /\ ~client /\ (closed => SomeHandshake) => batchLogins <= batchExpiries + H(clock)
  <2>1. /\ batchStart \in Nat /\ batchStart <= clock
        /\ batchLogins <= 1 + batchExpiries + H(clock)
        /\ client /\ sessionFresh =>
             batchStart <= lastSuccess /\ batchLogins <= 1 + batchExpiries + H(lastSuccess)
        /\ client /\ ~sessionFresh => batchLogins = 0
        /\ ~client /\ (closed => SomeHandshake) => batchLogins <= batchExpiries + H(clock)
    BY <1>a, <1>c DEF BudgetInv, SomeHandshake
  <2>2. clock - batchStart \in Nat
    BY <1>a, <2>1
  <2>3. H(clock) \in Nat
    BY <1>a, <2>2, Hours
  <2>4. ASSUME client, sessionFresh
        PROVE  /\ H(lastSuccess) \in Nat /\ H(lastSuccess) <= H(clock)
               /\ clock - lastSuccess >= PresumedDead => 1 + H(lastSuccess) <= H(clock)
    <3>1. /\ lastSuccess - batchStart \in Nat
          /\ lastSuccess - batchStart <= clock - batchStart
          /\ (clock - batchStart) - (lastSuccess - batchStart) = clock - lastSuccess
      BY <1>a, <1>b, <2>1, <2>4 DEF None
    <3> QED BY <1>a, <2>2, <3>1, Hours
  <2> QED BY <2>1, <2>3, <2>4
<1> HIDE DEF H
<1>1. ASSUME NEW t \in Tasks, Request(t) \/ Submit(t) PROVE BudgetInv'
  <2>1. /\ UNCHANGED <<clock, client, sessionFresh, lastSuccess, closed, batchStart, batchLogins,
                       batchExpiries>>
        /\ closed /\ SomeHandshake' => SomeHandshake
    BY <1>a, <1>1 DEF Request, Submit, SomeHandshake
  <2> QED BY <2>1, BudgetStill
<1>2. ASSUME NEW t \in Tasks, Leaves(t), ~CallSucceeds(t) PROVE BudgetInv'
  <2>1. /\ UNCHANGED <<clock, client, sessionFresh, lastSuccess, closed, batchStart, batchLogins>>
        /\ batchExpiries' \in {batchExpiries, batchExpiries + 1}
    BY <1>2 DEF Leaves, TurnedAway, Cancel, LoginFails, LoginAbandoned, ReplayExpired, Expired,
       CallFails
  <2>2. SomeHandshake' => SomeHandshake
    BY <1>a, <1>2, LeavesLeave DEF Leave, SomeHandshake
  <2> QED BY <2>1, <2>2, BudgetStill
<1>3. ASSUME NEW t \in Tasks, CallSucceeds(t) PROVE BudgetInv'
  <2>1. /\ UNCHANGED <<clock, client, sessionFresh, closed, batchStart, batchLogins, batchExpiries>>
        /\ lastSuccess' = clock
    BY <1>3 DEF CallSucceeds
  <2>2. SomeHandshake' => SomeHandshake
    BY <1>a, <1>3, LeavesLeave DEF Leaves, Leave, SomeHandshake
  <2>3. H(clock)' = H(clock) /\ H(lastSuccess)' = H(clock)
    BY <2>1 DEF H
  <2>4. CASE batchStart # None
    <3>1. /\ batchStart <= clock
          /\ batchLogins <= 1 + batchExpiries + H(clock)
          /\ client /\ sessionFresh => batchLogins <= 1 + batchExpiries + H(clock)
          /\ client /\ ~sessionFresh => batchLogins = 0
          /\ ~client /\ (closed => SomeHandshake) => batchLogins <= batchExpiries + H(clock)
      BY <1>a, <1>c, <2>4
    <3> QED BY <1>a, <2>1, <2>2, <2>3, <3>1 DEF BudgetInv, SomeHandshake, H
  <2>5. CASE batchStart = None
    BY <1>a, <2>1, <2>5 DEF BudgetInv
  <2> QED BY <2>4, <2>5
<1>4. ASSUME NEW t \in Tasks, Start(t) PROVE BudgetInv'
  <2>1. /\ UNCHANGED <<clock, lastSuccess, closed, batchStart, batchLogins, batchExpiries>>
        /\ Holds(t)
    BY <1>4 DEF Start
  <2>2. SomeHandshake' => SomeHandshake
    <3>1. \A u \in Tasks : pc'[u] = "handshake" => pc[u] = "handshake"
      BY <1>a, <1>4 DEF Start
    <3> QED BY <3>1 DEF SomeHandshake
  <2>3. CASE ~(client /\ ReconnectRequired)
    <3>1. UNCHANGED <<client, sessionFresh>>
      BY <1>4, <2>3 DEF Start
    <3> QED BY <2>1, <2>2, <3>1, BudgetStill
  <2>4. CASE client /\ ReconnectRequired
    <3>1. client' = FALSE /\ sessionFresh' = FALSE
      BY <1>4, <2>4 DEF Start, Reopen
    <3>2. H(clock)' = H(clock)
      BY <2>1 DEF H
    <3>3. CASE batchStart = None
      BY <1>b, <2>1, <3>3 DEF BudgetInv
    <3>4. CASE batchStart # None
      <4>1. batchLogins <= batchExpiries + H(clock)
        <5>1. CASE ~sessionFresh
          BY <1>a, <1>c, <2>4, <3>4, <5>1
        <5>2. CASE sessionFresh
          <6>1. clock - lastSuccess >= PresumedDead
            BY <2>4, <5>2 DEF ReconnectRequired, PresumedGone
          <6> QED BY <1>a, <1>c, <2>4, <3>4, <5>2, <6>1
        <5> QED BY <1>a, <5>1, <5>2
      <4>2. batchLogins <= 1 + batchExpiries + H(clock) /\ batchStart <= clock
        BY <1>c, <3>4
      <4> QED BY <1>b, <2>1, <3>1, <3>2, <4>1, <4>2 DEF BudgetInv, H
    <3> QED BY <3>3, <3>4
  <2> QED BY <2>3, <2>4
<1>5. ASSUME NEW t \in Tasks, LoginSucceeds(t) PROVE BudgetInv'
  <2>1. /\ UNCHANGED <<clock, closed, batchStart, batchExpiries>>
        /\ client' = TRUE /\ sessionFresh' = TRUE /\ lastSuccess' = clock
        /\ batchLogins' = batchLogins + 1
    BY <1>5 DEF LoginSucceeds
  <2>2. ~client /\ SomeHandshake
    BY <1>5 DEF LoginSucceeds, ClientInv, SomeHandshake
  <2>3. H(clock)' = H(clock) /\ H(lastSuccess)' = H(clock)
    BY <2>1 DEF H
  <2>4. CASE batchStart # None
    <3>1. batchStart <= clock /\ batchLogins' <= 1 + batchExpiries + H(clock)
      BY <1>a, <1>c, <2>1, <2>2, <2>4
    <3> QED BY <1>a, <2>1, <2>3, <3>1 DEF BudgetInv, H
  <2>5. CASE batchStart = None
    BY <1>a, <2>1, <2>5 DEF BudgetInv
  <2> QED BY <2>4, <2>5
<1>6. ASSUME NEW t \in Tasks, SessionExpired(t) PROVE BudgetInv'
  <2>1. /\ UNCHANGED <<clock, lastSuccess, closed, batchStart, batchLogins>>
        /\ client' = FALSE /\ batchExpiries' = batchExpiries + 1
    BY <1>6 DEF SessionExpired, Expired, Reopen
  <2>2. H(clock)' = H(clock)
    BY <2>1 DEF H
  <2>3. CASE batchStart # None
    <3>1. batchStart <= clock /\ batchLogins <= batchExpiries' + H(clock)
      BY <1>a, <1>c, <2>1, <2>3
    <3>2. batchLogins' <= 1 + batchExpiries' + H(clock)
      BY <1>a, <1>c, <2>1, <2>3
    <3> QED BY <1>b, <2>1, <2>2, <3>1, <3>2 DEF BudgetInv, H
  <2>4. CASE batchStart = None
    BY <1>b, <2>1, <2>4 DEF BudgetInv
  <2> QED BY <2>3, <2>4
<1>7. CASE BeginBatch
  <2>1. /\ clock' = clock /\ client' = client /\ lastSuccess' = lastSuccess
        /\ sessionFresh' = FALSE /\ batchStart' = clock
        /\ batchLogins' = 0 /\ batchExpiries' = 0
    BY <1>7 DEF BeginBatch
  <2>2. (clock - clock) \div PresumedDead \in Nat
    BY <1>a, Hours
  <2>3. (clock' - batchStart') \div PresumedDead \in Nat
    BY <2>1, <2>2
  <2> QED BY <1>a, <1>b, <2>1, <2>3 DEF BudgetInv
<1>8. CASE Close
  <2>1. /\ UNCHANGED <<clock, lastSuccess, batchStart, batchLogins, batchExpiries, pc>>
        /\ client' = FALSE /\ closed' = TRUE /\ ~closed
    BY <1>8 DEF Close
  <2>2. SomeHandshake' => SomeHandshake /\ ~client
    BY <2>1 DEF SomeHandshake, ClientInv
  <2>3. H(clock)' = H(clock)
    BY <2>1 DEF H
  <2>4. CASE batchStart # None
    <3>1. /\ batchStart <= clock /\ batchLogins <= 1 + batchExpiries + H(clock)
          /\ SomeHandshake' => batchLogins <= batchExpiries + H(clock)
      BY <1>c, <2>1, <2>2, <2>4
    <3> QED BY <1>b, <2>1, <2>3, <3>1 DEF BudgetInv, SomeHandshake, H
  <2>5. CASE batchStart = None
    BY <1>b, <2>1, <2>5 DEF BudgetInv
  <2> QED BY <2>4, <2>5
<1>9. CASE EndBatch \/ StragglerEnds \/ ServerDrops \/ UNCHANGED vars
  <2>1. /\ UNCHANGED <<clock, client, sessionFresh, lastSuccess, closed, batchStart, batchLogins,
                       batchExpiries, pc>>
    BY <1>9 DEF EndBatch, StragglerEnds, ServerDrops, vars
  <2> QED BY <2>1, BudgetStill DEF SomeHandshake
<1>10. CASE Tick
  <2>1. /\ UNCHANGED <<client, sessionFresh, lastSuccess, closed, batchStart, batchLogins,
                       batchExpiries, pc>>
        /\ clock' = clock + 1
    BY <1>10 DEF Tick
  <2>2. H(lastSuccess)' = H(lastSuccess) /\ H(clock)' = H(clock + 1)
    BY <2>1 DEF H
  <2>3. CASE batchStart # None
    <3>1. H(clock + 1) \in Nat /\ H(clock) <= H(clock + 1)
      <4>1. /\ clock - batchStart \in Nat /\ clock + 1 - batchStart \in Nat
            /\ clock - batchStart <= clock + 1 - batchStart
        BY <1>a, <1>c, <2>3
      <4> QED BY <1>a, <4>1, Hours DEF H
    <3>2. /\ batchStart <= clock'
          /\ batchLogins' <= 1 + batchExpiries' + H(clock + 1)
          /\ client /\ sessionFresh =>
               batchStart <= lastSuccess /\ batchLogins <= 1 + batchExpiries + H(lastSuccess)
          /\ client /\ ~sessionFresh => batchLogins = 0
          /\ ~client /\ (closed => SomeHandshake) => batchLogins <= batchExpiries + H(clock + 1)
      BY <1>a, <1>c, <2>1, <2>3, <3>1
    <3>3. lastSuccess' <= clock'
      BY <1>a, <1>b, <2>1 DEF None
    <3> QED BY <2>1, <2>2, <3>2, <3>3 DEF BudgetInv, SomeHandshake, H
  <2>4. CASE batchStart = None
    BY <1>a, <1>b, <2>1, <2>4 DEF BudgetInv, None
  <2> QED BY <2>3, <2>4
<1> QED BY <1>1, <1>2, <1>3, <1>4, <1>5, <1>6, <1>7, <1>8, <1>9, <1>10, Kinds
    DEF Moves, Around

-----------------------------------------------------------------------------
IInv == TypeOK /\ GateInv /\ UnitInv /\ ClientInv /\ FreshPerBatch /\ BudgetInv

\* The account starts with nothing held, nothing under way and no batch.
LEMMA IInvInit == Init => IInv
<1> SUFFICES ASSUME Init PROVE IInv
  OBVIOUS
<1>1. TypeOK
  <2>1. SwitchTypes /\ NumberTypes
    BY DEF Init, SwitchTypes, NumberTypes, None
  <2>2. gate \in Seq(Tasks) /\ pc \in [Tasks -> States] /\ unit \in [Tasks -> [calls : Nat, logins : Nat]]
    BY DEF Init, States, NoUnit
  <2> QED BY <2>1, <2>2 DEF SwitchTypes, NumberTypes, States, TypeOK
<1>2. GateInv
  BY DEF Init, GateInv, Waits, Started
<1>3. UnitInv /\ ClientInv /\ FreshPerBatch
  BY DEF Init, UnitInv, ClientInv, ClientStaysPut, FreshPerBatch, Tasks
<1>4. BudgetInv
  BY DEF Init, BudgetInv, None
<1> QED BY <1>1, <1>2, <1>3, <1>4 DEF IInv

\* Every step keeps it.
LEMMA IInvStep == IInv /\ [Next]_vars => IInv'
BY GateStep, UnitStepInv, TypeStep, ClientStep, FreshStep, BudgetStep DEF IInv

\* The strengthening holds of every behaviour.
LEMMA Inductive == Spec => []IInv
BY IInvInit, IInvStep, PTL DEF Spec

\* Times, counters and the states of a unit of work keep their types
\* (SessionManager).
THEOREM SessionTypes == Spec => []TypeOK
BY Inductive, PTL DEF IInv

\* However many services queue, the unit at the gate keeps its client until it
\* leaves or the session is closed (SessionManager._gate).
THEOREM OneAtATime == Spec => []ClientStaysPut
<1>1. IInv => ClientStaysPut
  BY DEF IInv, ClientInv
<1> QED BY <1>1, Inductive, PTL

\* A unit of work calls twice and logs in twice at most, whatever the server
\* answers (_replay_on_a_fresh_session).
THEOREM OneReplay == Spec => []UnitBound
<1>1. IInv => UnitBound
  <2> SUFFICES ASSUME IInv, NEW t \in Tasks
               PROVE  unit[t].calls <= 2 /\ unit[t].logins <= 2
    BY DEF UnitBound
  <2>1. unit[t] \in [calls : Nat, logins : Nat] /\ pc[t] \in States
    BY DEF IInv, TypeOK, States
  <2> QED BY <2>1 DEF IInv, UnitInv, States, NoUnit
<1> QED BY <1>1, Inductive, PTL

\* The logins of a batch are accounted for by one, the sessions the server
\* declared expired, and the hours without a success (_reconnect_required).
THEOREM LoginsAccounted == Spec => []OneLoginPerBatch
<1>1. IInv => OneLoginPerBatch
  BY DEF IInv, BudgetInv, OneLoginPerBatch
<1> QED BY <1>1, Inductive, PTL

\* Under per_batch, configured or concluded, a batch never calls on a session of
\* an earlier batch (_effective_strategy, _reconnect_required).
THEOREM FreshCalls == Spec => []FreshPerBatch
BY Inductive, PTL DEF IInv
=============================================================================
