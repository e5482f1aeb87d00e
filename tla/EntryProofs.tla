---------------------------- MODULE EntryProofs ----------------------------
(***************************************************************************)
(* Theorems about ConfigEntry, for any accounts, children and login modes.   *)
(*                                                                         *)
(* A flow and an account work on copies of the entry, taken at one step and  *)
(* used at a later one.  EntryInv says what a copy still has in common with  *)
(* the entry when it is used: its account, its owner's choice, its options.   *)
(* What is used once stays in the flow (UsedOnce).                          *)
(***************************************************************************)
EXTENDS ConfigEntry, TLAPS

EntrySet == [uid : Accounts, data : DataSet]
AccountSet == [data : DataSet, options : Nat, roster : SUBSET AllChildren, seen : SUBSET AllChildren]
FlowSet == [step : {"form", "probing", "qcm", "children"}, reauth : BOOLEAN, data : DataSet]

\* The copies are records of the right shape.
Shapes ==
    /\ secret \in [Accounts -> 0 .. MaxSecret]
    /\ entry = None \/ entry \in EntrySet
    /\ account = None \/ account \in AccountSet
    /\ flow = Closed \/ flow \in FlowSet
    /\ decision \in [chosen : SUBSET AllChildren, declined : SUBSET AllChildren]

\* An account runs on a stored entry; while a flow is about to create one there
\* is neither entry nor account.
OneEntry ==
    /\ account # None => entry # None /\ account \in AccountSet /\ entry \in EntrySet
    /\ flow # Closed /\ ~flow.reauth => entry = None /\ account = None
    /\ flow # Closed /\ flow.step = "children" => ~flow.reauth

\* EntryKeepsItsAccount, with the copy of a re-authentication on its way: only a
\* QR code may name another account, and its outcome is compared before it is stored.
SameHolder ==
    /\ entry # None /\ entry.data.kind # "ed" => entry.data.names = entry.uid
    /\ account # None /\ account.data.kind # "ed" => account.data.names = entry.uid
    /\ flow # Closed /\ flow.step \in {"probing", "qcm"} /\ flow.reauth /\ entry # None
         /\ flow.data.kind \notin {"qr", "ed"} => flow.data.names = entry.uid

\* What the school announces only grows: neither the roster of an account's last login
\* nor its baseline, nor what a flow offers, is ahead of it.
Announced ==
    /\ enrolled \in [Accounts -> SUBSET AllChildren]
    /\ \A a \in Accounts : enrolled[a] \subseteq ChildrenOf[a]
    /\ account # None => /\ account.seen \subseteq account.roster
                         /\ account.roster \subseteq enrolled[account.data.names]
    /\ flow # Closed /\ flow.step = "children" => Offered(flow.data) \subseteq enrolled[flow.data.names]

\* A record keeps the owner's choice, in the selection and in the table it falls back on.
Kept(d) ==
    /\ decision.declined \intersect (d.chosen \union d.keyed) = {}
    /\ IF d.kind = "ed"
       THEN decision.chosen \subseteq d.keyed /\ (d.chosen = {} \/ decision.chosen \subseteq d.chosen)
       ELSE decision.chosen \subseteq d.chosen
\* No child that was left out belongs to another account its owner logged in to.
Elsewhere(d) ==
    d.names # entry.uid => decision.declined \intersect ChildrenOf[d.names] = {}

\* DeclinedStaysDeclined, whichever account the credentials are of at present: the entry,
\* the account built from it and the copy on its way keep the choice, and a child left
\* out is in the baseline of the account, so that it never looks newly arrived.
SameChoice ==
    /\ entry # None =>
         /\ decision.chosen \union decision.declined \subseteq enrolled[entry.uid]
         /\ decision.chosen = {} => decision.declined = {}
         /\ Kept(entry.data) /\ Elsewhere(entry.data)
    /\ account # None =>
         /\ decision.chosen \subseteq account.data.chosen
         /\ decision.declined \intersect account.data.chosen = {}
         /\ Elsewhere(account.data)
         /\ account.data.names = entry.uid =>
              /\ account.roster # {} =>
                   decision.chosen \union decision.declined \subseteq account.roster
              /\ state # "setting_up" => decision.declined \subseteq account.seen
    /\ flow # Closed /\ flow.step \in {"probing", "qcm"} /\ flow.reauth /\ entry # None
         => /\ flow.data.kind = entry.data.kind
            /\ flow.data.kind # "ed" => Kept(flow.data)

\* OptionsReach, from the moment the account is built.
SameOptions ==
    /\ listening <=> state = "loaded"
    /\ state \in {"setting_up", "forwarding", "loaded"} => account # None
    /\ state \in {"setting_up", "forwarding"} /\ ~savedEarly => account.options = options
    /\ state = "loaded" /\ ~reloading /\ ~savedEarly => account.options = options

EntryInv ==
    Shapes /\ options \in Nat /\ OneEntry /\ Announced /\ SameHolder /\ SameChoice /\ SameOptions

-----------------------------------------------------------------------------
(* What a login and the store make of a record.                            *)

\* The outcome of a login is the same data under the credential that is now valid
\* (_perform_login, _async_persist_credentials).
LEMMA OutcomeKeeps ==
    ASSUME MaxSecret \in Nat, secret \in [Accounts -> 0 .. MaxSecret], NEW d \in DataSet, LogIn(d)
    PROVE  /\ secret' \in [Accounts -> 0 .. MaxSecret]
           /\ Outcome(d) \in DataSet
           /\ Outcome(d).kind = d.kind /\ Outcome(d).names = d.names
           /\ Outcome(d).chosen = d.chosen /\ Outcome(d).keyed = d.keyed
           /\ enrolled' = enrolled
<1>1. d.names \in Accounts
  BY DEF DataSet
<1>2. secret[d.names] \in 0 .. MaxSecret
  BY <1>1
<1>3. secret' \in [Accounts -> 0 .. MaxSecret]
  BY <1>1, <1>2 DEF LogIn
<1>4. secret'[d.names] \in 0 .. MaxSecret
  BY <1>1, <1>3
<1>5. QED
  BY <1>3, <1>4 DEF Outcome, DataSet, LogIn

\* A stored entry is not the absence of one.
LEMMA StoredIsSome == \A e \in EntrySet : e # None
<1> SUFFICES ASSUME NEW e \in EntrySet, e = None PROVE FALSE
  OBVIOUS
<1>1. DOMAIN e = {"uid", "data"}
  BY DEF EntrySet
<1>2. DOMAIN None = {"absent"}
  BY DEF None
<1> QED
  BY <1>1, <1>2

\* Nor is an account that was built.
LEMMA BuiltIsSome == \A b \in AccountSet : b # None
<1> SUFFICES ASSUME NEW b \in AccountSet, b = None PROVE FALSE
  OBVIOUS
<1>1. DOMAIN b = {"data", "options", "roster", "seen"}
  BY DEF AccountSet
<1>2. DOMAIN None = {"absent"}
  BY DEF None
<1> QED
  BY <1>1, <1>2

\* What is stored has lost the payload and the PIN, and nothing else (_NEVER_PERSISTED).
LEMMA PersistedKeeps ==
    ASSUME NEW d \in DataSet
    PROVE  /\ Persisted(d) \in DataSet
           /\ Persisted(d).kind = d.kind /\ Persisted(d).names = d.names
           /\ Persisted(d).chosen = d.chosen /\ Persisted(d).keyed = d.keyed
  BY DEF Persisted, DataSet

\* Writing the rotated token over the stored data changes the credential only.
LEMMA RotatedKeeps ==
    ASSUME MaxSecret \in Nat, secret' \in [Accounts -> 0 .. MaxSecret], account \in AccountSet,
           NEW d \in DataSet
    PROVE  /\ Rotated(d) \in DataSet
           /\ Rotated(d).kind = d.kind /\ Rotated(d).names = d.names
           /\ Rotated(d).chosen = d.chosen /\ Rotated(d).keyed = d.keyed
<1>1. secret'[account.data.names] \in 0 .. MaxSecret
  BY DEF AccountSet, DataSet
<1>2. QED
  BY <1>1 DEF Rotated, Rotates, DataSet

-----------------------------------------------------------------------------
(* The invariant.                                                          *)

\* A choice made in the form is kept by the record that is stored (async_step_children).
LEMMA ChoosingKeeps ==
    ASSUME NEW d \in DataSet, NEW S \in SUBSET AllChildren
    PROVE  /\ Choosing(d, S) \in DataSet
           /\ Choosing(d, S).kind = d.kind /\ Choosing(d, S).names = d.names
           /\ IF d.kind = "ed" THEN Choosing(d, S).chosen = {} /\ Choosing(d, S).keyed = S
              ELSE Choosing(d, S).chosen = S /\ Choosing(d, S).keyed = {}
           /\ Offered(Choosing(d, S)) = S
  BY DEF Choosing, Offered, DataSet

\* A form starts from nothing typed.
LEMMA FormIs ==
    ASSUME NEW kind \in Kinds, NEW reauth \in BOOLEAN
    PROVE  Form(reauth, kind) \in FlowSet /\ Form(reauth, kind).reauth = reauth
           /\ Form(reauth, kind).step = "form"
<1>1. MaxSecret \in Nat /\ (CHOOSE a \in Accounts : TRUE) \in Accounts
  BY EntryAssumption DEF EntryAssumption
<1>2. Data(kind, CHOOSE a \in Accounts : TRUE) \in DataSet
  BY <1>1 DEF Data, DataSet
<1> QED
  BY <1>2 DEF Form, At, FlowSet

\* Nothing is set up at first: no entry, no flow and no account.
LEMMA InvInit == Init => EntryInv
<1> SUFFICES ASSUME Init PROVE EntryInv
  OBVIOUS
<1>1. secret \in [Accounts -> 0 .. MaxSecret]
  BY EntryAssumption DEF Init, EntryAssumption
<1>2. entry = None /\ account = None /\ flow = Closed /\ options = 0 /\ state = "not_loaded"
        /\ listening = FALSE
  BY DEF Init
<1>3. Shapes /\ OneEntry
  BY <1>1, <1>2 DEF Init, Shapes, OneEntry
<1>4. Announced
  <2>1. enrolled = [a \in Accounts |-> FirstChildren[a]]
    BY DEF Init
  <2>2. \A a \in Accounts : FirstChildren[a] \subseteq ChildrenOf[a] /\ FirstChildren[a] \in SUBSET AllChildren
    BY EntryAssumption DEF EntryAssumption, AllChildren
  <2> QED
    BY <1>2, <2>1, <2>2 DEF Announced
<1>5. SameHolder /\ SameChoice /\ SameOptions
  BY <1>2 DEF SameHolder, SameChoice, SameOptions
<1> QED
  BY <1>2, <1>3, <1>4, <1>5 DEF EntryInv

\* A flow on the screen that changes nothing of the store: what the form gathered is
\* about the entry, when there is one.
LEMMA FlowOnly ==
    ASSUME EntryInv,
           UNCHANGED <<schoolVars, storeVars, state, account, listening, reloading, histVars>>,
           flow' = Closed \/ flow' \in FlowSet,
           flow' # Closed /\ ~flow'.reauth => entry = None /\ account = None,
           flow' # Closed => flow'.step # "children",
           flow' # Closed /\ flow'.step \in {"probing", "qcm"} /\ flow'.reauth /\ entry # None =>
              /\ flow'.data.kind \notin {"qr", "ed"} => flow'.data.names = entry.uid
              /\ flow'.data.kind = entry.data.kind
              /\ flow'.data.kind # "ed" => Kept(flow'.data)
    PROVE  EntryInv'
<1>1. Shapes' /\ (options \in Nat)' /\ OneEntry' /\ Announced'
  BY DEF EntryInv, Shapes, OneEntry, Announced, storeVars, schoolVars, histVars
<1>2. SameHolder'
  BY DEF EntryInv, SameHolder, storeVars
<1>3. SameChoice'
  BY DEF EntryInv, SameChoice, Kept, Elsewhere, storeVars, histVars, schoolVars
<1>4. SameOptions'
  BY DEF EntryInv, SameOptions, storeVars, histVars
<1> QED
  BY <1>1, <1>2, <1>3, <1>4 DEF EntryInv

\* An entry is created with its owner's choice of children, and neither account nor
\* flow is left that would be about another.
LEMMA CreateKeeps ==
    ASSUME EntryInv, NEW d \in DataSet, NEW S \in SUBSET AllChildren, S \subseteq Offered(d),
           Offered(d) \subseteq enrolled[d.names], Create(d, S), account = None,
           secret' \in [Accounts -> 0 .. MaxSecret], UNCHANGED <<enrolled, account, listening>>
    PROVE  EntryInv'
<1> DEFINE c == Choosing(d, S)
<1>1. /\ c \in DataSet /\ c.kind = d.kind /\ c.names = d.names
      /\ IF d.kind = "ed" THEN c.chosen = {} /\ c.keyed = S ELSE c.chosen = S /\ c.keyed = {}
  BY ChoosingKeeps
<1>2. /\ Persisted(c) \in DataSet /\ Persisted(c).kind = c.kind /\ Persisted(c).names = c.names
      /\ Persisted(c).chosen = c.chosen /\ Persisted(c).keyed = c.keyed
  BY <1>1, PersistedKeeps
<1>3. /\ entry' = [uid |-> d.names, data |-> Persisted(c)] /\ flow' = Closed /\ account' = None
      /\ options' = 0 /\ state' = "not_loaded"
      /\ decision'.chosen = S /\ decision'.declined = IF S = {} THEN {} ELSE Offered(d) \ S
  BY DEF Create
<1> HIDE DEF c
<1>4. entry' \in EntrySet /\ entry'.uid = d.names /\ entry'.data = Persisted(c)
  BY <1>1, <1>2, <1>3 DEF EntrySet, DataSet
<1>5. Shapes' /\ OneEntry' /\ Announced'
  <2>1. Offered(d) \in SUBSET AllChildren
    BY DEF Offered, DataSet
  <2>2. decision' \in [chosen : SUBSET AllChildren, declined : SUBSET AllChildren]
    BY <2>1 DEF Create
  <2> QED
    BY <1>3, <1>4, <2>2 DEF EntryInv, Shapes, OneEntry, Announced
<1>6. SameHolder'
  BY <1>1, <1>2, <1>3, <1>4 DEF SameHolder
<1>7. SameChoice'
  <2>1. Kept(entry.data)'
    BY <1>1, <1>2, <1>3, <1>4 DEF Kept
  <2>2. Elsewhere(entry.data)'
    BY <1>1, <1>2, <1>4 DEF Elsewhere
  <2>3. (decision.chosen \union decision.declined \subseteq enrolled[entry.uid])'
    BY <1>3, <1>4
  <2> QED
    BY <1>3, <2>1, <2>2, <2>3 DEF SameChoice
<1>8. SameOptions'
  <2>1. listening = FALSE
    BY DEF EntryInv, SameOptions
  <2> QED
    BY <1>3, <2>1 DEF SameOptions
<1> QED
  BY <1>3, <1>5, <1>6, <1>7, <1>8 DEF EntryInv

\* The steps of the flow: whatever the copy it carries, what is stored is about the
\* account and the children of the entry it was made from.
LEMMA FlowKeepsInv == EntryInv /\ FlowStep => EntryInv'
<1> SUFFICES ASSUME EntryInv, FlowStep PROVE EntryInv'
  OBVIOUS
<1>0. /\ Shapes /\ options \in Nat /\ OneEntry /\ Announced /\ SameHolder /\ SameChoice /\ SameOptions
      /\ flow # Closed => flow \in FlowSet
      /\ entry # None => entry \in EntrySet
      /\ MaxSecret \in Nat \ {0}
      /\ Closed.step = "closed"
  BY EntryAssumption DEF EntryInv, Shapes, EntryAssumption, Closed
<1>1. ASSUME NEW kind \in Kinds, NEW key \in 1 .. MaxSecret, NEW pin \in BOOLEAN
      PROVE  /\ Typed(kind, key, pin).key \in 0 .. MaxSecret
             /\ Typed(kind, key, pin).single \in SUBSET SingleUse
  BY <1>0 DEF Typed, SingleUse
<1>2. CASE OpenUserFlow
  <2>1. PICK kind \in Kinds : flow' = Form(FALSE, kind)
    BY <1>2 DEF OpenUserFlow
  <2>4. flow' \in FlowSet /\ flow'.reauth = FALSE /\ flow'.step = "form"
    BY <2>1, FormIs
  <2>5. entry = None /\ account = None
    BY <1>0, <1>2 DEF OpenUserFlow, Stored, OneEntry
  <2> QED
    BY <1>2, <2>4, <2>5, FlowOnly DEF OpenUserFlow, runVars
<1>3. ASSUME NEW a \in Accounts, NEW key \in 1 .. MaxSecret, NEW pin \in BOOLEAN,
             SubmitForm(a, key, pin)
      PROVE  EntryInv'
  <2> DEFINE typed == Typed(flow.data.kind, key, pin)
             d == [flow.data EXCEPT !.names = a, !.key = typed.key, !.single = typed.single]
  <2>1. flow # Closed /\ ~flow.reauth
    BY <1>0, <1>3 DEF SubmitForm
  <2>2. flow.data \in DataSet /\ flow.reauth \in BOOLEAN /\ flow.data.kind \in Kinds
    BY <1>0, <2>1 DEF FlowSet, DataSet
  <2>3. d \in DataSet
    BY <1>1, <2>2 DEF DataSet
  <2>4. flow' = At("probing", flow.reauth, d)
    BY <1>3 DEF SubmitForm, Probe
  <2>5. flow' \in FlowSet /\ flow'.reauth = flow.reauth /\ flow'.step = "probing"
    BY <2>2, <2>3, <2>4 DEF At, FlowSet
  <2> QED
    BY <1>0, <1>3, <2>1, <2>5, FlowOnly DEF SubmitForm, OneEntry
<1>4. ASSUME NEW a \in Accounts, NEW key \in 1 .. MaxSecret, NEW pin \in BOOLEAN,
             SubmitReauth(a, key, pin)
      PROVE  EntryInv'
  <2> DEFINE typed == Typed(entry.data.kind, key, pin)
             names == IF entry.data.kind = "password" THEN entry.data.names ELSE a
             copy == IF entry.data.kind = "ed" THEN Data("ed", a) ELSE entry.data
             d == [copy EXCEPT !.names = names, !.key = typed.key, !.single = typed.single]
  <2>1. flow # Closed /\ flow.reauth /\ entry # None
    BY <1>0, <1>4 DEF SubmitReauth, Stored
  <2>2. entry.data \in DataSet /\ entry.data.kind \in Kinds /\ names \in Accounts
    BY <1>0, <2>1 DEF EntrySet, DataSet
  <2>3. /\ copy \in DataSet /\ copy.kind = entry.data.kind
        /\ entry.data.kind # "ed" => copy = entry.data
    BY <1>0, <2>2 DEF Data, DataSet
  <2>4. /\ d \in DataSet /\ d.kind = entry.data.kind /\ d.names = names
        /\ d.chosen = copy.chosen /\ d.keyed = copy.keyed
    BY <1>1, <2>2, <2>3 DEF DataSet
  <2>5. flow' = At("probing", flow.reauth, d)
    BY <1>4 DEF SubmitReauth, Probe
  <2>6. flow' \in FlowSet /\ flow'.reauth = flow.reauth /\ flow'.data = d
          /\ flow'.step = "probing"
    BY <1>0, <2>1, <2>4, <2>5 DEF At, FlowSet
  <2>7. d.kind \notin {"qr", "ed"} => d.names = entry.uid
    <3>1. d.kind \in {"qr", "password", "ed"}
      BY <2>2, <2>4, EntryAssumption DEF EntryAssumption
    <3> QED
      BY <1>0, <2>1, <2>4, <3>1 DEF SameHolder
  <2>8. d.kind # "ed" => Kept(d)
    BY <1>0, <2>1, <2>3, <2>4 DEF SameChoice, Kept
  <2> HIDE DEF d
  <2> QED
    BY <1>4, <2>1, <2>4, <2>6, <2>7, <2>8, FlowOnly DEF SubmitReauth
<1>5. ASSUME NEW outcome, ProbeFails(outcome) PROVE EntryInv'
  <2>1. flow # Closed /\ flow \in FlowSet /\ flow' = Form(flow.reauth, flow.data.kind)
    BY <1>0, <1>5 DEF ProbeFails, Probing
  <2>2. flow' \in FlowSet /\ flow'.reauth = flow.reauth /\ flow'.step = "form"
    BY <2>1, FormIs DEF FlowSet, DataSet
  <2> QED
    BY <1>0, <1>5, <2>1, <2>2, FlowOnly DEF ProbeFails, OneEntry
<1>6. CASE Challenged
  <2>1. flow # Closed /\ flow \in FlowSet /\ flow' = [flow EXCEPT !.step = "qcm"]
    BY <1>0, <1>6 DEF Challenged, Probing
  <2>2. flow' \in FlowSet /\ flow'.reauth = flow.reauth /\ flow'.step = "qcm"
    BY <2>1 DEF FlowSet
  <2>3. flow'.data = flow.data /\ flow.data.kind = "ed" /\ flow.step = "probing"
    BY <1>6, <2>1 DEF Challenged, Probing, FlowSet
  <2> QED
    BY <1>0, <1>6, <2>1, <2>2, <2>3, FlowOnly DEF Challenged, OneEntry, SameChoice, runVars
<1>7. CASE AnswerQcm
  <2>1. flow # Closed /\ flow \in FlowSet /\ flow.step = "qcm"
          /\ flow' = At("probing", flow.reauth, flow.data)
    BY <1>0, <1>7 DEF AnswerQcm, Probe
  <2>2. flow' \in FlowSet /\ flow'.reauth = flow.reauth /\ flow'.data = flow.data
          /\ flow'.step = "probing"
    BY <2>1 DEF FlowSet, At
  <2> QED
    BY <1>0, <1>7, <2>1, <2>2, FlowOnly DEF AnswerQcm, OneEntry, SameHolder, SameChoice
<1>8. CASE NewAccountFound
  <2>1. flow # Closed /\ flow \in FlowSet /\ ~flow.reauth /\ flow.data \in DataSet
    BY <1>0, <1>8 DEF NewAccountFound, Probing, FlowSet
  <2>2. entry = None /\ account = None
    BY <1>0, <2>1 DEF OneEntry
  <2> DEFINE announced == enrolled[flow.data.names]
             found == Choosing(Outcome(flow.data), announced)
  <2>3. /\ secret' \in [Accounts -> 0 .. MaxSecret] /\ Outcome(flow.data) \in DataSet
        /\ Outcome(flow.data).names = flow.data.names /\ enrolled' = enrolled
    BY <1>0, <1>8, <2>1, OutcomeKeeps DEF NewAccountFound, Shapes
  <2>4. announced \in SUBSET AllChildren
    BY <1>0, <2>1 DEF Announced, DataSet
  <2>5. /\ found \in DataSet /\ found.names = flow.data.names /\ Offered(found) = announced
    BY <2>3, <2>4, ChoosingKeeps
  <2> HIDE DEF found
  <2>6. CASE Create(found, announced)
    BY <1>8, <2>2, <2>3, <2>4, <2>5, <2>6, CreateKeeps DEF NewAccountFound
  <2>7. CASE flow' = At("children", FALSE, found) /\ UNCHANGED <<entry, options, state, decision>>
    <3>1. flow' \in FlowSet /\ flow'.step = "children" /\ flow'.reauth = FALSE /\ flow'.data = found
      BY <2>5, <2>7 DEF At, FlowSet
    <3>2. Shapes' /\ OneEntry'
      BY <1>0, <1>8, <2>2, <2>3, <2>7, <3>1 DEF NewAccountFound, Shapes, OneEntry
    <3>3. Announced'
      BY <1>0, <1>8, <2>2, <2>3, <2>5, <3>1 DEF NewAccountFound, Announced
    <3>4. SameHolder' /\ SameChoice' /\ SameOptions'
      BY <1>0, <1>8, <2>2, <2>7, <3>1 DEF NewAccountFound, SameHolder, SameChoice, SameOptions
    <3> QED
      BY <1>0, <2>7, <3>2, <3>3, <3>4 DEF EntryInv
  <2> QED
    BY <1>8, <2>6, <2>7 DEF NewAccountFound, found
<1>9. ASSUME NEW S \in SUBSET AllChildren, S \subseteq Offered(flow.data), ChooseChildren(S)
      PROVE  EntryInv'
  <2>1. flow # Closed /\ flow \in FlowSet /\ flow.step = "children" /\ flow.data \in DataSet
    BY <1>0, <1>9 DEF ChooseChildren, FlowSet
  <2>2. Offered(flow.data) \subseteq enrolled[flow.data.names]
    BY <1>0, <2>1 DEF Announced
  <2>3. ~flow.reauth
    BY <1>0, <2>1 DEF OneEntry, Shapes
  <2>4. account = None /\ entry = None
    BY <1>0, <2>1, <2>3 DEF OneEntry
  <2>5. secret' \in [Accounts -> 0 .. MaxSecret]
    BY <1>0, <1>9 DEF ChooseChildren, Shapes, schoolVars
  <2> QED
    BY <1>9, <2>1, <2>2, <2>4, <2>5, CreateKeeps DEF ChooseChildren, schoolVars
<1>10. CASE Reconnected
  <2>1. flow # Closed /\ flow \in FlowSet /\ flow.reauth /\ flow.data \in DataSet
          /\ flow.step = "probing" /\ entry # None /\ flow' = Closed
          /\ entry \in EntrySet
    BY <1>0, <1>10 DEF Reconnected, Probing, FlowSet, Stored
  <2>2. /\ secret' \in [Accounts -> 0 .. MaxSecret] /\ Outcome(flow.data) \in DataSet
        /\ Outcome(flow.data).kind = flow.data.kind /\ Outcome(flow.data).names = flow.data.names
        /\ Outcome(flow.data).chosen = flow.data.chosen /\ Outcome(flow.data).keyed = flow.data.keyed
        /\ enrolled' = enrolled
    BY <1>0, <1>10, <2>1, OutcomeKeeps DEF Reconnected, Shapes
  <2>3. SameOptions' /\ Announced'
    BY <1>0, <1>10, <2>1, <2>2 DEF SameOptions, Reconnected, Announced
  <2>4. CASE UNCHANGED <<entry, decision>>
    <3>1. Shapes' /\ OneEntry'
      BY <1>0, <2>1, <2>2, <2>4, <1>10 DEF Reconnected, Shapes, OneEntry
    <3>2. SameHolder'
      BY <1>0, <1>10, <2>1, <2>4 DEF Reconnected, SameHolder
    <3>3. SameChoice'
      BY <1>0, <1>10, <2>1, <2>2, <2>4 DEF Reconnected, SameChoice, Kept, Elsewhere
    <3> QED
      BY <1>0, <1>10, <2>3, <3>1, <3>2, <3>3 DEF EntryInv, Reconnected
  <2>5. CASE /\ entry' = [entry EXCEPT !.data = ToStore(flow.data)]
             /\ decision' = StillDeclined(flow.data)
             /\ flow.data.kind = "qr" => SameAccount(flow.data)
    <3>1. /\ ToStore(flow.data) \in DataSet
          /\ ToStore(flow.data).kind = flow.data.kind /\ ToStore(flow.data).names = flow.data.names
          /\ IF flow.data.kind = "ed"
             THEN ToStore(flow.data).chosen = {} /\ ToStore(flow.data).keyed = entry.data.keyed
             ELSE ToStore(flow.data).chosen = flow.data.chosen /\ ToStore(flow.data).keyed = flow.data.keyed
      <4> DEFINE d == IF flow.data.kind = "ed" THEN [Outcome(flow.data) EXCEPT !.chosen = {}, !.keyed = entry.data.keyed]
                      ELSE Merged(flow.data)
      <4>1. entry.data.keyed \in SUBSET AllChildren
        BY <2>1 DEF EntrySet, DataSet
      <4>2. /\ d \in DataSet /\ d.kind = flow.data.kind /\ d.names = flow.data.names
            /\ IF flow.data.kind = "ed" THEN d.chosen = {} /\ d.keyed = entry.data.keyed
               ELSE d.chosen = flow.data.chosen /\ d.keyed = flow.data.keyed
        BY <2>2, <4>1 DEF Merged, DataSet
      <4>3. ToStore(flow.data) = Persisted(d)
        BY DEF ToStore
      <4> HIDE DEF d
      <4> QED
        BY <4>2, <4>3, PersistedKeeps
    <3>2. entry' \in EntrySet /\ entry'.uid = entry.uid /\ entry'.data = ToStore(flow.data)
      BY <2>1, <2>5, <3>1 DEF EntrySet
    <3>3. flow.data.kind # "ed" => flow.data.names = entry.uid
      BY <1>0, <2>1, <2>5 DEF SameHolder, SameAccount
    <3>4. account # None /\ account.data.kind # "ed" => account.data.names = entry.uid
      BY <1>0 DEF SameHolder
    <3>5. Shapes' /\ OneEntry'
      <4>1. (decision \in [chosen : SUBSET AllChildren, declined : SUBSET AllChildren])'
        BY <1>0, <2>5 DEF Shapes, StillDeclined
      <4> QED
        BY <1>0, <1>10, <2>1, <2>2, <3>2, <4>1, StoredIsSome DEF Reconnected, Shapes, OneEntry
    <3>6. SameHolder'
      BY <1>10, <2>1, <3>1, <3>2, <3>3, <3>4 DEF Reconnected, SameHolder
    <3>7. SameChoice'
      <4>1. /\ decision'.chosen = decision.chosen /\ decision'.declined \subseteq decision.declined
            /\ flow.data.names # entry.uid => decision'.declined \intersect ChildrenOf[flow.data.names] = {}
        BY <2>5, <1>0 DEF Shapes, StillDeclined, SameAccount
      <4>2. Kept(entry.data)'
        BY <1>0, <2>1, <3>1, <3>2, <4>1 DEF SameChoice, Kept
      <4>3. Elsewhere(entry.data)'
        BY <3>1, <3>2, <4>1 DEF Elsewhere
      <4>4. account # None /\ account.data.names # entry.uid =>
              decision'.declined \intersect ChildrenOf[account.data.names] = {}
        BY <1>0, <4>1 DEF SameChoice, Elsewhere
      <4>5. UNCHANGED <<enrolled, account, state>>
        BY <1>10, <2>2 DEF Reconnected
      <4> QED
        BY <1>0, <2>1, <3>2, <4>1, <4>2, <4>3, <4>4, <4>5 DEF SameChoice, Elsewhere
    <3> QED
      BY <1>0, <1>10, <2>3, <3>5, <3>6, <3>7 DEF EntryInv, Reconnected
  <2> QED
    BY <1>10, <2>4, <2>5 DEF Reconnected
<1>11. CASE Dismiss
  BY <1>11, FlowOnly DEF Dismiss, runVars
<1> QED
  BY <1>2, <1>3, <1>4, <1>5, <1>6, <1>7, <1>8, <1>9, <1>10, <1>11 DEF FlowStep

\* An account that stops, and nothing stored changes.
LEMMA AccountStops ==
    ASSUME EntryInv, account' = None, listening' = FALSE, state' \notin {"setting_up", "forwarding", "loaded"},
           UNCHANGED <<schoolVars, storeVars, decision>>,
           \/ flow' = flow
           \/ flow' = Closed
           \/ /\ entry # None
              /\ flow' = Form(TRUE, entry.data.kind)
    PROVE  EntryInv'
<1>1. flow' # Closed => \/ flow' = flow
                        \/ flow' \in FlowSet /\ flow'.reauth = TRUE /\ flow'.step = "form"
  <2>1. ASSUME entry # None, flow' = Form(TRUE, entry.data.kind)
        PROVE  flow' \in FlowSet /\ flow'.reauth = TRUE /\ flow'.step = "form"
    <3>1. entry.data.kind \in Kinds
      BY <2>1 DEF EntryInv, Shapes, EntrySet, DataSet
    <3> QED
      BY <2>1, <3>1, FormIs
  <2> QED
    BY <2>1
<1>2. Shapes' /\ (options \in Nat)' /\ OneEntry' /\ Announced'
  BY <1>1 DEF EntryInv, Shapes, OneEntry, Announced, storeVars, schoolVars
<1>3. SameHolder' /\ SameChoice'
  BY <1>1 DEF EntryInv, SameHolder, SameChoice, Kept, Elsewhere, storeVars, schoolVars
<1>4. SameOptions'
  BY DEF SameOptions
<1> QED
  BY <1>2, <1>3, <1>4 DEF EntryInv

\* A login of the account writes the credential it is given, into the entry as it is
\* at that moment and into its own copy, and reads the children announced
\* (_async_persist_credentials, _note_children).
LEMMA AccountLogsIn ==
    ASSUME EntryInv, account # None, LoggedIn, UNCHANGED <<options, state, flow, decision>>
    PROVE  /\ Shapes' /\ OneEntry' /\ Announced' /\ SameHolder' /\ SameChoice'
           /\ account'.options = account.options /\ account' # None
<1>1. account \in AccountSet /\ entry \in EntrySet /\ account.data \in DataSet /\ entry.data \in DataSet
        /\ MaxSecret \in Nat
  BY EntryAssumption DEF EntryInv, OneEntry, AccountSet, EntrySet, EntryAssumption
<1>2. /\ secret' \in [Accounts -> 0 .. MaxSecret]
      /\ Outcome(account.data) \in DataSet
      /\ Outcome(account.data).kind = account.data.kind
      /\ Outcome(account.data).names = account.data.names
      /\ Outcome(account.data).chosen = account.data.chosen
      /\ enrolled' = enrolled
  BY <1>1, OutcomeKeeps DEF EntryInv, Shapes, LoggedIn
<1>3. /\ Rotated(entry.data) \in DataSet
      /\ Rotated(entry.data).kind = entry.data.kind /\ Rotated(entry.data).names = entry.data.names
      /\ Rotated(entry.data).chosen = entry.data.chosen /\ Rotated(entry.data).keyed = entry.data.keyed
  BY <1>1, <1>2, RotatedKeeps
<1>4. enrolled[account.data.names] \in SUBSET AllChildren
  BY <1>1 DEF EntryInv, Announced, DataSet
<1>5. /\ account' \in AccountSet /\ account'.data = Outcome(account.data)
      /\ account'.options = account.options /\ account'.seen = account.seen
      /\ account'.roster = enrolled[account.data.names]
  BY <1>1, <1>2, <1>4 DEF LoggedIn, AccountSet
<1>6. entry' \in EntrySet /\ entry'.data = Rotated(entry.data) /\ entry'.uid = entry.uid
  BY <1>1, <1>3 DEF LoggedIn, EntrySet
<1>7. entry # None /\ entry' # None /\ account' # None
  BY <1>1, <1>5, <1>6, StoredIsSome, BuiltIsSome
<1>8. Shapes' /\ OneEntry'
  BY <1>2, <1>5, <1>6, <1>7 DEF EntryInv, Shapes, OneEntry
<1>9. Announced'
  BY <1>2, <1>5 DEF EntryInv, Announced
<1>10. SameHolder'
  BY <1>2, <1>3, <1>5, <1>6, <1>7 DEF EntryInv, SameHolder
<1>11. SameChoice'
  <2>1. Kept(entry.data)' /\ Elsewhere(entry.data)' /\ Elsewhere(account.data)'
    BY <1>2, <1>3, <1>5, <1>6, <1>7 DEF EntryInv, SameChoice, Kept, Elsewhere
  <2>2. flow # Closed /\ flow.step \in {"probing", "qcm"} /\ flow.reauth =>
          flow.data.kind = entry'.data.kind /\ (flow.data.kind # "ed" => Kept(flow.data)')
    BY <1>3, <1>6, <1>7 DEF EntryInv, SameChoice, Kept
  <2>3. (decision.chosen \union decision.declined \subseteq enrolled[entry.uid])'
    BY <1>2, <1>6, <1>7 DEF EntryInv, SameChoice
  <2> QED
    BY <1>2, <1>5, <1>6, <1>7, <2>1, <2>2, <2>3 DEF EntryInv, SameChoice
<1> QED
  BY <1>5, <1>7, <1>8, <1>9, <1>10, <1>11

\* An account that gives children their keys takes the roster for its baseline: what it
\* follows holds nobody who was left out (_async_pair_children).
LEMMA AccountPairs ==
    ASSUME EntryInv, account # None, account.roster # {}, Paired,
           UNCHANGED <<schoolVars, options, flow, decision>>
    PROVE  /\ Shapes' /\ OneEntry' /\ Announced' /\ SameHolder' /\ SameChoice'
           /\ account'.options = account.options /\ account' # None
<1> DEFINE met == Among(account.data.chosen, account.roster)
<1>1. account \in AccountSet /\ entry \in EntrySet /\ account.data \in DataSet /\ entry.data \in DataSet
        /\ entry # None
  BY DEF EntryInv, OneEntry, AccountSet, EntrySet
<1>2. met \in SUBSET account.roster /\ met \in SUBSET AllChildren
  BY <1>1 DEF Among, AccountSet
<1>3. decision.declined \intersect met = {}
  <2>1. CASE account.data.names # entry.uid
    <3>1. account.roster \subseteq ChildrenOf[account.data.names]
      BY <1>1 DEF EntryInv, Announced, DataSet
    <3> QED
      BY <1>2, <2>1, <3>1 DEF EntryInv, SameChoice, Elsewhere
  <2>2. CASE account.data.names = entry.uid
    BY <1>1, <2>2 DEF EntryInv, SameChoice, Among
  <2> QED
    BY <2>1, <2>2
<1>4. /\ account' \in AccountSet /\ account'.data = account.data /\ account'.options = account.options
      /\ account'.seen = account.roster /\ account'.roster = account.roster
  BY <1>1 DEF Paired, AccountSet
<1>5. /\ entry' \in EntrySet /\ entry'.uid = entry.uid /\ entry'.data.names = entry.data.names
      /\ entry'.data.kind = entry.data.kind /\ entry'.data.chosen = entry.data.chosen
      /\ entry'.data.keyed = entry.data.keyed \union met
  BY <1>1, <1>2 DEF Paired, EntrySet, DataSet
<1> HIDE DEF met
<1>6. entry' # None /\ account' # None
  BY <1>4, <1>5, StoredIsSome, BuiltIsSome
<1>7. Shapes' /\ OneEntry' /\ Announced' /\ SameHolder'
  BY <1>1, <1>4, <1>5, <1>6 DEF EntryInv, Shapes, OneEntry, Announced, SameHolder, schoolVars
<1>8. SameChoice'
  <2>1. Kept(entry.data)'
    BY <1>1, <1>3, <1>5 DEF EntryInv, SameChoice, Kept
  <2>2. Elsewhere(entry.data)' /\ Elsewhere(account.data)'
    BY <1>1, <1>4, <1>5 DEF EntryInv, SameChoice, Elsewhere
  <2>3. flow # Closed /\ flow.step \in {"probing", "qcm"} /\ flow.reauth =>
          flow.data.kind = entry'.data.kind /\ (flow.data.kind # "ed" => Kept(flow.data)')
    BY <1>1, <1>5 DEF EntryInv, SameChoice, Kept
  <2> QED
    BY <1>1, <1>4, <1>5, <1>6, <2>1, <2>2, <2>3 DEF EntryInv, SameChoice, schoolVars
<1> QED
  BY <1>4, <1>6, <1>7, <1>8

\* A newcomer is nobody who was left out: the baseline holds them all
\* (_async_adopt_announced_children).
LEMMA AccountAdopts ==
    ASSUME EntryInv, state = "loaded", AdoptNewcomers
    PROVE  /\ Shapes' /\ OneEntry' /\ Announced' /\ SameHolder' /\ SameChoice'
           /\ account'.options = account.options /\ account' # None
<1>1. account # None /\ account \in AccountSet /\ entry \in EntrySet /\ account.data \in DataSet
        /\ entry.data \in DataSet /\ entry # None
  BY DEF EntryInv, SameOptions, OneEntry, AccountSet, EntrySet
<1>2. Newcomers \in SUBSET account.roster /\ Newcomers \in SUBSET AllChildren
  BY <1>1 DEF Newcomers, AccountSet
<1>3. decision.declined \intersect Newcomers = {}
  <2>1. CASE account.data.names # entry.uid
    <3>1. account.roster \subseteq ChildrenOf[account.data.names]
      BY <1>1 DEF EntryInv, Announced, DataSet
    <3> QED
      BY <1>1, <1>2, <2>1, <3>1 DEF EntryInv, SameChoice, Elsewhere
  <2>2. CASE account.data.names = entry.uid
    BY <1>1, <2>2 DEF EntryInv, SameChoice, Newcomers
  <2> QED
    BY <2>1, <2>2
<1> DEFINE kept == account.data.chosen \union Newcomers
<1>4. kept \in SUBSET AllChildren
  BY <1>1, <1>2 DEF DataSet
<1>5. /\ account' \in AccountSet /\ account'.data.kind = account.data.kind
      /\ account'.data.names = account.data.names /\ account'.data.chosen = kept
      /\ account'.options = account.options /\ account'.seen = account.seen
      /\ account'.roster = account.roster
  BY <1>1, <1>4 DEF AdoptNewcomers, AccountSet, DataSet
<1>6. /\ entry' \in EntrySet /\ entry'.uid = entry.uid /\ entry'.data.names = entry.data.names
      /\ entry'.data.kind = entry.data.kind /\ entry'.data.chosen = kept
      /\ entry'.data.keyed = entry.data.keyed
  BY <1>1, <1>4, <1>5 DEF AdoptNewcomers, EntrySet, DataSet
<1>7. entry' # None /\ account' # None
  BY <1>5, <1>6, StoredIsSome, BuiltIsSome
<1>8. UNCHANGED <<schoolVars, options, state, flow, decision>>
  BY DEF AdoptNewcomers, histVars
<1>9. decision.chosen \subseteq kept /\ decision.declined \intersect kept = {}
  BY <1>1, <1>3 DEF EntryInv, SameChoice
<1> HIDE DEF kept
<1>10. Shapes' /\ OneEntry' /\ Announced' /\ SameHolder'
  BY <1>1, <1>5, <1>6, <1>7, <1>8 DEF EntryInv, Shapes, OneEntry, Announced, SameHolder, schoolVars
<1>11. SameChoice'
  <2>1. Kept(entry.data)'
    BY <1>1, <1>6, <1>8, <1>9 DEF EntryInv, SameChoice, Kept
  <2>2. Elsewhere(entry.data)' /\ Elsewhere(account.data)'
    BY <1>1, <1>5, <1>6, <1>8 DEF EntryInv, SameChoice, Elsewhere
  <2>3. flow # Closed /\ flow.step \in {"probing", "qcm"} /\ flow.reauth =>
          flow.data.kind = entry'.data.kind /\ (flow.data.kind # "ed" => Kept(flow.data)')
    BY <1>1, <1>6, <1>8 DEF EntryInv, SameChoice, Kept
  <2> QED
    BY <1>1, <1>5, <1>6, <1>7, <1>8, <1>9, <2>1, <2>2, <2>3 DEF EntryInv, SameChoice, schoolVars
<1> QED
  BY <1>5, <1>7, <1>10, <1>11

\* The steps of Home Assistant, the account and the school.
LEMMA EntryKeepsInv == EntryInv /\ EntryStep => EntryInv'
<1> SUFFICES ASSUME EntryInv, EntryStep PROVE EntryInv'
  OBVIOUS
<1>0. /\ Shapes /\ options \in Nat /\ OneEntry /\ Announced /\ SameHolder /\ SameChoice /\ SameOptions
      /\ state \in {"setting_up", "forwarding", "loaded"} => account # None /\ entry # None
      /\ MaxSecret \in Nat \ {0}
  BY EntryAssumption DEF EntryInv, OneEntry, SameOptions, EntryAssumption
<1>1. CASE BeginSetUp
  <2>1. entry # None /\ entry \in EntrySet /\ account = None /\ entry.data \in DataSet
    BY <1>0, <1>1 DEF BeginSetUp, Stored, Shapes, EntrySet
  <2> DEFINE d == [entry.data EXCEPT !.chosen = Selection(entry.data), !.keyed = {}]
  <2>2. Selection(entry.data) \in SUBSET AllChildren
    BY <2>1 DEF Selection, DataSet
  <2>3. d \in DataSet /\ d.kind = entry.data.kind /\ d.names = entry.data.names
          /\ d.chosen = Selection(entry.data)
    BY <2>1, <2>2 DEF DataSet
  <2>4. /\ account' = [data |-> d, options |-> options, roster |-> {}, seen |-> {}]
        /\ UNCHANGED <<entry, options, schoolVars, flow, decision>> /\ state' = "setting_up"
    BY <1>1 DEF BeginSetUp, storeVars
  <2> HIDE DEF d
  <2>5. /\ account' \in AccountSet /\ account'.data = d /\ account'.options = options
        /\ account'.roster = {} /\ account'.seen = {}
    BY <1>0, <2>3, <2>4 DEF AccountSet
  <2>6. Shapes' /\ OneEntry' /\ Announced'
    BY <1>0, <2>1, <2>4, <2>5 DEF Shapes, OneEntry, Announced, schoolVars
  <2>7. SameHolder'
    BY <1>0, <2>1, <2>3, <2>4, <2>5 DEF SameHolder
  <2>8. SameChoice'
    <3>1. decision.chosen \subseteq d.chosen /\ decision.declined \intersect d.chosen = {}
      BY <1>0, <2>1, <2>3 DEF SameChoice, Kept, Selection
    <3>2. Kept(entry.data)' /\ Elsewhere(entry.data)' /\ Elsewhere(account.data)'
      BY <1>0, <2>1, <2>3, <2>4, <2>5 DEF SameChoice, Kept, Elsewhere
    <3>3. flow # Closed /\ flow.step \in {"probing", "qcm"} /\ flow.reauth =>
            flow.data.kind = entry'.data.kind /\ (flow.data.kind # "ed" => Kept(flow.data)')
      BY <1>0, <2>1, <2>4 DEF SameChoice, Kept
    <3> QED
      BY <1>0, <2>1, <2>4, <2>5, <3>1, <3>2, <3>3 DEF SameChoice, schoolVars
  <2>9. state # "loaded" /\ account' # None
    BY <1>0, <2>1, <2>5, BuiltIsSome
  <2>10. SameOptions'
    BY <1>0, <1>1, <2>4, <2>5, <2>9 DEF BeginSetUp, SameOptions
  <2> QED
    BY <1>0, <2>4, <2>6, <2>7, <2>8, <2>10 DEF EntryInv
<1>2. ASSUME NEW outcome, SetUpRefused(outcome) PROVE EntryInv'
  BY <1>0, <1>2, AccountStops DEF SetUpRefused, Unloaded, histVars
<1>3. ASSUME NEW outcome, SetUpNotReady(outcome) PROVE EntryInv'
  BY <1>3, AccountStops DEF SetUpNotReady, Unloaded, histVars
<1>4. CASE SetUpLogIn
  <2>1. /\ Shapes' /\ OneEntry' /\ Announced' /\ SameHolder' /\ SameChoice'
        /\ account'.options = account.options /\ account' # None
    BY <1>0, <1>4, AccountLogsIn DEF SetUpLogIn, histVars
  <2>2. SameOptions'
    BY <1>0, <1>4, <2>1 DEF SetUpLogIn, SameOptions, histVars
  <2> QED
    BY <1>0, <1>4, <2>1, <2>2 DEF EntryInv, SetUpLogIn
<1>5. CASE SetUpPairs
  <2>1. /\ Shapes' /\ OneEntry' /\ Announced' /\ SameHolder' /\ SameChoice'
        /\ account'.options = account.options /\ account' # None
    BY <1>0, <1>5, AccountPairs DEF SetUpPairs, histVars
  <2>2. SameOptions'
    BY <1>0, <1>5, <2>1 DEF SetUpPairs, SameOptions, histVars
  <2> QED
    BY <1>0, <1>5, <2>1, <2>2 DEF EntryInv, SetUpPairs
<1>6. CASE SetUpDone
  <2>1. SameOptions'
    BY <1>0, <1>6 DEF SetUpDone, SameOptions, storeVars, histVars
  <2>2. SameChoice'
    BY <1>0, <1>6 DEF SetUpDone, SameChoice, Kept, Elsewhere, storeVars, histVars, schoolVars
  <2> QED
    BY <1>0, <1>6, <2>1, <2>2 DEF SetUpDone, EntryInv, Shapes, OneEntry, Announced, SameHolder,
       storeVars, histVars, schoolVars
<1>7. CASE RunningLogIn \/ AdoptNewcomers \/ PairNewcomers
  <2>1. state = "loaded" /\ UNCHANGED <<options, state, listening, flow, histVars>>
    BY <1>7 DEF RunningLogIn, AdoptNewcomers, PairNewcomers
  <2>2. /\ Shapes' /\ OneEntry' /\ Announced' /\ SameHolder' /\ SameChoice'
        /\ account'.options = account.options /\ account' # None
    <3>1. CASE RunningLogIn
      BY <1>0, <2>1, <3>1, AccountLogsIn DEF RunningLogIn, histVars
    <3>2. CASE AdoptNewcomers
      BY <2>1, <3>2, AccountAdopts
    <3>3. CASE PairNewcomers
      <4>1. account.roster # {}
        BY <3>3 DEF PairNewcomers, Newcomers
      <4> QED
        BY <1>0, <2>1, <3>3, <4>1, AccountPairs DEF PairNewcomers, histVars
    <3> QED
      BY <1>7, <3>1, <3>2, <3>3
  <2>3. reloading => reloading'
    BY <1>7 DEF RunningLogIn, AdoptNewcomers, PairNewcomers, Written, Updated
  <2>4. SameOptions'
    BY <1>0, <2>1, <2>2, <2>3 DEF SameOptions, histVars
  <2> QED
    BY <1>0, <2>1, <2>2, <2>4 DEF EntryInv
<1>8. CASE SaveOptions
  <2>1. /\ UNCHANGED <<schoolVars, entry, state, account, listening, flow, decision>>
        /\ options' = options + 1
        /\ reloading' = (reloading \/ (listening /\ OptionsDiffer(options')))
        /\ savedEarly' = (savedEarly \/ state \in {"setting_up", "forwarding"})
    BY <1>8 DEF SaveOptions, Updated
  <2>2. Shapes' /\ OneEntry' /\ Announced' /\ SameHolder'
    BY <1>0, <2>1 DEF Shapes, OneEntry, Announced, SameHolder, schoolVars
  <2>3. SameChoice'
    BY <1>0, <2>1 DEF SameChoice, Kept, Elsewhere, schoolVars
  <2>4. SameOptions'
    BY <1>0, <2>1 DEF SameOptions, OptionsDiffer
  <2> QED
    BY <1>0, <2>1, <2>2, <2>3, <2>4 DEF EntryInv
<1>9. CASE Unload
  BY <1>9, AccountStops DEF Unload, Unloaded, histVars
<1>10. CASE HomeRestarts
  BY <1>10, AccountStops DEF HomeRestarts, histVars
<1>11. CASE Remove
  <2>1. /\ entry' = None /\ account' = None /\ options' = 0 /\ state' = "not_loaded" /\ listening' = FALSE
        /\ flow' = IF flow # Closed /\ flow.reauth THEN Closed ELSE flow
        /\ UNCHANGED <<schoolVars, decision>>
    BY <1>11 DEF Remove, Unloaded, histVars
  <2>2. Shapes' /\ OneEntry' /\ Announced'
    BY <1>0, <2>1 DEF Shapes, OneEntry, Announced, schoolVars
  <2> QED
    BY <2>1, <2>2 DEF EntryInv, SameHolder, SameChoice, SameOptions
<1>12. CASE RunningRefused \/ HoldEnds \/ \E a \in Accounts : NewSecret(a)
  <2>1. /\ UNCHANGED <<enrolled, storeVars, state, account, listening, reloading, flow, histVars>>
        /\ secret' \in [Accounts -> 0 .. MaxSecret]
    BY <1>0, <1>12 DEF RunningRefused, HoldEnds, NewSecret, Shapes, schoolVars, runVars
  <2>2. Shapes' /\ OneEntry' /\ Announced' /\ SameHolder' /\ SameOptions'
    BY <1>0, <2>1 DEF Shapes, OneEntry, Announced, SameHolder, SameOptions, storeVars, histVars
  <2>3. SameChoice'
    BY <1>0, <2>1 DEF SameChoice, Kept, Elsewhere, storeVars, histVars
  <2> QED
    BY <1>0, <2>1, <2>2, <2>3 DEF EntryInv, storeVars
<1>13. ASSUME NEW a \in Accounts, Enrol(a) PROVE EntryInv'
  <2>1. UNCHANGED <<secret, storeVars, runVars, flow, histVars>>
    BY <1>13 DEF Enrol
  <2>2. /\ enrolled' \in [Accounts -> SUBSET AllChildren]
        /\ \A b \in Accounts : enrolled[b] \subseteq enrolled'[b] /\ enrolled'[b] \subseteq ChildrenOf[b]
    BY <1>0, <1>13 DEF Enrol, Announced, AllChildren
  <2>3. account # None => account.data.names \in Accounts
    BY <1>0 DEF OneEntry, AccountSet, DataSet
  <2>4. flow # Closed => flow.data.names \in Accounts
    BY <1>0 DEF Shapes, FlowSet, DataSet
  <2>5. entry # None => entry.uid \in Accounts
    BY <1>0 DEF Shapes, EntrySet
  <2>6. Announced'
    BY <1>0, <2>1, <2>2, <2>3, <2>4 DEF Announced, runVars
  <2>7. SameChoice'
    BY <1>0, <2>1, <2>2, <2>5 DEF SameChoice, Kept, Elsewhere, storeVars, runVars, histVars
  <2>8. Shapes' /\ OneEntry' /\ SameHolder' /\ SameOptions'
    BY <1>0, <2>1 DEF Shapes, OneEntry, SameHolder, SameOptions, storeVars, runVars, histVars
  <2> QED
    BY <1>0, <2>1, <2>6, <2>7, <2>8 DEF EntryInv, storeVars
<1> QED
  BY <1>1, <1>2, <1>3, <1>4, <1>5, <1>6, <1>7, <1>8, <1>9, <1>10, <1>11, <1>12, <1>13 DEF EntryStep

\* Every copy a flow or an account carries agrees with the entry, always.
LEMMA Invariance == Spec => []EntryInv
<1>1. Init => EntryInv
  BY InvInit
<1>2. EntryInv /\ [Next]_vars => EntryInv'
  <2> SUFFICES ASSUME EntryInv, [Next]_vars PROVE EntryInv'
    OBVIOUS
  <2>1. CASE Next
    BY <2>1, FlowKeepsInv, EntryKeepsInv DEF Next
  <2>2. CASE UNCHANGED vars
    BY <2>2 DEF vars, schoolVars, storeVars, runVars, histVars, EntryInv, Shapes, OneEntry, Announced, SameHolder,
       SameChoice, Kept, Elsewhere, SameOptions
  <2> QED
    BY <2>1, <2>2
<1> QED
  BY <1>1, <1>2, PTL DEF Spec

-----------------------------------------------------------------------------
(* The theorems.                                                           *)

\* Whatever the accounts a person holds, and however often the flow runs, a PRONOTE
\* entry and the account built from it stay with the account they were created for
\* (async_step_reauth_qr, async_step_reauth_credentials).
THEOREM KeepsAccount == Spec => []EntryKeepsItsAccount
<1>1. EntryInv => EntryKeepsItsAccount
  BY DEF EntryInv, SameHolder, EntryKeepsItsAccount, Stored
<1> QED
  BY <1>1, Invariance, PTL

\* For any accounts, any children they share or come to announce, and any order of
\* reconnections (with the copy of the entry they took), pairings, adoptions and reloads:
\* the children left out when the entry was created stay out and those named stay in, as
\* long as their identifiers do not change (_async_finish_reauth,
\* _async_adopt_announced_children).  Nothing is said of a child adopted since, which a
\* reconnection's copy can drop, nor of one of a person who named nobody.
THEOREM KeepsChoice == Spec => []DeclinedStaysDeclined
<1>1. EntryInv => DeclinedStaysDeclined
  <2> SUFFICES ASSUME EntryInv, entry # None, entry.data.names = entry.uid
               PROVE  /\ Followed(entry.data) \intersect decision.declined = {}
                      /\ decision.chosen \subseteq Followed(entry.data)
    BY DEF DeclinedStaysDeclined, Stored
  <2> DEFINE chosen == Selection(entry.data)
  <2>1. decision.chosen \subseteq chosen /\ decision.declined \intersect chosen = {}
    BY DEF EntryInv, SameChoice, Kept, Selection
  <2>2. /\ decision.chosen \subseteq enrolled[entry.data.names]
        /\ decision.chosen = {} => decision.declined = {}
    BY DEF EntryInv, SameChoice
  <2> HIDE DEF chosen
  <2>3. Followed(entry.data) = Among(chosen, enrolled[entry.data.names])
    BY DEF Followed, chosen
  <2> QED
    BY <2>1, <2>2, <2>3 DEF Among
<1> QED
  BY <1>1, Invariance, PTL

\* However often they are saved, the options reach the account that runs, except those
\* saved while it was being set up: they are before no listener, and only a later save
\* or reload picks them up (async_setup_entry, async_reload_entry).
THEOREM OptionsReachAccount == Spec => []OptionsReach
<1>1. EntryInv => OptionsReach
  BY DEF EntryInv, SameOptions, OptionsReach
<1> QED
  BY <1>1, Invariance, PTL

-----------------------------------------------------------------------------
(* Types.                                                                  *)

States == {"not_loaded", "setting_up", "forwarding", "loaded", "retry", "auth_failed"}
Live == {"setting_up", "forwarding", "loaded"}

Numbers == secret \in [Accounts -> 1 .. MaxSecret] /\ options \in 0 .. MaxSaves
Lifecycle == state \in States /\ (account # None <=> state \in Live)
Switches ==
    /\ reloading \in BOOLEAN /\ savedEarly \in BOOLEAN
    /\ holds \subseteq Penalties
\* What is used once is in nobody's copy but the flow's.
UsedOnce ==
    /\ entry # None => entry.data.single = {}
    /\ account # None => account.data.single = {} /\ account.options \in 0 .. MaxSaves

\* A login moves one credential on, within the bound.
LEMMA LogInCounts ==
    ASSUME secret \in [Accounts -> 1 .. MaxSecret], NEW d, d.names \in Accounts, LogIn(d)
    PROVE  secret' \in [Accounts -> 1 .. MaxSecret]
<1>1. MaxSecret \in Nat /\ secret[d.names] \in 1 .. MaxSecret
  BY EntryAssumption
<1>2. CASE Rotates(d)
  <2>1. secret[d.names] + 1 \in 1 .. MaxSecret
    BY <1>1, <1>2 DEF LogIn
  <2> QED BY <1>2, <2>1 DEF LogIn
<1>3. CASE ~Rotates(d)
  BY <1>3 DEF LogIn
<1> QED BY <1>2, <1>3

\* Credentials and saves are counted within their bounds.
LEMMA NumbersStep == ASSUME EntryInv, Numbers, Next PROVE Numbers'
<1>1. secret' \in [Accounts -> 1 .. MaxSecret]
  <2>1. CASE NewAccountFound \/ Reconnected
    <3>1. flow \in FlowSet /\ LogIn(flow.data)
      <4>1. flow.step = "probing" /\ LogIn(flow.data)
        BY <2>1 DEF NewAccountFound, Reconnected, Probing
      <4>2. flow # Closed
        BY <4>1 DEF Closed
      <4> QED BY <4>1, <4>2 DEF EntryInv, Shapes
    <3>2. flow.data.names \in Accounts
      BY <3>1 DEF FlowSet, DataSet
    <3> QED BY <3>1, <3>2, LogInCounts DEF Numbers
  <2>2. CASE SetUpLogIn \/ RunningLogIn
    <3>1. account \in AccountSet /\ LogIn(account.data)
      BY <2>2 DEF SetUpLogIn, RunningLogIn, LoggedIn, EntryInv, SameOptions, OneEntry
    <3>2. account.data.names \in Accounts
      BY <3>1 DEF AccountSet, DataSet
    <3> QED BY <3>1, <3>2, LogInCounts DEF Numbers
  <2>3. ASSUME NEW a \in Accounts, NewSecret(a) PROVE secret' \in [Accounts -> 1 .. MaxSecret]
    <3>1. secret[a] \in 1 .. MaxSecret /\ MaxSecret \in Nat
      BY EntryAssumption DEF Numbers
    <3>2. secret[a] + 1 \in 1 .. MaxSecret
      BY <2>3, <3>1 DEF NewSecret
    <3> QED BY <2>3, <3>2 DEF NewSecret, Numbers
  <2>4. CASE secret' = secret
    BY <2>4 DEF Numbers
  <2> QED
    BY <2>1, <2>2, <2>3, <2>4 DEF Next, FlowStep, EntryStep, OpenUserFlow, SubmitForm, SubmitReauth, ProbeFails,
       Challenged, AnswerQcm, ChooseChildren, Dismiss, BeginSetUp, SetUpRefused, SetUpNotReady, SetUpPairs, SetUpDone,
       RunningRefused, AdoptNewcomers, PairNewcomers, SaveOptions, Unload, HomeRestarts, Remove, HoldEnds, Enrol,
       schoolVars
<1>2. options' \in 0 .. MaxSaves
  <2>1. options' \in {options, 0} \/ (options < MaxSaves /\ options' = options + 1)
    BY DEF Next, FlowStep, EntryStep, OpenUserFlow, SubmitForm, SubmitReauth, ProbeFails, Challenged, AnswerQcm,
       NewAccountFound, ChooseChildren, Create, Reconnected, Dismiss, BeginSetUp, SetUpRefused, SetUpNotReady,
       SetUpLogIn, SetUpPairs, SetUpDone, RunningLogIn, RunningRefused, AdoptNewcomers, PairNewcomers, SaveOptions, Unload, HomeRestarts, Remove, HoldEnds,
       NewSecret, Enrol, storeVars
  <2>2. options \in 0 .. MaxSaves /\ MaxSaves \in Nat
    BY EntryAssumption DEF Numbers
  <2> QED BY <2>1, <2>2
<1> QED BY <1>1, <1>2 DEF Numbers

\* An account exists from the set-up to the unload.
LEMMA LifecycleStep == ASSUME EntryInv, Lifecycle, Next PROVE Lifecycle'
<1>1. CASE state' = state /\ (account' # None <=> account # None)
  BY <1>1 DEF Lifecycle
<1>2. CASE state' \in States \ Live /\ account' = None
  BY <1>2 DEF Lifecycle
<1>3. CASE state' \in Live /\ account' # None
  BY <1>3 DEF Lifecycle, States, Live
<1>4. CASE FlowStep
  <2>1. ASSUME NEW d, NEW S, Create(d, S), UNCHANGED account, ~(flow = Closed), ~flow.reauth PROVE Lifecycle'
    <3>1. account = None
      BY <2>1 DEF EntryInv, OneEntry
    <3> QED BY <1>2, <2>1, <3>1 DEF Create, States, Live
  <2>2. CASE NewAccountFound
    <3>1. flow # Closed /\ ~flow.reauth /\ UNCHANGED account
      BY <2>2 DEF NewAccountFound, Probing, Closed
    <3>2. UNCHANGED state \/ \E d, S : Create(d, S)
      BY <2>2 DEF NewAccountFound
    <3> QED BY <1>1, <2>1, <3>1, <3>2
  <2>3. ASSUME NEW S, ChooseChildren(S) PROVE Lifecycle'
    <3>1. flow # Closed /\ ~flow.reauth /\ UNCHANGED account /\ \E d, T : Create(d, T)
      BY <2>3 DEF ChooseChildren, Closed, EntryInv, OneEntry
    <3> QED BY <2>1, <3>1
  <2> QED
    BY <1>1, <1>4, <2>2, <2>3 DEF FlowStep, OpenUserFlow, SubmitForm, SubmitReauth, ProbeFails, Challenged, AnswerQcm,
       Reconnected, Dismiss, runVars
<1>5. CASE EntryStep
  <2>1. CASE BeginSetUp \/ SetUpLogIn \/ SetUpPairs \/ RunningLogIn \/ AdoptNewcomers \/ PairNewcomers
    <3>1. state' \in Live
      BY <2>1 DEF BeginSetUp, SetUpLogIn, SetUpPairs, RunningLogIn, AdoptNewcomers, PairNewcomers, Live
    <3>2. account' # None
      <4>1. EntryInv'
        BY <1>5, EntryKeepsInv
      <4> QED BY <3>1, <4>1 DEF EntryInv, SameOptions, Live
    <3> QED BY <1>3, <3>1, <3>2
  <2>3. CASE SetUpDone
    BY <1>3, <2>3 DEF SetUpDone, Live, Lifecycle
  <2>4. ASSUME NEW outcome, SetUpRefused(outcome) \/ SetUpNotReady(outcome) PROVE Lifecycle'
    BY <1>2, <2>4 DEF SetUpRefused, SetUpNotReady, Unloaded, States, Live
  <2>5. CASE Unload \/ HomeRestarts \/ Remove
    BY <1>2, <2>5 DEF Unload, HomeRestarts, Remove, Unloaded, States, Live
  <2> QED
    BY <1>1, <1>5, <2>1, <2>3, <2>4, <2>5 DEF EntryStep, RunningRefused, SaveOptions, HoldEnds, NewSecret, Enrol,
       runVars
<1> QED BY <1>4, <1>5 DEF Next

\* Holds and repairs are of the known kinds.
LEMMA SwitchesStep == ASSUME EntryInv, Switches, Next PROVE Switches'
<1>1. reloading' \in BOOLEAN /\ savedEarly' \in BOOLEAN
  BY DEF Switches, Next, FlowStep, EntryStep, OpenUserFlow, SubmitForm, SubmitReauth, ProbeFails, Challenged, AnswerQcm,
     NewAccountFound, ChooseChildren, Create, Reconnected, Dismiss, BeginSetUp, SetUpRefused, SetUpNotReady,
     SetUpLogIn, SetUpPairs, SetUpDone, RunningLogIn, RunningRefused, AdoptNewcomers, PairNewcomers, SaveOptions, Unload, HomeRestarts, Remove, HoldEnds,
     NewSecret, Enrol, runVars, histVars, Written, Updated
<1>2. holds' \subseteq Penalties
  BY DEF Switches, Penalties, Next, FlowStep, EntryStep, OpenUserFlow, SubmitForm, SubmitReauth, ProbeFails, Challenged,
     AnswerQcm, Probe, NewAccountFound, ChooseChildren, Reconnected, Dismiss, BeginSetUp, SetUpRefused, SetUpNotReady,
     SetUpLogIn, SetUpPairs, SetUpDone, RunningLogIn, RunningRefused, AdoptNewcomers, PairNewcomers, SaveOptions, Unload, Unloaded, HomeRestarts, Remove, HoldEnds,
     NewSecret, Enrol, runVars
<1> QED BY <1>1, <1>2 DEF Switches

\* What is stored has lost what is used once (_NEVER_PERSISTED).
LEMMA NothingKept == \A d \in DataSet : Persisted(d).single = {}
  BY DEF DataSet, Persisted

\* The payload and the PIN stay in the flow that was given them.
LEMMA UsedOnceStep == ASSUME EntryInv, Numbers, UsedOnce, Next PROVE UsedOnce'
<1>0. options \in 0 .. MaxSaves /\ MaxSecret \in Nat /\ secret \in [Accounts -> 0 .. MaxSecret]
  BY EntryAssumption DEF Numbers, EntryInv, Shapes
<1>1. CASE UNCHANGED <<entry, account>>
  BY <1>1 DEF UsedOnce
<1>2. CASE UNCHANGED entry /\ account' = None
  BY <1>2 DEF UsedOnce
<1>3. CASE FlowStep
  <2>1. ASSUME NEW d \in DataSet, NEW S \in SUBSET AllChildren, Create(d, S), UNCHANGED account PROVE UsedOnce'
    <3>1. Choosing(d, S) \in DataSet
      BY ChoosingKeeps
    <3>2. entry'.data.single = {}
      BY <2>1, <3>1, NothingKept DEF Create
    <3> QED BY <2>1, <3>2 DEF UsedOnce
  <2>2. CASE NewAccountFound
    <3>1. flow.data \in DataSet /\ LogIn(flow.data) /\ UNCHANGED account
      BY <2>2 DEF NewAccountFound, Probing, Closed, EntryInv, Shapes, FlowSet
    <3>2. Outcome(flow.data) \in DataSet /\ enrolled[flow.data.names] \in SUBSET AllChildren
      BY <1>0, <3>1, OutcomeKeeps DEF EntryInv, Announced, DataSet
    <3>3. Choosing(Outcome(flow.data), enrolled[flow.data.names]) \in DataSet
      BY <3>2, ChoosingKeeps
    <3> QED BY <1>1, <2>1, <2>2, <3>1, <3>2, <3>3 DEF NewAccountFound
  <2>4. ASSUME NEW S \in SUBSET AllChildren, ChooseChildren(S) PROVE UsedOnce'
    <3>1. flow.data \in DataSet /\ UNCHANGED account /\ Create(flow.data, S)
      BY <2>4 DEF ChooseChildren, Closed, EntryInv, Shapes, FlowSet
    <3> QED BY <2>1, <3>1
  <2>3. CASE Reconnected
    <3>1. /\ flow.data \in DataSet /\ LogIn(flow.data) /\ UNCHANGED account /\ entry \in EntrySet
          /\ entry' = entry \/ entry' = [entry EXCEPT !.data = ToStore(flow.data)]
      BY <2>3 DEF Reconnected, Probing, Closed, EntryInv, Shapes, FlowSet, Stored
    <3>2. Outcome(flow.data) \in DataSet /\ entry.data.keyed \in SUBSET AllChildren
      BY <1>0, <3>1, OutcomeKeeps DEF EntrySet, DataSet
    <3>3. [Outcome(flow.data) EXCEPT !.chosen = {}, !.keyed = entry.data.keyed] \in DataSet
      BY <3>2 DEF DataSet
    <3>4. ToStore(flow.data).single = {}
      BY <3>2, <3>3, NothingKept DEF ToStore, Merged
    <3>5. entry' = entry \/ entry'.data.single = {}
      BY <3>1, <3>4 DEF EntrySet
    <3> QED BY <3>1, <3>5 DEF UsedOnce, EntryInv, OneEntry
  <2> QED
    BY <1>1, <1>3, <2>2, <2>3, <2>4 DEF FlowStep, OpenUserFlow, SubmitForm, SubmitReauth, ProbeFails, Challenged,
       AnswerQcm, Dismiss, storeVars, runVars
<1>4. CASE EntryStep
  <2>1. CASE BeginSetUp
    <3>1. /\ UNCHANGED entry /\ entry # None /\ entry.data \in DataSet
          /\ account'.data.single = entry.data.single /\ account'.options = options
      BY <2>1 DEF BeginSetUp, storeVars, Stored, EntryInv, Shapes, EntrySet, DataSet
    <3> QED BY <1>0, <3>1 DEF UsedOnce
  <2>2. CASE SetUpLogIn \/ SetUpPairs \/ RunningLogIn \/ AdoptNewcomers \/ PairNewcomers
    <3>1. /\ account # None /\ entry # None /\ account \in AccountSet /\ entry \in EntrySet
      BY <2>2 DEF SetUpLogIn, SetUpPairs, RunningLogIn, AdoptNewcomers, PairNewcomers, EntryInv, SameOptions, OneEntry
    <3>2. account'.data.single = account.data.single /\ account'.options = account.options
      BY <2>2, <3>1 DEF SetUpLogIn, SetUpPairs, RunningLogIn, AdoptNewcomers, PairNewcomers, LoggedIn, Paired,
         AccountSet, DataSet, Outcome
    <3>3. entry'.data.single = entry.data.single
      BY <2>2, <3>1 DEF SetUpLogIn, SetUpPairs, RunningLogIn, AdoptNewcomers, PairNewcomers, LoggedIn, Paired,
         EntrySet, DataSet, Rotated
    <3> QED BY <3>1, <3>2, <3>3 DEF UsedOnce
  <2>3. ASSUME NEW outcome, SetUpRefused(outcome) \/ SetUpNotReady(outcome) PROVE UsedOnce'
    BY <1>2, <2>3 DEF SetUpRefused, SetUpNotReady, Unloaded, storeVars
  <2>4. CASE Unload \/ HomeRestarts
    BY <1>2, <2>4 DEF Unload, HomeRestarts, Unloaded, storeVars
  <2>5. CASE Remove
    BY <2>5 DEF Remove, Unloaded, UsedOnce
  <2> QED
    BY <1>1, <1>4, <2>1, <2>2, <2>3, <2>4, <2>5 DEF EntryStep, SetUpDone, RunningRefused, SaveOptions, HoldEnds,
       NewSecret, Enrol, storeVars, runVars
<1> QED BY <1>3, <1>4 DEF Next

\* Every variable has its shape; no payload and no PIN is ever stored or handed to an
\* account, in any sequence of flows, logins and reloads (_NEVER_PERSISTED).
THEOREM EntryTypes == Spec => []TypeOK
<1> DEFINE Tallied == Numbers /\ Lifecycle /\ Switches /\ UsedOnce
<1>1. Init => Tallied
  <2> SUFFICES ASSUME Init PROVE Tallied
    OBVIOUS
  <2>1. Numbers
    BY EntryAssumption DEF Init, Numbers
  <2>2. Lifecycle
    BY DEF Init, Lifecycle, States, Live
  <2>3. Switches /\ UsedOnce
    BY DEF Init, Switches, UsedOnce, Penalties
  <2> QED BY <2>1, <2>2, <2>3
<1>2. EntryInv /\ Tallied /\ [Next]_vars => Tallied'
  <2> SUFFICES ASSUME EntryInv, Tallied, [Next]_vars PROVE Tallied'
    OBVIOUS
  <2>1. CASE Next
    BY <2>1, NumbersStep, LifecycleStep, SwitchesStep, UsedOnceStep
  <2>2. CASE UNCHANGED vars
    BY <2>2 DEF vars, schoolVars, storeVars, runVars, histVars, Numbers, Lifecycle, Switches, UsedOnce
  <2> QED BY <2>1, <2>2
<1>3. EntryInv /\ Tallied => TypeOK
  <2> SUFFICES ASSUME EntryInv, Tallied PROVE TypeOK
    OBVIOUS
  <2>1. Stored => entry.uid \in Accounts /\ entry.data \in DataSet /\ entry.data.single = {}
    BY DEF Stored, EntryInv, Shapes, EntrySet, UsedOnce
  <2>2. account # None => /\ account.data \in DataSet /\ account.data.single = {} /\ account.options \in 0 .. MaxSaves
                          /\ account.roster \subseteq AllChildren /\ account.seen \subseteq account.roster
    BY DEF EntryInv, Shapes, Announced, AccountSet, UsedOnce
  <2>3. flow.step \in {"closed", "form", "probing", "qcm", "children"}
    BY DEF EntryInv, Shapes, FlowSet, Closed
  <2>4. flow # Closed => flow.reauth \in BOOLEAN /\ flow.data \in DataSet
    BY DEF EntryInv, Shapes, FlowSet
  <2>5. listening <=> state = "loaded"
    BY DEF EntryInv, SameOptions
  <2>6. enrolled \in [Accounts -> SUBSET AllChildren]
    BY DEF EntryInv, Announced
  <2> QED BY <2>1, <2>2, <2>3, <2>4, <2>5, <2>6 DEF TypeOK, Numbers, Lifecycle, Switches, States, Live, Penalties
<1> HIDE DEF Tallied
<1> QED BY <1>1, <1>2, <1>3, Invariance, PTL DEF Spec
=============================================================================
