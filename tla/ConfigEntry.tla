---------------------------- MODULE ConfigEntry ----------------------------
(***************************************************************************)
(* One configuration entry from the form that creates it to its reloads:    *)
(* the configuration and re-authentication flows (config_flow.py,           *)
(* flow_login.py, login_guard.py), set-up and unload (__init__.py), and what *)
(* the account reads and writes of its entry (account.py).                  *)
(*                                                                         *)
(* A credential is a number: the school accepts the current one of each     *)
(* account.  A token (kind "qr") is replaced at every login; a password      *)
(* changes when its owner changes it.                                       *)
(***************************************************************************)
EXTENDS Naturals, FiniteSets

CONSTANTS
    Accounts,       \* accounts a person may hold at the school
    FirstChildren,  \* the children each of them announces at first
    ChildrenOf,     \* the children each of them may come to announce
    Kinds,          \* login modes: "qr", "password" (direct or ENT), "ed" (EcoleDirecte)
    MaxSecret,      \* bound: credentials a school account goes through
    MaxSaves        \* bound: options saved

ASSUME EntryAssumption ==
    /\ Accounts # {} /\ DOMAIN ChildrenOf = Accounts /\ DOMAIN FirstChildren = Accounts
    /\ \A a \in Accounts : FirstChildren[a] # {} /\ FirstChildren[a] \subseteq ChildrenOf[a]
    /\ Kinds \subseteq {"qr", "password", "ed"}
    /\ MaxSecret \in Nat \ {0} /\ MaxSaves \in Nat

VARIABLES
    secret,      \* the school: the credential each account answers to
    enrolled,    \* the school: the children each account announces
    entry,       \* the stored data, and the unique id it was created under
    options,     \* the stored options, by the number of their last save
    state,       \* Home Assistant's view of the entry
    account,     \* the PronoteAccount object: what it captured of the entry
    listening,   \* the update listener is attached
    reloading,   \* a reload is scheduled
    flow,        \* the one flow open on the screen
    holds,       \* where a hold on logins stands: the guard, the live limiter, the saved state
    decision,    \* history: the children the person chose by name, and those left out
    savedEarly   \* history: options were saved while the account was being set up

schoolVars == <<secret, enrolled>>
storeVars == <<entry, options>>
runVars == <<state, account, listening, reloading, holds>>
histVars == <<decision, savedEarly>>
vars == <<schoolVars, storeVars, runVars, flow, histVars>>

None == [absent |-> TRUE]
AllChildren == UNION {ChildrenOf[a] : a \in Accounts}
SingleUse == {"payload", "pin"}                    \* _NEVER_PERSISTED
\* What a flow gathers, and what an entry stores: the same record.  "chosen" is the
\* stored selection, "keyed" the children the table of keys has a row for.
Data(kind, names) ==
    [kind |-> kind, names |-> names, key |-> 0, single |-> {}, chosen |-> {}, keyed |-> {}]
Persisted_PinOnly(d) == [d EXCEPT !.single = @ \ {"pin"}]
Persisted(d) == [d EXCEPT !.single = @ \ SingleUse]
Closed == [step |-> "closed"]
At(step, reauth, data) == [step |-> step, reauth |-> reauth, data |-> data]
\* A form keeps its login mode; the rest is typed, or read from the entry, at each submission.
Form(reauth, kind) == At("form", reauth, Data(kind, CHOOSE a \in Accounts : TRUE))
Stored == entry # None

\* EcoleDirecte keeps a person's choice in the table of keys alone.
Choosing(d, S) == IF d.kind = "ed" THEN [d EXCEPT !.chosen = {}, !.keyed = S]
                  ELSE [d EXCEPT !.chosen = S, !.keyed = {}]
Offered(d) == IF d.kind = "ed" THEN d.keyed ELSE d.chosen
Selection(d) == IF d.chosen = {} /\ d.kind = "ed" THEN d.keyed ELSE d.chosen
\* A selection nothing announced belongs to, the empty one included, follows every child.
Among(selection, announced) ==
    IF selection \intersect announced = {} THEN announced ELSE selection \intersect announced
Followed(d) == Among(Selection(d), enrolled[d.names])

-----------------------------------------------------------------------------
(* A login, by the flow's probe or by the account.  The school accepts a    *)
(* valid payload or the current credential, and replaces a token.           *)

Accepted(d) == "payload" \in d.single \/ d.key = secret[d.names]
Rotates(d) == d.kind = "qr"
LogIn(d) ==
    /\ Accepted(d)
    /\ Rotates(d) => secret[d.names] < MaxSecret
    /\ secret' = IF Rotates(d) THEN [secret EXCEPT ![d.names] = @ + 1] ELSE secret
    /\ UNCHANGED enrolled
\* Whatever the credential, the answer may be one of these.
Refusals == {"refused", "mfa"}
Outages == {"bootstrap", "transport"}
\* A wrong four-digit code, an unknown ENT provider: nothing left the house.
LocalFailures == {"local"}

-----------------------------------------------------------------------------
(* The listener: any update of the entry wakes it, and only options that    *)
(* differ from those the account was built from reload.                     *)

OptionsDiffer_ReadLive(saved) == FALSE
OptionsDiffer(saved) == account # None /\ saved # account.options
Updated(saved) == reloading' = (reloading \/ (listening /\ OptionsDiffer(saved)))

-----------------------------------------------------------------------------
(* The flow.                                                               *)

Probing == flow.step = "probing"
OpenUserFlow ==
    /\ ~Stored /\ flow = Closed
    /\ \E kind \in Kinds : flow' = Form(FALSE, kind)
    /\ UNCHANGED <<schoolVars, storeVars, runVars, histVars>>

Penalties == {"guard", "live", "saved"}
\* The guard admits the login or refuses it, which leaves the form on the screen.
Probe(data, cleared) ==
    /\ "guard" \notin holds \ cleared
    /\ flow' = At("probing", flow.reauth, data)
    /\ holds' = holds \ cleared

\* Whatever was typed: an account, and its credential of now or of some time ago.
Typed(kind, key, pin) ==
    [key |-> IF kind = "qr" THEN 0 ELSE key,
     single |-> (IF kind = "qr" THEN {"payload"} ELSE {}) \union (IF pin /\ kind # "ed" THEN {"pin"} ELSE {})]
SubmitForm(a, key, pin) ==
    /\ flow.step = "form" /\ ~flow.reauth /\ key <= secret[a]
    /\ LET typed == Typed(flow.data.kind, key, pin)
       IN  Probe([flow.data EXCEPT !.names = a, !.key = typed.key, !.single = typed.single], {})
    /\ UNCHANGED <<schoolVars, storeVars, state, account, listening, reloading, histVars>>

\* clear_login_penalties, then what was typed over a copy of the entry's data as they
\* are now; EcoleDirecte's form needs no copy.  A password form names no account; a QR
\* code and EcoleDirecte's form do.
\* For EcoleDirecte the penalties are cleared once, when the flow opens.
SubmitReauth(a, key, pin) ==
    /\ flow.step = "form" /\ flow.reauth /\ Stored /\ key <= secret[a]
    /\ LET typed == Typed(entry.data.kind, key, pin)
           names == IF entry.data.kind = "password" THEN entry.data.names ELSE a
           copy == IF entry.data.kind = "ed" THEN Data("ed", a) ELSE entry.data
       IN  Probe([copy EXCEPT !.names = names, !.key = typed.key, !.single = typed.single],
                 IF entry.data.kind = "ed" THEN {} ELSE Penalties)
    /\ UNCHANGED <<schoolVars, storeVars, state, account, listening, reloading, histVars>>

ProbeFails(outcome) ==
    /\ Probing
    /\ \/ holds' = holds
       \/ outcome \notin LocalFailures /\ holds' = holds \union {"guard"}
    /\ flow' = Form(flow.reauth, flow.data.kind)
    /\ UNCHANGED <<schoolVars, storeVars, state, account, listening, reloading, histVars>>

\* EcoleDirecte asks its question: the answer is chosen, and the login made again.
Challenged ==
    /\ Probing /\ flow.data.kind = "ed"
    /\ flow' = [flow EXCEPT !.step = "qcm"]
    /\ UNCHANGED <<schoolVars, storeVars, runVars, histVars>>
AnswerQcm ==
    /\ flow.step = "qcm"
    /\ Probe(flow.data, {})
    /\ UNCHANGED <<schoolVars, storeVars, state, account, listening, reloading, histVars>>

\* The children offered are those the flow's login announced.
Create(d, S) ==
    /\ entry' = [uid |-> d.names, data |-> Persisted(Choosing(d, S))]
    /\ flow' = Closed
    /\ decision' = [chosen |-> S, declined |-> IF S = {} THEN {} ELSE Offered(d) \ S]
    /\ options' = 0 /\ state' = "not_loaded"
Outcome(d) == [d EXCEPT !.key = secret'[d.names]]

NewAccountFound ==
    /\ Probing /\ ~flow.reauth /\ LogIn(flow.data)
    /\ LET announced == enrolled[flow.data.names]
           found == Choosing(Outcome(flow.data), announced)
       IN  IF Cardinality(announced) > 1
           THEN /\ flow' = At("children", FALSE, found)
                /\ UNCHANGED <<entry, options, state, decision>>
           ELSE Create(found, announced)
    /\ UNCHANGED <<account, listening, reloading, holds, savedEarly>>

ChooseChildren(S) ==
    /\ flow.step = "children"
    /\ Create(flow.data, S)
    /\ UNCHANGED <<schoolVars, account, listening, reloading, holds, savedEarly>>

\* _same_account: the address and the number of the account, without its signature.
SameAccount_Unchecked(d) == TRUE
SameAccount(d) == d.names = entry.uid
\* The outcome's children are labels, not a selection, and are left out.
Merged(d) == Outcome(d)
\* An EcoleDirecte entry keeps its table of keys as it is now, and no selection; a
\* PRONOTE entry becomes the copy taken when the form was submitted, whatever the
\* account has written since.
ToStore(d) ==
    Persisted(IF d.kind = "ed" THEN [Outcome(d) EXCEPT !.chosen = {}, !.keyed = entry.data.keyed]
              ELSE Merged(d))
\* The children another account of the same person announces are theirs to follow.
StillDeclined(d) ==
    IF SameAccount(d) THEN decision
    ELSE [decision EXCEPT !.declined = @ \ ChildrenOf[d.names]]

Reconnected ==
    /\ Probing /\ flow.reauth /\ Stored /\ LogIn(flow.data)
    /\ flow' = Closed
    /\ IF flow.data.kind = "qr" /\ ~SameAccount(flow.data)
       THEN UNCHANGED <<entry, reloading, decision>>            \* wrong_account
       ELSE /\ entry' = [entry EXCEPT !.data = ToStore(flow.data)]
            /\ reloading' = (reloading \/ entry'.data # entry.data)
            /\ decision' = StillDeclined(flow.data)
    /\ UNCHANGED <<options, state, account, listening, holds, savedEarly>>

Dismiss ==
    /\ flow.step \in {"form", "qcm", "children"}
    /\ flow' = Closed
    /\ UNCHANGED <<schoolVars, storeVars, runVars, histVars>>

-----------------------------------------------------------------------------
(* Set-up: the account object captures the entry, logs in with it and gives *)
(* the children it follows their keys; the platforms are forwarded; the      *)
(* listener is attached last.                                              *)

BeginSetUp ==
    /\ Stored /\ account = None
    /\ state' = "setting_up" /\ reloading' = FALSE
    /\ account' = [data |-> [entry.data EXCEPT !.chosen = Selection(entry.data), !.keyed = {}],
                   options |-> options, roster |-> {}, seen |-> {}]
    /\ holds' = IF "saved" \in holds THEN holds \union {"live"} ELSE holds \ {"live"}
    /\ savedEarly' = FALSE
    /\ UNCHANGED <<schoolVars, storeVars, listening, flow, decision>>

\* The account is unloaded and its limiter saved.
Unloaded(kept) ==
    /\ account' = None /\ listening' = FALSE
    /\ holds' = (kept \ {"live", "saved"}) \union (IF "live" \in kept THEN {"saved"} ELSE {})

SetUpRefused(outcome) ==
    /\ state = "setting_up" /\ outcome \in Refusals
    /\ "live" \notin holds
    /\ state' = "auth_failed"
    /\ IF flow = Closed
       THEN flow' = Form(TRUE, entry.data.kind)
       ELSE UNCHANGED flow
    /\ \E kept \in {holds, holds \union {"live"}} :
         Unloaded(IF flow = Closed /\ entry.data.kind = "ed" THEN kept \ Penalties ELSE kept)
    /\ UNCHANGED <<schoolVars, storeVars, reloading, histVars>>

SetUpNotReady(outcome) ==
    /\ state = "setting_up"
    /\ state' = "retry"
    /\ outcome = "limiter" \/ "live" \notin holds
    /\ \/ Unloaded(holds)
       \/ outcome \in Outages /\ Unloaded(holds \union {"live"})
    /\ UNCHANGED <<schoolVars, storeVars, reloading, flow, histVars>>

\* The login is through, and the rotated token written over the stored data.
Rotated(d) == IF Rotates(d) THEN [d EXCEPT !.key = secret'[account.data.names]] ELSE d
LoggedIn ==
    /\ "live" \notin holds
    /\ LogIn(account.data)
    /\ account' = [account EXCEPT !.data = Outcome(@), !.roster = enrolled[account.data.names]]
    /\ entry' = [entry EXCEPT !.data = Rotated(@)]
SetUpLogIn ==
    /\ state = "setting_up" /\ account.roster = {}
    /\ LoggedIn
    /\ UNCHANGED <<options, state, listening, reloading, holds, flow, histVars>>

\* The roster becomes the baseline of later arrivals, and the children followed have
\* a row in the table of keys, of the entry as it is at this moment.
Paired ==
    /\ account' = [account EXCEPT !.seen = account.roster]
    /\ entry' = [entry EXCEPT !.data.keyed =
                   @ \union Among(account.data.chosen, account.roster)]
SetUpPairs ==
    /\ state = "setting_up" /\ account.roster # {}
    /\ Paired
    /\ state' = "forwarding"
    /\ UNCHANGED <<schoolVars, options, listening, reloading, holds, flow, histVars>>

SetUpDone ==
    /\ state = "forwarding"
    /\ state' = "loaded" /\ listening' = TRUE
    /\ UNCHANGED <<schoolVars, storeVars, account, reloading, holds, flow, histVars>>

\* A login of the running account, and its write into the entry.  A refusal at
\* this point changes nothing here: no repair, no re-authentication.
Written == IF entry' = entry THEN UNCHANGED reloading ELSE Updated(options)
RunningLogIn ==
    /\ state = "loaded"
    /\ LoggedIn
    /\ Written
    /\ UNCHANGED <<options, state, listening, holds, flow, histVars>>

\* After a batch: a child announced by a login since set-up was declined by nobody
\* and joins the selection the account was built with, which is written back ...
Newcomers_NotFollowed == account.roster \ account.data.chosen
Newcomers == account.roster \ account.seen
AdoptNewcomers ==
    /\ state = "loaded" /\ Newcomers # {}
    /\ account' = [account EXCEPT !.data.chosen = @ \union Newcomers]
    /\ entry' = [entry EXCEPT !.data.chosen = account'.data.chosen]
    /\ Written
    /\ UNCHANGED <<schoolVars, options, state, listening, holds, flow, histVars>>
\* ... and is given its key, unless reading the roster again fails.
PairNewcomers ==
    /\ state = "loaded" /\ Newcomers # {} /\ Newcomers \subseteq account.data.chosen
    /\ Paired
    /\ Written
    /\ UNCHANGED <<schoolVars, options, state, listening, holds, flow, histVars>>
RunningRefused ==
    /\ state = "loaded"
    /\ \/ holds' = holds \union {"live"} \/ holds' = holds \ {"live"}
    /\ UNCHANGED <<schoolVars, storeVars, state, account, listening, reloading, flow,
                   histVars>>

SaveOptions ==
    /\ Stored /\ options < MaxSaves
    /\ options' = options + 1
    /\ Updated(options')
    /\ savedEarly' = (savedEarly \/ state \in {"setting_up", "forwarding"})
    /\ UNCHANGED <<schoolVars, entry, state, account, listening, holds, flow, decision>>

\* By the listener, after a reconnection, or because the owner asks for it.
Unload ==
    /\ state = "loaded"
    /\ state' = "not_loaded"
    /\ Unloaded(holds)
    /\ UNCHANGED <<schoolVars, storeVars, reloading, flow, histVars>>

\* Home Assistant stops: nothing but the store survives.
HomeRestarts ==
    /\ Stored
    /\ state' = "not_loaded" /\ account' = None /\ listening' = FALSE /\ reloading' = FALSE
    /\ holds' = {} /\ flow' = Closed
    /\ UNCHANGED <<schoolVars, storeVars, histVars>>

\* By hand; bound: not while a login of the flow or of the set-up is out.
Remove ==
    /\ Stored /\ state # "setting_up" /\ state # "forwarding" /\ ~Probing
    /\ entry' = None /\ options' = 0 /\ state' = "not_loaded" /\ reloading' = FALSE
    /\ Unloaded(holds)
    /\ flow' = IF flow # Closed /\ flow.reauth THEN Closed ELSE flow
    /\ UNCHANGED <<schoolVars, histVars>>

HoldEnds ==
    /\ holds # {}
    /\ \E h \in SUBSET holds : holds' = h /\ h # holds
    /\ UNCHANGED <<schoolVars, storeVars, state, account, listening, reloading, flow,
                   histVars>>

\* The owner changes the password, or revokes the device.
NewSecret(a) ==
    /\ secret[a] < MaxSecret
    /\ secret' = [secret EXCEPT ![a] = @ + 1]
    /\ UNCHANGED <<enrolled, storeVars, runVars, flow, histVars>>

\* A child more on an account.
Enrol(a) ==
    /\ \E c \in ChildrenOf[a] \ enrolled[a] : enrolled' = [enrolled EXCEPT ![a] = @ \union {c}]
    /\ UNCHANGED <<secret, storeVars, runVars, flow, histVars>>

-----------------------------------------------------------------------------
Init ==
    /\ secret = [a \in Accounts |-> 1]
    /\ enrolled = [a \in Accounts |-> FirstChildren[a]]
    /\ entry = None /\ options = 0 /\ state = "not_loaded" /\ account = None
    /\ listening = FALSE /\ reloading = FALSE /\ flow = Closed
    /\ holds = {} /\ savedEarly = FALSE
    /\ decision = [chosen |-> {}, declined |-> {}]

FlowStep ==
    \/ OpenUserFlow
    \/ \E a \in Accounts, key \in 1 .. MaxSecret, pin \in BOOLEAN :
         SubmitForm(a, key, pin) \/ SubmitReauth(a, key, pin)
    \/ \E outcome \in Refusals \union Outages \union LocalFailures : ProbeFails(outcome)
    \/ Challenged \/ AnswerQcm
    \/ NewAccountFound
    \/ \E S \in SUBSET AllChildren :
         flow.step = "children" /\ S \subseteq Offered(flow.data) /\ ChooseChildren(S)
    \/ Reconnected
    \/ Dismiss

EntryStep ==
    \/ BeginSetUp
    \/ \E outcome \in Refusals : SetUpRefused(outcome)
    \/ \E outcome \in Outages \union {"unreadable", "limiter"} : SetUpNotReady(outcome)
    \/ SetUpLogIn \/ SetUpPairs \/ SetUpDone
    \/ RunningLogIn \/ RunningRefused
    \/ AdoptNewcomers \/ PairNewcomers
    \/ SaveOptions
    \/ Unload \/ HomeRestarts \/ Remove
    \/ HoldEnds
    \/ \E a \in Accounts : NewSecret(a) \/ Enrol(a)

Next == FlowStep \/ EntryStep

Spec == Init /\ [][Next]_vars

-----------------------------------------------------------------------------
(* Properties.                                                             *)

DataSet ==
    [kind : Kinds, names : Accounts, key : 0 .. MaxSecret, single : SUBSET SingleUse,
     chosen : SUBSET AllChildren, keyed : SUBSET AllChildren]

\* Every variable has its shape; an account exists from set-up to unload, the
\* listener is attached exactly while the entry is loaded, and neither the QR
\* payload nor the PIN is ever in the store or in an account built from it.
TypeOK ==
    /\ secret \in [Accounts -> 1 .. MaxSecret]
    /\ enrolled \in [Accounts -> SUBSET AllChildren]
    /\ Stored => entry.uid \in Accounts /\ entry.data \in DataSet /\ entry.data.single = {}
    /\ options \in 0 .. MaxSaves
    /\ state \in {"not_loaded", "setting_up", "forwarding", "loaded", "retry", "auth_failed"}
    /\ account # None => /\ account.data \in DataSet /\ account.data.single = {}
                         /\ account.options \in 0 .. MaxSaves
                         /\ account.roster \subseteq AllChildren
                         /\ account.seen \subseteq account.roster
    /\ account # None <=> state \in {"setting_up", "forwarding", "loaded"}
    /\ listening <=> state = "loaded"
    /\ reloading \in BOOLEAN /\ savedEarly \in BOOLEAN
    /\ flow.step \in {"closed", "form", "probing", "qcm", "children"}
    /\ flow # Closed => flow.reauth \in BOOLEAN /\ flow.data \in DataSet
    /\ holds \subseteq {"guard", "live", "saved"}

\* async_step_reauth_qr: through wrong codes, forms submitted twice, reloads and
\* credentials that change under it, a PRONOTE entry keeps its credentials on the
\* account it was created for, and so does the account object that runs.
EntryKeepsItsAccount ==
    /\ Stored /\ entry.data.kind # "ed" => entry.data.names = entry.uid
    /\ account # None /\ account.data.kind # "ed" => account.data.names = entry.uid

\* async_step_children, _async_finish_reauth, _async_adopt_announced_children: while
\* reconnections, pairings and adoptions write the selection and the table of keys
\* over each other, stale copies included, an entry follows none of the children its
\* owner left out when it was created and every one its owner named.  Identifiers are
\* stable here: a rename can pass a declined child off as an arrival.
DeclinedStaysDeclined ==
    Stored /\ entry.data.names = entry.uid =>
        /\ Followed(entry.data) \intersect decision.declined = {}
        /\ decision.chosen \subseteq Followed(entry.data)

\* _async_adopt_announced_children, _async_finish_reauth: a child the running account
\* follows, one it adopted included, is one the entry has it follow after a reload.
FollowedSurvivesReload ==
    state = "loaded" /\ entry.data.names = account.data.names =>
        account.data.chosen \intersect account.roster \subseteq Followed(entry.data)

\* async_reload_entry: a loaded account that no reload is waiting for was built
\* from the stored options, except when they were saved during its set-up.
OptionsReach ==
    state = "loaded" /\ ~reloading /\ ~savedEarly => account.options = options
=============================================================================
