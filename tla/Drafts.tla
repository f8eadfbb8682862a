------------------------------- MODULE Drafts -------------------------------
(***************************************************************************)
(* The intake of one account: report_intents rows, their idempotent        *)
(* creation, optimistic saving, completion and expiry                      *)
(* (packages/application/src/report-intent-commands.ts over                *)
(* packages/database/src/report-intent-repository.ts and                   *)
(* create-idempotency.ts), driven by the intake client of each open tab    *)
(* (apps/web/src/intake/intake-client.ts).                                 *)
(*                                                                         *)
(* A draft is what each section of the form was answered with.  Requests   *)
(* are one action per await that reads or writes a row; an answer may be   *)
(* lost while the request goes on.  Every statement filters by owner, so   *)
(* one account is enough.                                                  *)
(***************************************************************************)
EXTENDS Naturals

CONSTANTS Keys,       \* idempotency keys; the intent id is a digest of owner and key
          Locales,    \* the body of a create request
          Tabs, Calls, Sections, Values, None,
          DraftLife,  \* DRAFT_EXPIRY_MS, 7 days
          KeyWindow,  \* IDEMPOTENCY_WINDOW_MS, 24 hours
          MaxDelay,   \* bound of the time between a request's clock sample and its statement
          MaxClock, MaxVersion

ASSUME DraftTimes ==
  /\ {DraftLife, KeyWindow, MaxDelay} \subseteq Nat \ {0}
  /\ KeyWindow <= DraftLife
  /\ MaxClock \in Nat /\ MaxVersion \in Nat

ASSUME NoneIsNoKey == None \notin Keys \cup Tabs \cup Locales \cup Values

VARIABLES
  clock,
  intents,    \* report_intents with their subject and consent_events, by idempotency key
  creations,  \* report_intent_create_requests
  call,       \* requests in flight on the server
  tab,        \* the client of each tab: its create key and "current"
  cookie      \* report_draft, one for all tabs of the browser: the intent it names

draftVars == <<clock, intents, creations, call, tab, cookie>>

Times == 0 .. MaxClock
Drafts == [Sections -> Values \cup {None}]
Unanswered == [x \in Sections |-> None]
Complete == [Sections -> Values]

IntentRows ==
  [status : {"draft", "complete", "checkout_created", "converted", "expired"},
   version : Nat \ {0}, locale : Locales, created : Nat,
   draft : Drafts, snapshot : Complete \cup {None},
   subject : {"none", "held", "erased"}, consents : {0, 3}]
CreationRows == [locale : Locales, until : Nat]

ASSUME NoneIsNoRow ==
  None \notin IntentRows /\ None \notin CreationRows /\ None \notin Complete /\ None # "draft"

NoCall ==
  [step |-> "idle", op |-> "none", tab |-> None, id |-> None, locale |-> None, at |-> 0,
   until |-> 0, expected |-> 0, input |-> Unanswered, known |-> Unanswered]

Fresh == [key |-> None, id |-> None, version |-> 0, draft |-> Unanswered, status |-> None]

DraftsInit ==
  /\ clock = 0
  /\ intents = [k \in Keys |-> None]
  /\ creations = [k \in Keys |-> None]
  /\ call = [c \in Calls |-> NoCall]
  /\ tab = [t \in Tabs |-> Fresh]
  /\ cookie = None

Created(k) == intents[k] # None
ExpiresAt(k) == intents[k].created + DraftLife
Waiting(t) == \E c \in Calls : call[c].tab = t

-----------------------------------------------------------------------------
(* The client.  The form sends one request at a time (saving).             *)

Send(c, t, request) ==
  /\ call[c] = NoCall
  /\ ~Waiting(t)
  /\ call' = [call EXCEPT ![c] = [request EXCEPT !.tab = t, !.at = clock]]

\* save() before there is a current draft: the key is kept until an answer arrives.
SendCreate(c, t, k, locale) ==
  /\ tab[t].id = None
  /\ tab[t].key \in {k, None}
  /\ tab[t].key = None => /\ ~Created(k)   \* crypto.randomUUID
                          /\ \A u \in Tabs : tab[u].key # k
                          /\ \A d \in Calls : call[d].id # k
  /\ Send(c, t, [NoCall EXCEPT !.step = "lock", !.op = "create", !.id = k, !.locale = locale])
  /\ tab' = [tab EXCEPT ![t].key = k]
  /\ UNCHANGED <<clock, intents, creations, cookie>>

\* ownerInput: requests for an intent the cookie does not name are refused at once.  The
\* cookie expires with its intent, which read() refuses as well.  That signing out clears it
\* is left out: it only keeps tabs from sending what they need not send anyway.
Named(k) == cookie = k

\* load() of the intent in the address of a newly opened page.
SendLoad(c, t, k) ==
  /\ tab[t] = Fresh
  /\ Named(k)
  /\ Send(c, t, [NoCall EXCEPT !.step = "read", !.op = "load", !.id = k])
  /\ UNCHANGED <<clock, intents, creations, tab, cookie>>

\* save() and complete() of the current draft.  "known" is history: what the tab shows.
SendChange(c, t, op, input) ==
  /\ tab[t].status = "draft" /\ Named(tab[t].id)
  /\ op = "patch" => tab[t].version < MaxVersion
  /\ Send(c, t, [NoCall EXCEPT !.step = "read", !.op = op, !.id = tab[t].id, !.input = input,
                              !.expected = tab[t].version, !.known = tab[t].draft])
  /\ UNCHANGED <<clock, intents, creations, tab, cookie>>

\* The tab learns nothing: its request timed out or its answer was lost.  The request may
\* still be served.
Lost(c) ==
  /\ call[c].tab # None
  /\ call' = [call EXCEPT ![c].tab = None]
  /\ UNCHANGED <<clock, intents, creations, tab, cookie>>

\* The page is closed or opened anew.
Reload(t) ==
  /\ tab[t] # Fresh
  /\ tab' = [tab EXCEPT ![t] = Fresh]
  /\ call' = [c \in Calls |-> IF call[c].tab = t
                              THEN [call[c] EXCEPT !.tab = None] ELSE call[c]]
  /\ UNCHANGED <<clock, intents, creations, cookie>>

\* A successful answer: the tab's current draft, if it is still waiting, and the cookie, which
\* the browser may also keep when the page is gone.
Answer(c, version, draft, status) ==
  /\ call' = [call EXCEPT ![c] = NoCall]
  /\ tab' = [t \in Tabs |->
       IF t = call[c].tab
       THEN [key |-> tab[t].key, id |-> call[c].id, version |-> version,
             draft |-> draft, status |-> status]
       ELSE tab[t]]
  /\ cookie' = call[c].id \/ (call[c].tab = None /\ UNCHANGED cookie)

\* An error changes nothing and leaves the tab as it is.
Refuse(c) ==
  /\ call' = [call EXCEPT ![c] = NoCall]
  /\ UNCHANGED <<tab, cookie>>

-----------------------------------------------------------------------------
(* POST /report-intents: execute() of create-idempotency.ts                *)

Creating(c) == call[c].step = "lock"

\* Another transaction holds the advisory lock of the key.
InProgress(c) == \E d \in Calls : call[d].step = "insert" /\ call[d].id = call[c].id

Conflicts(c) == creations[call[c].id].locale # call[c].locale

\* Mutant: a stored answer is replayed however old it is.
KeyExpired_Never(c) == FALSE

KeyExpired(c) == creations[call[c].id].until <= clock

\* The expiry the handler asked for has passed meanwhile: IDEMPOTENCY_EXPIRY_INVALID.
TooLate(c) == call[c].at + KeyWindow <= clock

CreateRefused(c) ==
  /\ Creating(c)
  /\ IF ~InProgress(c) /\ creations[call[c].id] # None
     THEN /\ Conflicts(c) \/ KeyExpired(c)
          /\ call' = [call EXCEPT ![c] = NoCall]
          \* The client drops an expired key.
          /\ tab' = [t \in Tabs |-> IF t = call[c].tab /\ ~Conflicts(c)
                                    THEN [tab[t] EXCEPT !.key = None] ELSE tab[t]]
          /\ UNCHANGED cookie
     ELSE (InProgress(c) \/ TooLate(c)) /\ Refuse(c)
  /\ UNCHANGED <<clock, intents, creations>>

\* The stored response: the draft as it was created.
CreateReplayed(c) ==
  /\ Creating(c) /\ ~InProgress(c)
  /\ creations[call[c].id] # None
  /\ ~Conflicts(c) /\ ~KeyExpired(c)
  /\ Answer(c, 1, Unanswered, "draft")
  /\ UNCHANGED <<clock, intents, creations>>

\* The lock is taken and no row found.
CreateBegins(c) ==
  /\ Creating(c) /\ ~InProgress(c)
  /\ creations[call[c].id] = None
  /\ ~TooLate(c)
  /\ call' = [call EXCEPT ![c].step = "insert", ![c].until = call[c].at + KeyWindow,
                          ![c].at = clock]
  /\ UNCHANGED <<clock, intents, creations, tab, cookie>>

\* The intent and the stored response, in one transaction.
CreateCommits(c) ==
  LET k == call[c].id
  IN /\ call[c].step = "insert"
     /\ \E now \in call[c].at .. clock :
          intents' = [intents EXCEPT ![k] =
            [status |-> "draft", version |-> 1, locale |-> call[c].locale, created |-> now,
             draft |-> Unanswered, snapshot |-> None, subject |-> "none", consents |-> 0]]
     /\ creations' = [creations EXCEPT ![k] =
          [locale |-> call[c].locale, until |-> call[c].until]]
     /\ Answer(c, 1, Unanswered, "draft")
     /\ UNCHANGED clock

-----------------------------------------------------------------------------
(* GET, PATCH and POST .../complete: report-intent-commands.ts             *)

Reading(c) == call[c].step = "read"

\* read(): an expired intent is not found.
Readable(k) == intents[k].status # "expired" /\ clock < ExpiresAt(k)

\* What the handlers refuse after read().  patch() leaves the version to saveDraft.
Refused(c) ==
  LET row == intents[call[c].id]
  IN \/ ~Readable(call[c].id)
     \/ call[c].op # "load" /\ row.status # "draft"
     \/ call[c].op = "complete" /\ row.version # call[c].expected

ReadRefused(c) ==
  /\ Reading(c) /\ Refused(c)
  /\ Refuse(c)
  /\ UNCHANGED <<clock, intents, creations>>

Load(c) ==
  LET row == intents[call[c].id]
  IN /\ Reading(c) /\ call[c].op = "load" /\ ~Refused(c)
     /\ Answer(c, row.version, row.draft, row.status)
     /\ UNCHANGED <<clock, intents, creations>>

\* mergeDraft: the sections of the patch over the draft.
Overlay(draft, patch) == [x \in Sections |-> IF patch[x] = None THEN draft[x] ELSE patch[x]]

\* The new draft is computed from the draft that was read.
ReadForChange(c) ==
  LET row == intents[call[c].id]
  IN /\ Reading(c) /\ call[c].op # "load" /\ ~Refused(c)
     /\ call' = [call EXCEPT ![c].step = "save", ![c].at = clock,
                   ![c].input = IF call[c].op = "patch" THEN Overlay(row.draft, @) ELSE @]
     /\ UNCHANGED <<clock, intents, creations, tab, cookie>>

Saving(c, op) == call[c].step = "save" /\ call[c].op = op

\* Mutant: the row is found by its id and status only.
Unchanged_AnyVersion(c, now) ==
  /\ intents[call[c].id].status = "draft"
  /\ now < ExpiresAt(call[c].id)

\* Mutant: what was read before is trusted.
Unchanged_SinceRead(c, now) == now < ExpiresAt(call[c].id)

\* The WHERE clause of saveDraft, and what complete() asks of the locked row.
Unchanged(c, now) ==
  /\ intents[call[c].id].status = "draft"
  /\ intents[call[c].id].version = call[c].expected
  /\ now < ExpiresAt(call[c].id)

SaveDraft(c) ==
  LET k == call[c].id
  IN /\ Saving(c, "patch")
     /\ \E now \in call[c].at .. clock : Unchanged(c, now)
     /\ intents' = [intents EXCEPT ![k].draft = call[c].input, ![k].version = @ + 1]
     /\ Answer(c, intents[k].version + 1, call[c].input, "draft")
     /\ UNCHANGED <<clock, creations>>

\* The subject, the snapshot, the three consent events and the row in one transaction.
CompleteIntent(c) ==
  LET k == call[c].id
  IN /\ Saving(c, "complete")
     /\ Unchanged(c, call[c].at)
     /\ intents' = [intents EXCEPT ![k].status = "complete", ![k].version = @ + 1,
          ![k].draft = call[c].input, ![k].snapshot = call[c].input,
          ![k].subject = "held", ![k].consents = @ + 3]
     /\ Answer(c, intents[k].version + 1, call[c].input, "complete")
     /\ UNCHANGED <<clock, creations>>

SaveRefused(c) ==
  /\ \/ Saving(c, "patch") /\ \E now \in call[c].at .. clock : ~Unchanged(c, now)
     \/ Saving(c, "complete") /\ ~Unchanged(c, call[c].at)
  /\ Refuse(c)
  /\ UNCHANGED <<clock, intents, creations>>

\* An error of a statement or of key management, or the process dies: rolled back.
Abort(c) ==
  /\ call[c] # NoCall
  /\ Refuse(c)
  /\ UNCHANGED <<clock, intents, creations>>

-----------------------------------------------------------------------------
(* What else changes the rows *)

\* prepareCheckout (PaymentStore); its clock sample may be older than the statement.
Checkout(k, now) ==
  /\ Created(k) /\ intents[k].status = "complete"
  /\ now <= clock /\ clock <= now + MaxDelay /\ now < ExpiresAt(k)
  /\ intents' = [intents EXCEPT ![k].status = "checkout_created", ![k].version = @ + 1]
  /\ UNCHANGED <<clock, creations, call, tab, cookie>>

\* A capture (PaymentStore).
Pay(k) ==
  /\ Created(k) /\ intents[k].status = "checkout_created"
  /\ intents' = [intents EXCEPT ![k].status = "converted", ![k].version = @ + 1]
  /\ UNCHANGED <<clock, creations, call, tab, cookie>>

\* Mutant: an order does not protect the intent.
Due_OrderedToo(k, now) ==
  Created(k) /\ intents[k].status # "expired" /\ ExpiresAt(k) <= now

\* An intent with an order is "checkout_created" or "converted", so the NOT EXISTS on orders
\* adds nothing to the status.
Due(k, now) ==
  Created(k) /\ intents[k].status \in {"draft", "complete"} /\ ExpiresAt(k) <= now

Tombstone(row) ==
  [row EXCEPT !.status = "expired", !.version = @ + 1, !.draft = Unanswered, !.snapshot = None,
              !.subject = IF @ = "held" THEN "erased" ELSE @]

\* expireDueDrafts: a bounded SKIP LOCKED batch.
ExpireDueDrafts(S, now) ==
  /\ now <= clock /\ clock <= now + MaxDelay
  /\ S # {} /\ \A k \in S : Due(k, now)
  /\ intents' = [k \in Keys |-> IF k \in S THEN Tombstone(intents[k]) ELSE intents[k]]
  /\ UNCHANGED <<clock, creations, call, tab, cookie>>

Tick ==
  /\ clock < MaxClock
  /\ \A c \in Calls : call[c] # NoCall => clock < call[c].at + MaxDelay
  /\ clock' = clock + 1
  /\ UNCHANGED <<intents, creations, call, tab, cookie>>

ClientNext ==
  \/ \E c \in Calls, t \in Tabs :
       \/ \E k \in Keys, locale \in Locales : SendCreate(c, t, k, locale)
       \/ \E k \in Keys : SendLoad(c, t, k)
       \/ \E input \in Drafts \ {Unanswered} : SendChange(c, t, "patch", input)
       \/ \E input \in Complete : SendChange(c, t, "complete", input)
  \/ \E c \in Calls : Lost(c)
  \/ \E t \in Tabs : Reload(t)

ServerNext ==
  \E c \in Calls :
    \/ CreateRefused(c) \/ CreateReplayed(c) \/ CreateBegins(c) \/ CreateCommits(c)
    \/ ReadRefused(c) \/ Load(c) \/ ReadForChange(c)
    \/ SaveDraft(c) \/ CompleteIntent(c) \/ SaveRefused(c)
    \/ Abort(c)

DraftsNext ==
  \/ ClientNext
  \/ ServerNext
  \/ \E k \in Keys, now \in Times : Checkout(k, now)
  \/ \E k \in Keys : Pay(k)
  \/ \E S \in SUBSET Keys, now \in Times : ExpireDueDrafts(S, now)
  \/ Tick

DraftsSpec == DraftsInit /\ [][DraftsNext]_draftVars

\* The scheduled maintenance keeps coming, with a fresh clock sample.
MaintainedSpec ==
  DraftsSpec /\ WF_draftVars(\E S \in SUBSET Keys : ExpireDueDrafts(S, clock))

-----------------------------------------------------------------------------
CallRows ==
  [step : {"idle", "lock", "insert", "read", "save"},
   op : {"none", "create", "load", "patch", "complete"},
   tab : Tabs \cup {None}, id : Keys \cup {None}, locale : Locales \cup {None}, at : Nat,
   until : Nat, expected : Nat,
   input : Drafts, known : Drafts]

\* Type invariant of the rows, the requests and the tabs.
DraftsTypeOK ==
  /\ clock \in Nat
  /\ intents \in [Keys -> IntentRows \cup {None}]
  /\ creations \in [Keys -> CreationRows \cup {None}]
  /\ call \in [Calls -> CallRows]
  /\ tab \in [Tabs -> [key : Keys \cup {None}, id : Keys \cup {None},
                       version : Nat, draft : Drafts,
                       status : {"draft", "complete", "checkout_created", "converted", None}]]
  /\ cookie \in Keys \cup {None}

\* A change of a draft only ever builds on what its tab was shown: the row still holds the
\* draft the tab had when it asked, and becomes that draft with the request's answers over
\* it.  No tab overwrites another one's answers unseen, although patch() merges into a draft
\* it read without comparing versions (patch, saveDraft, complete).
SavesBuildOnWhatWasSeen ==
  [][\A k \in Keys :
       (Created(k) /\ intents'[k].draft # intents[k].draft /\ intents'[k].status # "expired")
         => \E c \in Calls : /\ Saving(c, "patch") \/ Saving(c, "complete")
                             /\ call[c].id = k
                             /\ call[c].known = intents[k].draft
                             /\ intents'[k].draft = call[c].input]_draftVars

\* A completed intent stays as it was completed: one snapshot, one set of consent events, one
\* subject, until maintenance erases the intent; an ordered one is never erased (complete,
\* expireDueDrafts).
CompletedOnce ==
  [][\A k \in Keys :
       (Created(k) /\ intents[k].status \in {"complete", "checkout_created", "converted"}) =>
         /\ intents[k].snapshot # None /\ intents[k].consents = 3
         /\ intents'[k].consents = intents[k].consents
         /\ IF intents'[k].status = "expired"
            THEN intents[k].status = "complete"
            ELSE /\ intents'[k].status # "draft"
                 /\ intents'[k].snapshot = intents[k].snapshot
                 /\ intents'[k].subject = "held"]_draftVars

\* A create request that is answered names a draft of its own locale that can still be resumed,
\* however often it was retried: a stored answer never outlives its draft (execute).
ReplaysAreLive ==
  [][\A c \in Calls :
       CreateReplayed(c) => /\ Created(call[c].id)
                            /\ intents[call[c].id].locale = call[c].locale
                            /\ Readable(call[c].id)]_draftVars

\* What maintenance erased stays erased: no save or completion that read the draft before
\* brings its answers back, and nothing else is erased (expireDueDrafts, saveDraft, complete).
ExpiryIsFinal ==
  \A k \in Keys : Created(k) =>
    IF intents[k].status = "expired"
    THEN intents[k].draft = Unanswered /\ intents[k].snapshot = None /\ intents[k].subject # "held"
    ELSE intents[k].subject # "erased"

Changes == [key : Keys, stage : {"draft", "complete"}, answers : Drafts]

ASSUME NoneIsNoChange == None \notin Changes

\* A change that is under way can still be made when its row is the draft it expects.  It is
\* the answers of the request over what its tab showed.
Pending(c) ==
  /\ call[c].step \in {"read", "save"} /\ call[c].op \in {"patch", "complete"}
  /\ intents[call[c].id].status = "draft"
  /\ intents[call[c].id].version = call[c].expected
Wanted(c) ==
  [x \in Sections |-> IF call[c].input[x] = None THEN call[c].known[x] ELSE call[c].input[x]]
Change(c) ==
  IF Pending(c)
  THEN [key |-> call[c].id, stage |-> IF call[c].op = "patch" THEN "draft" ELSE "complete",
        answers |-> Wanted(c)]
  ELSE None
Page(k) ==
  IF ~Created(k) THEN [stage |-> "none", answers |-> Unanswered]
  ELSE CASE intents[k].status = "draft" -> [stage |-> "draft", answers |-> intents[k].draft]
         [] intents[k].status = "complete" -> [stage |-> "complete", answers |-> intents[k].snapshot]
         [] intents[k].status = "expired" -> [stage |-> "erased", answers |-> intents[k].draft]
         [] OTHER -> [stage |-> "bought", answers |-> intents[k].snapshot]
Abstract == INSTANCE Intake WITH
  page <- [k \in Keys |-> Page(k)], change <- [c \in Calls |-> Change(c)]

\* Every behaviour of the rows is a behaviour of an intake whose pages are changed in one step:
\* the version check of saveDraft and complete() makes up for reading, merging and writing in
\* three, and a draft that is saved, completed or erased voids what was asked of it before.
ImplementsIntake == Abstract!IntakeSpec

\* privacy-notice.ts, Retention: "An unpaid draft and its names, date, and language are retained
\* for up to 7 days for resume and preview, then erased or redacted."
UnpaidIsErased ==
  \A k \in Keys :
    (Created(k) /\ clock >= ExpiresAt(k)) ~> (Created(k) /\ intents[k].status \in {"expired", "converted"})
=============================================================================
